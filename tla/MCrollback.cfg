CONSTANTS
    Letters <- MCLetters
    Comma <- MCComma
    Absent = Absent
    Tun = tun
    Others = {eth}
    PushedDomains <- MCPushed
    PolicyLists <- MCLists
    LocalLists <- MCLists
    PrimaryDomains <- MCPrimary
    ItfDomains <- MCItfDomains
    MaxCrashes = 0
    MaxFaults = 1
SPECIFICATION Spec
INVARIANT RollbackLeavesNoTrace
