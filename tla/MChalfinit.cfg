CONSTANTS
    Letters <- MCLetters
    Comma <- MCComma
    Absent = Absent
    Tun = tun
    Others = {eth}
    PushedDomains <- MCPushed
    PolicyLists <- MCLists
    LocalLists <- MCLists
    PrimaryDomains <- MCPrimary
    ItfDomains <- MCItfDomains
    MaxCrashes = 1
    MaxFaults = 1
SPECIFICATION Spec
INVARIANT NamesStillResolve
