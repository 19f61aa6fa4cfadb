CONSTANTS
    Letters <- MCLetters
    Comma <- MCComma
    Absent = Absent
    Tun = tun
    Others = {eth}
    PushedDomains <- MCPushed
    PolicyLists <- MCNoLists
    LocalLists <- MCExistingLists
    PrimaryDomains <- MCPrimary
    ItfDomains <- MCItfDomains
    MaxCrashes = 2
    MaxFaults = 0
SPECIFICATION Spec
INVARIANT RestoredAfterDelete
