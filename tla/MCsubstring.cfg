CONSTANTS
    Letters <- MCLetters
    Comma <- MCComma
    Absent = Absent
    Tun = tun
    Others = {eth}
    PushedDomains <- MCPushed
    PolicyLists <- MCNoLists
    LocalLists <- MCCollisionLists
    PrimaryDomains <- MCPrimary
    ItfDomains <- MCItfDomains
    MaxCrashes = 0
    MaxFaults = 0
SPECIFICATION Spec
INVARIANT RestoredAfterDelete
