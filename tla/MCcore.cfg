\* No crash, no write fault, pushed domains disjoint from existing ones.
CONSTANTS
    Letters <- MCLetters
    Comma <- MCComma
    Absent = Absent
    Tun = tun
    Others = {eth, wlan}
    PushedDomains <- MCPushed
    PolicyLists <- MCLists
    LocalLists <- MCLists
    PrimaryDomains <- MCPrimary
    ItfDomains <- MCItfDomains
    MaxCrashes = 0
    MaxFaults = 0
SPECIFICATION Spec
INVARIANT TypeOK
INVARIANT RestoredAfterDelete
INVARIANT UpMeansApplied
INVARIANT NamesStillResolve
PROPERTY ImplementsSearchDomains
