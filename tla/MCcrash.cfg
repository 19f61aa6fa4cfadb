\* Up to two process crashes anywhere, no write fault, no environment.
CONSTANTS
    Letters <- MCLetters
    Comma <- MCComma
    Absent = Absent
    Tun = tun
    Others = {eth}
    PushedDomains <- MCPushed
    PolicyLists <- MCLists
    LocalLists <- MCLists
    PrimaryDomains <- MCPrimary
    ItfDomains <- MCItfDomains
    MaxCrashes = 2
    MaxFaults = 0
SPECIFICATION Spec
INVARIANT OriginalRecoverable
