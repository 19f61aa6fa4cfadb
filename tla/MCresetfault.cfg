\* One failed registry write, or one failed read of OriginalSearchList in reset.
CONSTANTS
    Letters <- MCLetters
    Comma <- MCComma
    Absent = Absent
    Tun = tun
    Others = {eth}
    PushedDomains <- MCPushed
    PolicyLists <- MCLists
    LocalLists <- MCLists
    PrimaryDomains <- MCPrimary
    ItfDomains <- MCItfDomains
    MaxCrashes = 0
    MaxFaults = 1
    EnvActors = {"resetread"}
    MaxDisturbances = 1
SPECIFICATION EnvSpec
INVARIANT OriginalRecoverable
