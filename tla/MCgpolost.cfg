\* Group policy sets the policy SearchList and refreshes it once, to another list.
CONSTANTS
    Letters <- MCLetters
    Comma <- MCComma
    Absent = Absent
    Tun = tun
    Others = {eth}
    PushedDomains <- MCPushed
    PolicyLists <- MCChangingPolicyLists
    LocalLists <- MCNoLists
    PrimaryDomains <- MCNoPrimary
    ItfDomains <- MCItfDomains
    MaxCrashes = 0
    MaxFaults = 0
    EnvActors = {"gpo"}
    MaxDisturbances = 1
SPECIFICATION EnvSpec
INVARIANT OriginalRecoverable
