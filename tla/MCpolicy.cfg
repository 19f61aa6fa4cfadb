\* Group policy sets or clears the policy SearchList once.
CONSTANTS
    Letters <- MCLetters
    Comma <- MCComma
    Absent = Absent
    Tun = tun
    Others = {eth}
    PushedDomains <- MCPushed
    PolicyLists <- MCEnvLists
    LocalLists <- MCEnvLists
    PrimaryDomains <- MCNoPrimary
    ItfDomains <- MCItfDomains
    MaxCrashes = 0
    MaxFaults = 0
    EnvActors = {"gpo"}
    MaxDisturbances = 1
SPECIFICATION EnvSpec
INVARIANT OneManagedLocation
