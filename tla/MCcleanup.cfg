\* EnableDHCP of the VPN adapter changes once, or one read inside remove_search_domains fails.
CONSTANTS
    Letters <- MCLetters
    Comma <- MCComma
    Absent = Absent
    Tun = tun
    Others = {eth}
    PushedDomains <- MCPushed
    PolicyLists <- MCEnvLists
    LocalLists <- MCEnvLists
    PrimaryDomains <- MCNoPrimary
    ItfDomains <- MCItfDomains
    MaxCrashes = 0
    MaxFaults = 0
    EnvActors = {"dhcp", "rmread"}
    MaxDisturbances = 1
SPECIFICATION EnvSpec
INVARIANT CleanAfterDelete
