CONSTANTS
    Letters = {"a", "b"}
    Comma = ","
    Domains <- MCDomains
    MaxEntries = 3
SPECIFICATION Spec
INVARIANT RemovalMatchesReference
