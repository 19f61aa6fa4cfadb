CONSTANTS
    Empty = Empty
    None = None
    Users = {u1, u2}
    Passwords = {p1}
    Responses = {r1}
    Cookies = {c1}
    Tokens = {t1, t2}
SYMMETRY MCSymmetry
SPECIFICATION Spec
INVARIANTS TypeOK AuthInfoMatches
PROPERTY ChallengeUsedOnce
