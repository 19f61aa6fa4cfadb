--------------------------- MODULE MCDnsSearchList ---------------------------
(* Model-checking instances of DnsSearchList: one-letter domains, the      *)
(* pushed domains "b" (single) and "b,c" (multi), existing lists made of   *)
(* "a", and for the collision run a pre-existing domain "ab".              *)
EXTENDS DnsSearchList

MCLetters == {"a", "b", "c"}
MCComma == ","

A == <<"a">>
B == <<"b">>
BC == <<"b", ",", "c">>
AB == <<"a", "b">>
C == <<"c">>

\* Pushed domains disjoint from every existing domain.
MCPushed == {B, BC}
MCLists == {Absent, <<>>, A}
MCPrimary == {<<>>, A}
MCItfDomains == {<<>>, A}

\* An existing list holding "ab", which contains the pushed "b".
MCCollisionLists == {AB}
\* No list anywhere: the path that synthesizes a baseline.
MCNoLists == {Absent}
\* A non-empty local list before the VPN.
MCExistingLists == {A}
\* For the runs with the environment: no list or a non-empty one.
MCEnvLists == {Absent, A}
MCNoPrimary == {<<>>}
\* Group policy holds a list and a refresh can replace it by another one.
MCChangingPolicyLists == {A, C}
=============================================================================
