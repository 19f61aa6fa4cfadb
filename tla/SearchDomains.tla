---------------------------- MODULE SearchDomains ----------------------------
(***************************************************************************)
(* What the search-domain manager promises its user (spec section 1): the  *)
(* set of DNS suffixes the resolver applies is the pre-VPN set, plus the   *)
(* pushed domains while a tunnel has them applied, and a single step adds  *)
(* all pushed domains or takes them all away again.                        *)
(***************************************************************************)
CONSTANT Pushed     \* the sets of domains a server may push

VARIABLES
    baseline,   \* the suffixes in effect before any VPN session
    eff         \* the suffixes the resolver applies now

vars == <<baseline, eff>>

Init == eff = baseline

\* A tunnel comes up: all of its domains take effect at once.
AddDomains(D) ==
    /\ eff = baseline
    /\ eff' = baseline \cup D
    /\ UNCHANGED baseline

\* The tunnel goes down: exactly the pre-VPN suffixes are in effect again.
RemoveDomains ==
    /\ eff # baseline
    /\ eff' = baseline
    /\ UNCHANGED baseline

Next == (\E D \in Pushed : AddDomains(D)) \/ RemoveDomains

Spec == Init /\ [][Next]_vars
=============================================================================
