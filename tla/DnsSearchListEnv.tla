--------------------------- MODULE DnsSearchListEnv ---------------------------
(***************************************************************************)
(* DnsSearchList together with the actors outside the client that share    *)
(* its registry state (spec section 5): adapters going up and down, group  *)
(* policy refreshing the policy SearchList, the VPN adapter's EnableDHCP   *)
(* changing, and registry reads that fail with an error other than "not    *)
(* found" inside remove_search_domains and reset_search_domains.  Each     *)
(* disturbance is one step between two steps of the client; how many there *)
(* are is bounded by MaxDisturbances, which kinds by EnvActors.            *)
(***************************************************************************)
EXTENDS DnsSearchList

CONSTANTS
    EnvActors,        \* subset of ActorKinds enabled in a run
    MaxDisturbances   \* bound on environment steps

ActorKinds == {"link", "gpo", "dhcp", "rmread", "resetread"}

ASSUME EnvActors \subseteq ActorKinds /\ MaxDisturbances \in Nat

\* An environment step: never the start of an add.
Disturb(a) == /\ a \in EnvActors
              /\ disturbances < MaxDisturbances
              /\ disturbances' = disturbances + 1

\* The other adapter's link goes up or down (interface_connected).
LinkChange(i) ==
    /\ Disturb("link")
    /\ connected' = [connected EXCEPT ![i] = ~@]
    /\ UNCHANGED <<reg, itfReg, pc, locals, policyKey, primary, crashes, faults,
                   faulted, deleted, base, itfBase>>

\* A group policy refresh writes the policy key's SearchList (Absent: the
\* policy no longer sets one).  It is not VPN state, so the ghost baseline
\* follows it.
GpoRefresh(l) ==
    /\ Disturb("gpo")
    /\ policyKey' = TRUE
    /\ reg' = [reg EXCEPT !["Policy"][SL] = l]
    /\ base' = [base EXCEPT !["Policy"][SL] = l]
    /\ UNCHANGED <<itfReg, pc, locals, connected, primary, crashes, faults,
                   faulted, deleted, itfBase>>

\* The VPN adapter switches between DHCP and static configuration.
DhcpToggle ==
    /\ Disturb("dhcp")
    /\ itfReg' = [itfReg EXCEPT ![Tun].EnableDHCP = ~@]
    /\ itfBase' = [itfBase EXCEPT ![Tun].EnableDHCP = ~@]
    /\ UNCHANGED <<reg, pc, locals, env, crashes, faults, faulted, deleted,
                   base>>

\* remove_search_domains: the adapter suffix is cleared, a list exists, and
\* then the read of SearchList or of InitialSearchList fails: return.
RmReadError ==
    /\ Disturb("rmread")
    /\ pc = "rm_suffix"
    /\ OpenSearchlistKey.exists
    /\ \E ok \in ItfOutcomes :
         /\ SetItfDomainSuffix(ok, <<>>)
         /\ faults' = IF ok THEN faults ELSE faults + 1
    /\ key' = OpenSearchlistKey.key
    /\ Return
    /\ UNCHANGED <<reg, env, ret, doms, listExists, single, newList, crashes,
                   faulted, base, itfBase, rolledBack>>

\* reset_search_domains: reading OriginalSearchList fails with an error
\* other than ERROR_FILE_NOT_FOUND, so SearchList is not written; the two
\* markers are deleted next all the same.
ResetReadError ==
    /\ Disturb("resetread")
    /\ pc = "reset_search"
    /\ pc' = "reset_del_init"
    /\ UNCHANGED <<reg, itfReg, env, locals, crashes, faults, faulted, deleted,
                   base, itfBase>>

EnvNext ==
    \/ Next
    \/ \E i \in Others : LinkChange(i)
    \/ \E l \in PolicyLists : GpoRefresh(l)
    \/ DhcpToggle
    \/ RmReadError
    \/ ResetReadError

\* No fairness: no property of this module is a liveness property.  The
\* add and remove code is straight-line (no loop, wait or retry), so
\* that each started call returns holds by construction.
EnvSpec == Init /\ [][EnvNext]_vars

-----------------------------------------------------------------------------
(* Properties                                                               *)

\* Nothing of the VPN session is left: no marker under either key, no
\* pushed domain in either list (the pushed domains are not among the
\* pre-existing ones in these models), and the VPN adapter's suffix empty.
NoVpnTrace ==
    /\ \A k \in Keys : /\ reg[k][ISL] = Absent /\ reg[k][OSL] = Absent
                       /\ Segments(doms) \cap Segments(AsList(reg[k][SL])) = {}
    /\ itfReg[Tun].Domain = <<>> /\ itfReg[Tun].DhcpDomain = <<>>

\* A completed ActionDelete leaves no trace of the session
\* (remove_search_domains, spec 4.1 remove and 8.2).
CleanAfterDelete == (pc = "idle" /\ deleted) => NoVpnTrace

\* Spec section 3: only one location is ever managed; InitialSearchList
\* never exists under both the policy key and the local key.
OneManagedLocation == ~(\A k \in Keys : reg[k][ISL] # Absent)

=============================================================================
