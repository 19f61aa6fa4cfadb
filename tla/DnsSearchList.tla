---------------------------- MODULE DnsSearchList ----------------------------
(***************************************************************************)
(* The DNS search-domain manager of tun/win/dns.hpp (class Dns) and the    *)
(* registry helpers of win/netutil.hpp, driven by the ActionCreate /       *)
(* ActionDelete lifecycle of one client process that may crash between     *)
(* any two registry writes.  Every registry write may fail (bounded by     *)
(* MaxFaults).  Strings are sequences of characters, because removal from  *)
(* the search list works on substrings.                                    *)
(***************************************************************************)
EXTENDS Integers, SearchListStrings

CONSTANTS
    Absent,         \* a registry value that does not exist
    Tun,            \* the VPN adapter the domains are pushed for
    Others,         \* the other network adapters
    PushedDomains,  \* `domains' arguments of ActionCreate/ActionDelete
    PolicyLists,    \* initial "SearchList" of the policy key
    LocalLists,     \* initial "SearchList" of the local key
    PrimaryDomains, \* initial primary domain (Tcpip\Parameters "Domain")
    ItfDomains,     \* initial Domain / DhcpDomain values of Others
    MaxCrashes,     \* bound on process crashes
    MaxFaults       \* bound on failed registry writes

Keys == {"Policy", "Local"}          \* searchlist_subkeys, in precedence order
NoKey == "undefined"                 \* the REG::Key{} of open_searchlist_key
Itfs == {Tun} \cup Others
SL == "SearchList"
ISL == "InitialSearchList"
OSL == "OriginalSearchList"
Names == {SL, ISL, OSL}
Labels == {"idle", "snap_orig", "init_initial", "init_search", "apply", "up",
           "rm_suffix", "rm_store", "reset_search", "reset_del_init",
           "reset_del_orig"}

ASSUME /\ Absent \notin Str
       /\ PushedDomains \subseteq Str \ {<<>>}
       /\ MaxCrashes \in Nat /\ MaxFaults \in Nat

VARIABLES
    reg,        \* reg[k][n]: registry value n under list key k, or Absent
    policyKey,  \* the policy key exists (key.defined())
    itfReg,     \* itfReg[i]: Domain, DhcpDomain, EnableDHCP of adapter i
    connected,  \* NETAPI::interface_connected(i)
    primary,    \* primary domain suffix
    pc,         \* where the client process is
    ret,        \* where remove_search_domains returns to ("up" on rollback)
    doms, key, listExists, single, newList,  \* locals of add / remove
    crashes, faults,
    faulted,    \* a registry write failed during the current add
    deleted,    \* the last finished operation was a whole ActionDelete
    base, itfBase,  \* the registry before any VPN session (ghost)
    rolledBack,     \* the current add ran its compensating remove (ghost)
    disturbances    \* environment steps so far (none without DnsSearchListEnv)

env == <<policyKey, connected, primary>>
ghosts == <<base, itfBase, disturbances>>
locals == <<ret, doms, key, listExists, single, newList, rolledBack>>
vars == <<reg, itfReg, pc, locals, env, crashes, faults, faulted, deleted,
          ghosts>>

-----------------------------------------------------------------------------
(* Registry and adapter helpers                                             *)

\* REG::get_string: the value, Absent standing for an error.  A read under
\* the undefined key fails.
Get(k, n) == IF k \in Keys THEN reg[k][n] ELSE Absent

\* The string part of REG::get_string's result: empty on error.
ReadStr(k, n) == IF Get(k, n) = Absent THEN <<>> ELSE Get(k, n)

\* "!error && !list.empty()"
HasList(k) == Get(k, SL) \notin {Absent, <<>>}

OpenSearchlistKeyMut ==
    IF policyKey /\ HasList("Policy") THEN [key |-> "Policy", exists |-> TRUE]
    ELSE IF HasList("Local") THEN [key |-> "Local", exists |-> TRUE]
    ELSE [key |-> NoKey, exists |-> FALSE]

\* open_searchlist_key: the first key in precedence order with a non-empty
\* list, else the local key (always defined) with exists = FALSE.
OpenSearchlistKey ==
    IF policyKey /\ HasList("Policy") THEN [key |-> "Policy", exists |-> TRUE]
    ELSE [key |-> "Local", exists |-> HasList("Local")]

InitialSearchlistExistsMut(k) == FALSE

\* initial_searchlist_exists
InitialSearchlistExists(k) == Get(k, ISL) # Absent

\* interface_dns_domain: DhcpDomain if non-empty, else Domain.
InterfaceDnsDomain(i) ==
    IF itfReg[i].DhcpDomain # <<>> THEN itfReg[i].DhcpDomain ELSE itfReg[i].Domain

\* NETAPI::interface_connected: media connected and operationally up; a
\* failed GUID/LUID conversion or GetIfEntry2 counts as not connected.
InterfaceConnected(i) == connected[i]

\* dhcp_enabled_on_itf selects the value set_itf_domain_suffix writes.
SuffixName(i) == IF itfReg[i].EnableDHCP THEN "DhcpDomain" ELSE "Domain"

\* The adapters in the order the interface-key enumeration yields them.
ItfOrder == SetToSeq(Itfs)

SynthesizedListMut ==
    FoldLeft(LAMBDA acc, d : IF d = <<>> THEN acc ELSE AppendDomains(acc, d),
             <<>>,
             [j \in DOMAIN ItfOrder |->
                 IF InterfaceConnected(ItfOrder[j]) THEN InterfaceDnsDomain(ItfOrder[j])
                 ELSE <<>>])

\* set_initial_searchlist_from_domains: the primary domain, then the
\* domain of every connected adapter, comma separated.
SynthesizedList ==
    FoldLeft(LAMBDA acc, d : IF d = <<>> THEN acc ELSE AppendDomains(acc, d),
             primary,
             [j \in DOMAIN ItfOrder |->
                 IF InterfaceConnected(ItfOrder[j]) THEN InterfaceDnsDomain(ItfOrder[j])
                 ELSE <<>>])

\* Absent and empty SearchList both mean "no search list".
AsList(v) == IF v = Absent THEN <<>> ELSE v

\* The suffixes the resolver applies for registry contents r and adapter
\* values it: the list of the key open_searchlist_key picks if there is
\* one, else the primary domain and every connected adapter's domain.
ActiveList(r) ==
    IF policyKey /\ AsList(r["Policy"][SL]) # <<>> THEN r["Policy"][SL]
    ELSE AsList(r["Local"][SL])
EffectiveSuffixes(r, it) ==
    IF ActiveList(r) # <<>> THEN Segments(ActiveList(r))
    ELSE ({primary} \cup {IF it[i].DhcpDomain # <<>> THEN it[i].DhcpDomain
                          ELSE it[i].Domain : i \in {j \in Itfs : InterfaceConnected(j)}})
           \ {<<>>}

-----------------------------------------------------------------------------
(* Writes.  `ok' is the outcome of one REG::set_string / delete_value.      *)

\* A write can fail while faults remain; one under the undefined key fails.
Outcomes(k) ==
    IF k \notin Keys THEN {FALSE}
    ELSE IF faults < MaxFaults THEN {TRUE, FALSE} ELSE {TRUE}

\* get_itf_id or the write itself may fail.
ItfOutcomes == IF faults < MaxFaults THEN {TRUE, FALSE} ELSE {TRUE}

SetReg(ok, k, n, v) == reg' = IF ok THEN [reg EXCEPT ![k][n] = v] ELSE reg

\* set_itf_domain_suffix(itf_name, d) for the VPN adapter.
SetItfDomainSuffix(ok, d) ==
    itfReg' = IF ok THEN [itfReg EXCEPT ![Tun][SuffixName(Tun)] = d] ELSE itfReg

Count(ok) == /\ faults' = IF ok THEN faults ELSE faults + 1
             /\ faulted' = (faulted \/ ~ok)

\* remove_search_domains returns to the caller recorded in `ret'.
Return == /\ pc' = ret
          /\ deleted' = (ret = "idle")

-----------------------------------------------------------------------------
(* ActionCreate::execute -> set_search_domains                              *)

\* set_search_domains: locate the list key, check ownership and whether
\* `d' is a single domain, and take the branch: snapshot the existing
\* list, synthesize a baseline (computed here, written by InitInitial), or
\* go straight on.
SetSearchDomains(d) ==
    LET o == OpenSearchlistKey
        owned == InitialSearchlistExists(o.key)
        sgl == ~Contains(d, Comma)
    IN /\ doms' = d /\ key' = o.key /\ listExists' = o.exists
       /\ single' = sgl
       /\ pc' = CASE ~owned /\ o.exists -> "snap_orig"
                  [] ~owned /\ ~sgl -> "init_initial"
                  [] OTHER -> "apply"
       /\ newList' = IF ~owned /\ ~o.exists /\ ~sgl THEN SynthesizedList
                     ELSE newList
       /\ faulted' = FALSE /\ deleted' = FALSE /\ rolledBack' = FALSE
       /\ UNCHANGED <<reg, itfReg, env, ret, crashes, faults, base, itfBase,
                      disturbances>>

\* ActionCreate::execute with the domains it was constructed with: the log
\* line and apply_dns_settings change no modelled state.
Connect == /\ pc = "idle"
           /\ \E d \in PushedDomains : SetSearchDomains(d)

\* set_initial_searchlist_from_existing: read SearchList, store it as
\* OriginalSearchList; any error returns from set_search_domains.
SnapOrig ==
    /\ pc = "snap_orig"
    /\ IF Get(key, SL) = Absent
       THEN /\ pc' = "up"
            /\ UNCHANGED <<reg, newList, faults, faulted>>
       ELSE \E ok \in Outcomes(key) :
              /\ SetReg(ok, key, OSL, Get(key, SL))
              /\ newList' = Get(key, SL)
              /\ pc' = IF ok THEN "init_initial" ELSE "up"
              /\ Count(ok)
    /\ UNCHANGED <<itfReg, env, ret, doms, key, listExists, single, crashes,
                   deleted, ghosts, rolledBack>>

\* set_initial_searchlist, first write: InitialSearchList := list.
InitInitial ==
    /\ pc = "init_initial"
    /\ \E ok \in Outcomes(key) :
         /\ SetReg(ok, key, ISL, newList)
         /\ pc' = IF ok THEN "init_search" ELSE "up"
         /\ Count(ok)
    /\ UNCHANGED <<itfReg, env, locals, crashes, deleted, ghosts>>

\* set_initial_searchlist, second write: SearchList := list.
InitSearch ==
    /\ pc = "init_search"
    /\ \E ok \in Outcomes(key) :
         /\ SetReg(ok, key, SL, newList)
         /\ pc' = IF ok THEN "apply" ELSE "up"
         /\ Count(ok)
    /\ UNCHANGED <<itfReg, env, locals, crashes, deleted, ghosts>>

UseItfSuffixMut == single

\* "single_domain && !list_exists": set_itf_domain_suffix, else
\* add_to_searchlist.
UseItfSuffix == single /\ ~listExists

\* "if (!success_adding) remove_search_domains(...)": the rollback.
OnAddFailure == "rm_suffix"

\* A single domain with no list becomes the adapter suffix; otherwise it is
\* appended to SearchList (add_to_searchlist; a failed read is a failure).
\* On failure remove_search_domains runs as rollback, returning to "up".
Apply ==
    /\ pc = "apply"
    /\ IF UseItfSuffix
       THEN \E ok \in ItfOutcomes :
              /\ SetItfDomainSuffix(ok, doms)
              /\ UNCHANGED reg
              /\ Count(ok)
              /\ pc' = IF ok THEN "up" ELSE OnAddFailure
       ELSE IF Get(key, SL) = Absent
       THEN /\ pc' = OnAddFailure
            /\ UNCHANGED <<reg, itfReg, faults, faulted>>
       ELSE \E ok \in Outcomes(key) :
              /\ SetReg(ok, key, SL, AppendDomains(Get(key, SL), doms))
              /\ UNCHANGED itfReg
              /\ Count(ok)
              /\ pc' = IF ok THEN "up" ELSE OnAddFailure
    /\ ret' = "up"
    /\ rolledBack' = (pc' = "rm_suffix")
    /\ UNCHANGED <<env, doms, key, listExists, single, newList, crashes,
                   deleted, ghosts>>

-----------------------------------------------------------------------------
(* ActionDelete::execute -> remove_search_domains                           *)

\* ActionDelete::execute, run by the tunnel teardown after an add, or by the
\* rollback of a connection that failed before its ActionCreate ran or
\* finished (spec section 2).  Its domains are those of the session; from
\* "idle" any pushed list.
Disconnect ==
    /\ pc \in {"idle", "up"}
    /\ doms' \in IF pc = "up" THEN {doms} ELSE PushedDomains
    /\ pc' = "rm_suffix"
    /\ ret' = "idle"
    /\ UNCHANGED <<reg, itfReg, env, key, listExists, single, newList,
                   crashes, faults, faulted, deleted, ghosts, rolledBack>>

\* Clear the adapter suffix (result ignored), locate the list key, stop if
\* there is no list or a read fails, else shorten the list and compare it
\* with InitialSearchList.
RmSuffix ==
    /\ pc = "rm_suffix"
    /\ \E ok \in ItfOutcomes :
         /\ SetItfDomainSuffix(ok, <<>>)
         /\ faults' = IF ok THEN faults ELSE faults + 1
    /\ LET o == OpenSearchlistKey
           shortened == RemoveDomains(ReadStr(o.key, SL), doms)
       IN /\ key' = o.key
          /\ newList' = shortened
          /\ IF ~o.exists \/ Get(o.key, SL) = Absent \/ Get(o.key, ISL) = Absent
             THEN Return
             ELSE /\ pc' = IF shortened = Get(o.key, ISL) THEN "reset_search"
                           ELSE "rm_store"
                  /\ UNCHANGED deleted
    /\ UNCHANGED <<reg, env, ret, doms, listExists, single, crashes, faulted,
                   ghosts, rolledBack>>

\* Store the shortened list (result ignored).
RmStore ==
    /\ pc = "rm_store"
    /\ \E ok \in Outcomes(key) :
         /\ SetReg(ok, key, SL, newList)
         /\ faults' = IF ok THEN faults ELSE faults + 1
    /\ Return
    /\ UNCHANGED <<itfReg, env, locals, crashes, faulted, ghosts>>

\* reset_search_domains: SearchList := OriginalSearchList, or the empty
\* string when it is not found (result ignored).
ResetSearch ==
    /\ pc = "reset_search"
    /\ \E ok \in Outcomes(key) :
         /\ SetReg(ok, key, SL, ReadStr(key, OSL))
         /\ faults' = IF ok THEN faults ELSE faults + 1
    /\ pc' = "reset_del_init"
    /\ UNCHANGED <<itfReg, env, locals, crashes, faulted, deleted, ghosts>>

\* delete_value InitialSearchList, whatever the restore write did.
ResetDelInit ==
    /\ pc = "reset_del_init"
    /\ \E ok \in Outcomes(key) :
         /\ SetReg(ok, key, ISL, Absent)
         /\ faults' = IF ok THEN faults ELSE faults + 1
    /\ pc' = "reset_del_orig"
    /\ UNCHANGED <<itfReg, env, locals, crashes, faulted, deleted, ghosts>>

\* delete_value OriginalSearchList; remove_search_domains returns.
ResetDelOrig ==
    /\ pc = "reset_del_orig"
    /\ \E ok \in Outcomes(key) :
         /\ SetReg(ok, key, OSL, Absent)
         /\ faults' = IF ok THEN faults ELSE faults + 1
    /\ Return
    /\ UNCHANGED <<itfReg, env, locals, crashes, faulted, ghosts>>

-----------------------------------------------------------------------------
(* The process dies: the registry stays, the locals are gone.  A restarted  *)
(* client starts again with ActionCreate.                                   *)
Crash ==
    /\ pc # "idle"
    /\ crashes < MaxCrashes
    /\ crashes' = crashes + 1
    /\ pc' = "idle"
    /\ deleted' = FALSE
    /\ UNCHANGED <<reg, itfReg, env, locals, faults, faulted, ghosts>>

-----------------------------------------------------------------------------
Init ==
    /\ policyKey \in BOOLEAN
    /\ reg \in {[k \in Keys |-> [n \in Names |->
                    IF n = SL THEN (IF k = "Policy" THEN p ELSE l) ELSE Absent]] :
                  p \in PolicyLists, l \in LocalLists}
    /\ primary \in PrimaryDomains
    /\ itfReg \in {r \in [Itfs -> [Domain : ItfDomains, DhcpDomain : ItfDomains,
                                  EnableDHCP : BOOLEAN]] :
                     r[Tun].Domain = <<>> /\ r[Tun].DhcpDomain = <<>>}
    /\ connected \in {c \in [Itfs -> BOOLEAN] : c[Tun]}
    /\ pc = "idle" /\ ret = "idle"
    /\ doms = <<>> /\ key = "Local" /\ listExists = FALSE /\ single = FALSE
    /\ newList = <<>>
    /\ crashes = 0 /\ faults = 0 /\ faulted = FALSE /\ deleted = FALSE
    /\ base = reg /\ itfBase = itfReg /\ rolledBack = FALSE
    /\ disturbances = 0

Next ==
    \/ Connect \/ SnapOrig \/ InitInitial \/ InitSearch \/ Apply
    \/ Disconnect \/ RmSuffix \/ RmStore
    \/ ResetSearch \/ ResetDelInit \/ ResetDelOrig
    \/ Crash

Spec == Init /\ [][Next]_vars

-----------------------------------------------------------------------------
(* Properties                                                               *)

TypeOK ==
    /\ reg \in [Keys -> [Names -> Str \cup {Absent}]]
    /\ itfReg \in [Itfs -> [Domain : Str, DhcpDomain : Str, EnableDHCP : BOOLEAN]]
    /\ pc \in Labels /\ ret \in {"idle", "up"}
    /\ doms \in Str /\ key \in Keys /\ newList \in Str
    /\ listExists \in BOOLEAN /\ single \in BOOLEAN
    /\ crashes \in 0..MaxCrashes /\ faults \in 0..MaxFaults
    /\ faulted \in BOOLEAN /\ deleted \in BOOLEAN /\ rolledBack \in BOOLEAN

Restored ==
    /\ \A k \in Keys : /\ AsList(reg[k][SL]) = AsList(base[k][SL])
                       /\ reg[k][ISL] = Absent
                       /\ reg[k][OSL] = Absent
    /\ itfReg = itfBase

\* A completed ActionDelete leaves every list key as it was before any VPN
\* session, with no InitialSearchList/OriginalSearchList, and the VPN
\* adapter's suffix cleared (remove_search_domains, reset_search_domains).
RestoredAfterDelete == (pc = "idle" /\ deleted) => Restored

\* After an ActionCreate in which no registry write failed, every pushed
\* domain is a suffix the resolver applies (set_search_domains).
UpMeansApplied ==
    (pc = "up" /\ ~faulted) => Segments(doms) \subseteq EffectiveSuffixes(reg, itfReg)

\* While the VPN is up, every suffix that applied before it still applies:
\* a newly created search list includes the primary domain and all adapter
\* domains (header comment of dns.hpp, set_initial_searchlist_from_domains).
NamesStillResolve ==
    (pc = "up" /\ ~faulted) =>
        EffectiveSuffixes(base, itfBase) \subseteq EffectiveSuffixes(reg, itfReg)

\* A non-empty list found before the VPN is always recoverable from the
\* registry: it is the SearchList or it is saved as OriginalSearchList
\* (set_initial_searchlist_from_existing, reset_search_domains).
OriginalRecoverable ==
    \A k \in Keys : AsList(base[k][SL]) # <<>> =>
        base[k][SL] \in {reg[k][SL], reg[k][OSL]}

\* A failed add_to_searchlist / set_itf_domain_suffix in set_search_domains
\* runs remove_search_domains as a compensating rollback.  Spec 4.1 step 5
\* and 8.6: once it returns, no ownership marker, baseline or adapter
\* suffix of the failed add survives; the registry is as before the add.
RollbackLeavesNoTrace == (pc = "up" /\ rolledBack) => Restored

-----------------------------------------------------------------------------
(* Refinement of the abstract specification SearchDomains: its suffixes in *)
(* effect are the ones the resolver applies given the registry.            *)

Abstract == INSTANCE SearchDomains
                WITH Pushed <- {Segments(d) : d \in PushedDomains},
                     baseline <- EffectiveSuffixes(base, itfBase),
                     eff <- EffectiveSuffixes(reg, itfReg)

\* Every step of ActionCreate / ActionDelete either leaves the applied
\* suffixes alone, or adds all pushed domains to the pre-VPN ones, or
\* returns to exactly the pre-VPN ones: no intermediate registry state of
\* add or remove is visible to the resolver.
ImplementsSearchDomains == Abstract!Spec
=============================================================================
