# TLA+ models of the Windows DNS search-domain manager

This directory holds TLA+ models of the code in
`src/openvpn/src/main/cpp/openvpn3/openvpn/`. The models check that code with TLC.
Paths below are relative to that directory.

## 1. Inventory

### Components

| Component | Source | State it keeps | Operations |
|---|---|---|---|
| SearchDomainManager (`Dns<REG,NETAPI>`) | `tun/win/dns.hpp` 71-421 | None in memory. Everything is in the registry: `SearchList`, `InitialSearchList` and `OriginalSearchList` under one of two list keys (policy `DNSClient`, local `Tcpip\Parameters`), plus the adapter suffix of the VPN adapter. | `set_search_domains` (add), `remove_search_domains` (remove), `reset_search_domains`, and the helpers `open_searchlist_key`, `initial_searchlist_exists`, `set_initial_searchlist*`, `set_itf_domain_suffix`, `add_to_searchlist` |
| Interface helpers (`NetApi`, `interface_dns_domain`, `dhcp_enabled_on_itf`) | `win/netutil.hpp` 31-150 | None. They read the adapters' `Domain`, `DhcpDomain` and `EnableDHCP` registry values and the adapter link state. | `get_itf_id`, `interface_connected`, `interface_dns_domain`, `dhcp_enabled_on_itf` |
| Resolver reload (`apply_dns_settings`) | `tun/win/dns.hpp` 429-465 | None. It sends one best-effort signal to the `Dnscache` service. | `apply_dns_settings` |
| Action adapters (`ActionCreate`, `ActionDelete`) | `tun/win/dns.hpp` 467-543 | Two immutable strings: the interface name and the domains. | `execute` = add/remove followed by reload; `to_string` |
| Client credentials (`ClientCreds`) | `client/clicreds.hpp` 40-261 | username, password, proxy credentials, session id, session-id user, challenge response, dynamic challenge, two flags | setters, `set_session_id`, `purge_*`, `save_username_for_session_id`, getters |
| Registry and OS APIs (`Win::Reg`, IP Helper, SCM) | not in `src/` | The external store | consumed only |

### How the parts interact

The tunnel set-up runs `ActionCreate::execute`. That calls `set_search_domains` and then
`apply_dns_settings`. Tunnel tear-down, and the undo of a failed connect, run
`ActionDelete::execute`. That calls `remove_search_domains` and then `apply_dns_settings`.
When the last write of `set_search_domains` fails, it calls `remove_search_domains` itself
as a compensating rollback. Neither operation returns an error to its caller.

All shared state is persisted in the registry, so it survives a crash of the client.
Ownership is held only through the registry:
- `InitialSearchList` present means the client owns the list. Its value is the baseline.
- `OriginalSearchList` holds the list as it was found before the client changed it.

The search list is a comma-separated string. Removal deletes the first *substring* match
of the pushed `domains`. The match is not aligned to domain boundaries.

### What is hard here

- **Crash and restart.** The client can die between any two registry writes, or while the
  tunnel is up. Nothing in memory survives. The next run has to work from the markers alone.
  On reconnect, `ActionCreate` runs again before any `ActionDelete`.
- **Partial failure.** Every registry write can fail. Add returns on the first failed
  baseline write with no rollback. Remove and reset ignore write failures, and reset still
  deletes the markers when its restore write failed.
- **String algebra.** Removal depends on where the first substring match falls: a
  pre-existing domain equal to or containing a pushed one, or a pushed list that
  is a substring of the baseline.
- **Precedence.** The policy key wins while its `SearchList` is non-empty. Markers are
  written under whichever key was active when add ran, and remove locates the key again.
- **Fast path.** A single domain with no list goes to the adapter suffix and not the list.
  The synthesized baseline reads adapter suffixes, including the VPN adapter's own.

### What makes each component correct

- SearchDomainManager:
  - a completed remove restores every list key to its pre-VPN value and clears all markers;
  - after a clean add, the pushed domains are in effect;
  - names that resolved before the VPN still resolve (the header comment, lines 46-51);
  - the original list can always be recovered, also across crashes and group-policy
    refreshes.
- Action adapters: add runs before reload, and remove runs before reload. Nothing is
  shared between actions.
- ClientCreds:
  - a dynamic challenge is used only once (`set_session_id` drops it and the response);
  - `get_username`/`get_password` pick their source in precedence order;
  - `password_needed_` and `need_user_interaction_` only ever go from false to true.

## 2. Plan

Modules, in order:

1. `DnsSearchList` (done) models SearchDomainManager together with the interface
   helpers and the `Create`/`Delete` lifecycle of one client process. The process is a
   pc-labelled state machine, with one action per registry write of the code and crashes
   between any two of them. Registry write failures are a bounded nondeterministic
   choice. Strings are sequences of characters over a tiny alphabet, because removal works
   on substrings.
   `MCDnsSearchList` instantiates it, and one cfg per question checks it.
2. (done) `DnsSearchListEnv` adds the external actors: group-policy refresh of the policy
   `SearchList`, an administrator editing the local list, and adapters going up and down.
   It also adds read errors other than "not found" (`remove_search_domains` lines
   374-377 and 403-407, `reset_search_domains` line 342).
3. (done) `SearchDomains` is the abstract specification: the effective set of suffixes is the
   pre-VPN set, plus the pushed domains while a session is up.
   `DnsSearchList` is checked to implement it through a refinement mapping (`INSTANCE ...
   WITH`) under the no-fault, no-collision configuration.
4. (done) `RemoveFromList` checks the pure substring-removal algorithm (`remove_search_domains`
   lines 381-401) against a domain-aligned reference over all bounded lists.
5. (done) `ClientCreds` models the credential holder (`client/clicreds.hpp`): one action per
   setter or purge, and invariants on the challenge/session-id precedence.
6. No liveness property: add and remove are straight-line code with no loop, wait or
   retry, so "every started call returns" holds for any such code and says nothing.
7. (done) Group policy refreshing the list in the middle of an add (`gpolost`).

## 3. The model `DnsSearchList`

### State

- `reg[k][n]` is the registry value `n` (SearchList, InitialSearchList or
  OriginalSearchList) under list key `k` ("Policy" or "Local"). It is a character sequence,
  or `Absent` when the value does not exist.
- `policyKey`: whether the policy key exists.
- `itfReg[i]` holds adapter `i`'s `Domain`, `DhcpDomain` and `EnableDHCP`.
- `connected[i]` is the adapter link state.
- `primary` is the primary domain (the `Domain` value of `Tcpip\Parameters`).
- `pc` is the process's place in `ActionCreate`/`ActionDelete`.
- The locals of the two operations: `doms`, `key`, `listExists`, `single`, `newList`, and
  `ret`, where remove returns to.
- Counters: `crashes` and `faults`. `faulted` says whether a write failed during the
  current add.
- Ghosts:
  - `base` and `itfBase`: the registry before any VPN session;
  - `deleted`: the last operation was a completed `ActionDelete`;
  - `rolledBack`: the current add ran its compensating remove.
- `disturbances` counts the environment steps of `DnsSearchListEnv`. It stays 0 under
  `Spec`.

### Actions and their code

| Action | Code |
|---|---|
| `Connect` | `ActionCreate::execute` (lines 467-487): `SetSearchDomains(d)` for one of the pushed domain lists |
| `SetSearchDomains(d)` | `set_search_domains` lines 295-319 (locate the key, ownership, single/multi, branch; synthesizing the baseline, lines 183-221) |
| `SnapOrig` | `set_initial_searchlist_from_existing` 159-172 |
| `InitInitial` | `set_initial_searchlist` 140-144 |
| `InitSearch` | `set_initial_searchlist` 145-150 |
| `Apply` | lines 321-328, `set_itf_domain_suffix` 233-250, `add_to_searchlist` 260-275, and the rollback call. The read and the write of `add_to_searchlist` are one step. |
| `Disconnect` | `ActionDelete::execute`: from `up` (teardown), or from `idle` with any pushed list (the rollback of a connection that failed before its `ActionCreate` ran or finished, spec section 2) |
| `RmSuffix` | `remove_search_domains` 364-410: clears the suffix, locates the key, computes the shortened list, compares it with the baseline |
| `RmStore` | line 418 |
| `ResetSearch` | `reset_search_domains` 341-346 |
| `ResetDelInit` | line 348 |
| `ResetDelOrig` | line 349 |
| `Crash` | the process dies at any point. The registry survives and the locals are lost. |

`apply_dns_settings` changes no state the model holds, so its call is part of the step
that ends each action.

### Modules

| Module | What it is |
|---|---|
| `SearchListStrings` | The string algebra: `AppendDomains` (`add_to_searchlist`), `RemoveDomains` (the list computation of `remove_search_domains`), and `Segments`, which splits a list into its domains. |
| `DnsSearchList` | The client process, the registry, and the properties (section 3). |
| `SearchDomains` | The abstract specification: the set of suffixes in effect. |
| `DnsSearchListEnv` | Extends `DnsSearchList` with the actors outside the client (section 5). |
| `RemoveFromList` | `RemoveDomains` against a reference that removes whole entries (section 6). |
| `ClientCreds` | The credential holder (section 4). |
| `MC*` | Constants for TLC. |

### Runs

| Run | Cfg | Expect | Question |
|---|---|---|---|
| `core` | `MCcore.cfg` | pass | No crash, no write fault, pushed domains disjoint from existing ones. Does every clean add take effect and keep the names that resolved before? Does every delete restore the registry exactly? Does the model implement `SearchDomains`? |
| `crash` | `MCcrash.cfg` | pass | With up to two crashes between any two registry writes, each followed by a restarted add or a delete, is a non-empty pre-VPN list always either the `SearchList` or saved as `OriginalSearchList`? |
| `substring` | `MCsubstring.cfg` | violation | A pre-existing domain contains a pushed one: does delete still restore? |
| `readd` | `MCreadd.cfg` | violation | After a crashed session, is the registry restored by the next delete, as the spec's crash-safety claim says? TLC's shortest case is a crash after `OriginalSearchList` was stored and before `InitialSearchList` was written. The delete then finds no `InitialSearchList` and leaves the orphan. A crash while up followed by a reconnect and a delete duplicates the VPN domain. |
| `resetfault` | `MCresetfault.cfg` | violation | The restore in reset does not happen because of one failed write, or one failed read of `OriginalSearchList` (`MCDnsSearchListEnv`). Is the original list still recoverable? |
| `halfinit` | `MChalfinit.cfg` | violation | One crash or one failed write between the two writes of `set_initial_searchlist`: do the names that resolved before the VPN still resolve after the next successful add? They do not. The local `SearchList` is the empty string by default, and the restarted add trusts `InitialSearchList`, so it appends to the empty list and the synthesized baseline is lost. |
| `rollback` | `MCrollback.cfg` | violation | One failed write in the last step of add: does the compensating remove leave the registry as before the add (spec 8.6)? It does not when the synthesized baseline is empty. Remove then sees "no list" and leaves `InitialSearchList = ""`. |
| `gpolost` | `MCgpolost.cfg` | violation | Group policy holds `a` and refreshes it once to `c`. Does the refresh survive an add that runs at the same time? It does not when it falls between the snapshot read (line 161) and the `SearchList` write (line 145): the client writes `a` back, and the later remove restores `a` as the original. |
| `policy` | `MCpolicy.cfg` | violation | Group policy sets a list while the VPN is up. Remove then works on the policy key and strands the local markers. Does the client ever manage both locations at once (spec 3)? It does after the next add. |
| `cleanup` | `MCcleanup.cfg` | violation | EnableDHCP of the VPN adapter changes while up, or a read in remove fails. Does a completed delete leave no domain, marker or suffix behind? TLC's shortest counterexample is the DHCP case. Add wrote `Domain`, and remove clears `DhcpDomain`. |
| `removal` | `MCremoval.cfg` | pass | Over all lists of up to three domains from `a`, `b`, `ab` and pushed runs of one or two domains (480 inputs, 387 without a substring collision): does the code's removal equal the whole-entry reference whenever no pushed name is part of another entry? |
| `creds` | `MCcreds.cfg` | pass | For every order of `ClientCreds` calls, does `auth_info` describe what `get_password` returns? Is a challenge password never sent again once a session id is installed? |

### Refinement

`SearchDomains` is the promise of the component, stated over the set of effective DNS
suffixes. That set is the segments of the active list plus the suffixes of the connected
adapters. There are two steps:
- add makes the set the baseline together with the pushed domains;
- remove returns it to the baseline.

`DnsSearchList` maps onto it as follows:
- `eff` is the effective set of the current registry;
- `baseline` is the effective set of the ghost pre-VPN registry;
- `Pushed` is the set of segment sets of the pushed domain strings.

Each internal write of the process is a stuttering step of the abstract spec, or the one
step that completes an add or a remove.

### Bounds

- The letters are `a`, `b` and `c`. Existing lists, the primary domain and adapter suffixes
  use `a`. Pushed domains use `b` and `c`, as `b` and as `b,c`.
  - A single domain and a multi-domain push take the two different code paths.
  - `a` against `b,c` gives lists of two and three domains.
  - A run that needs a collision adds `ab`.
- There is one other adapter (two in `core`). Each one's `Domain`, `DhcpDomain`,
  `EnableDHCP` and link state are all free, so the synthesized baseline is empty or holds
  up to three domains. In `core` (628,000 states) two adapters can carry the same suffix,
  and the enumeration order of the interface keys decides the list's order.
- Every initial `SearchList` is Absent, empty or non-empty, under either key.
- The policy key may or may not exist.
- `MaxCrashes` is 2: one crash while up, and one more during the re-add or remove.
- `MaxFaults` is 1: each partial-failure finding takes a single failed write.
- The environment runs allow one disturbance per behaviour (`MaxDisturbances = 1`).
  Each finding there takes one external step between two client operations.
  - `gpolost` needs two different non-empty policy lists (`a`, `c`), so that a refresh
    replaces a list and does not only add or remove one.
  - `crash` has the full core instance with one other adapter and two crashes
    (1.2 million states). It has no environment actor. With one non-empty policy
    value a refresh could only add or remove the policy list; with two it fails
    (`gpolost`).

### Fairness

No run assumes fairness, and no property is a liveness property. Add and remove are
straight-line code: every step is enabled at its label, and the labels form no cycle.
Weak fairness would make "every started call returns" hold for any such code, so checking it
would show nothing. Starting an add or a remove is the tunnel lifecycle's decision. Crashes
and the environment actors are not fair either.

## 4. The model `ClientCreds`

`ClientCreds.tla` has:
- one variable per member of `client/clicreds.hpp`;
- one action per mutating method;
- `GetUsername`, `GetPassword` and `AuthInfo` as operators, translated from their `if`
  chains.

Strings are abstracted:
- each string is a model value or `Empty`;
- a `ChallengeResponse` is a record that holds only the username it carries, because
  `auth/cr.hpp` is not under `src/`;
- a constructed dynamic or static password is a tagged tuple, so it differs from every
  plain password and token.

`MCcreds.cfg` has:
- two users and two tokens, under symmetry;
- one password, one response and one cookie.

Every method can be called in any order and with any argument, which is at least the set of
call orders the protocol layer can produce. The full state graph has 1980 distinct states.

Not covered by a property: when `set_session_id` gets an empty user and
`save_username_for_session_id` is not called, `get_username` follows later `set_username`
calls. Whether that can send a token under the wrong user depends on the protocol layer,
which is not in `src/`. It is listed as a hazard.

## 5. The environment: `DnsSearchListEnv`

The registry is shared with actors the client does not control (spec section 5). Each one
is an action. `EnvActors` chooses which ones a run enables, and `MaxDisturbances` bounds
how many of their steps a behaviour takes:
- `LinkChange`: the other adapter's link goes up or down.
- `GpoRefresh`: a group policy refresh writes the policy `SearchList`, or removes it
  (`Absent`). The ghost baseline follows it, because it is not VPN state.
- `DhcpToggle`: the VPN adapter's `EnableDHCP` changes.
- `RmReadError`: in `remove_search_domains`, the read of `SearchList` or of
  `InitialSearchList` fails with an error other than "not found". The code returns right
  after clearing the adapter suffix (lines 369-378 and 403-407).
- `ResetReadError`: in `reset_search_domains`, reading `OriginalSearchList` fails with an
  error other than not-found. The restore write is skipped, but the markers are still
  deleted (lines 341-349).

The read errors are modelled here as their own actions, not inside the client's actions.
The reason is that they come from the registry, not from the code's control flow.

`GpoRefresh` with two different policy lists finds the lost update of `gpolost`.
`set_initial_searchlist_from_existing` reads `SearchList` once, and
`set_initial_searchlist` writes that copy back two steps later. A refresh in between is
overwritten. `Apply` makes the read and the write of `add_to_searchlist` one step, so the
same race there is not explored. The race at the snapshot is the wider one, and it already
fails the property.

## 6. The removal algorithm: `RemoveFromList`

The inputs are lists of whole domains:
- `Join` (RECURSIVE) turns a sequence of entries into a comma-separated string;
- `AlignedRemove` drops the first run of entries equal to the pushed ones;
- `RemovalMatchesReference` requires `RemoveDomains` to equal the reference whenever every
  substring match is aligned to entry boundaries.

This covers the boundary cases of spec 8.5 over every input in the bound: start, middle,
end, whole list, repeated entries, and multi-domain pushes. The inputs left out, where a
pushed name is part of another entry, are the `substring` finding.

## 7. Not modelled

- The text of the log lines (`to_string`): it is formatting only.
- The `Dnscache` signal: it has no state in this system.
- The contents of the Win32 calls: `get_itf_id` failing is folded into the write-failure
  choice of the adapter write.
- Concurrent VPN clients: the spec calls them out of scope.
- `apply_dns_settings` (ResolverReloadNotifier): a best-effort `SERVICE_CONTROL_PARAMCHANGE`
  to `Dnscache`. Its result is ignored, and it changes no registry state. The resolver's
  own cache is Windows state, outside this code.
- More than one disturbance per behaviour, and crashes together with the environment.
  The state space is then too large for a run of a few minutes.
- A read error of `initial_searchlist_exists` (line 124 reports any error as "not
  owned"). Only the not-found case is modelled.
- The split between the read and the write of `add_to_searchlist` (see section 5).
- The read-only getters of `ClientCreds` (`*_defined`, the proxy getters). They change no state.
