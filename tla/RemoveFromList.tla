--------------------------- MODULE RemoveFromList ---------------------------
(***************************************************************************)
(* The list computation of remove_search_domains (RemoveDomains), checked  *)
(* over all bounded inputs against a reference that works on whole domain *)
(* entries: the list and the pushed domains are joins of domain names, and *)
(* removing the pushed domains deletes the first run of entries equal to   *)
(* them (spec 4.1 remove step 3, boundary cases in spec 8.5).              *)
(***************************************************************************)
EXTENDS SearchListStrings

CONSTANTS
    Domains,        \* domain names, non-empty strings over Letters
    MaxEntries      \* longest list of domains

ASSUME Domains \subseteq Seq(Letters) \ {<<>>}

\* Lists of whole domains, as sequences of entries.
EntryLists(n) == UNION {[1..m -> Domains] : m \in 0..n}

RECURSIVE Join(_)
\* The comma separated string of a sequence of entries.
Join(es) == IF es = <<>> THEN <<>>
            ELSE IF Len(es) = 1 THEN Head(es)
            ELSE Head(es) \o <<Comma>> \o Join(Tail(es))

\* Where the entries ds occur as consecutive entries of es.
RunStarts(es, ds) ==
    {i \in 1..(Len(es) - Len(ds) + 1) : SubSeq(es, i, i + Len(ds) - 1) = ds}

\* The reference: drop the first run of entries equal to ds.
AlignedRemove(es, ds) ==
    IF RunStarts(es, ds) = {} THEN Join(es)
    ELSE LET i == Min(RunStarts(es, ds))
         IN Join(SubSeq(es, 1, i - 1) \o SubSeq(es, i + Len(ds), Len(es)))

\* Every substring occurrence of t in s starts and ends at an entry
\* boundary, i.e. no pushed name is a proper part of another name.
OnlyAlignedMatches(s, t) ==
    \A p \in 1..(Len(s) - Len(t) + 1) :
        SubSeq(s, p, p + Len(t) - 1) = t =>
            /\ p = 1 \/ s[p - 1] = Comma
            /\ p + Len(t) - 1 = Len(s) \/ s[p + Len(t)] = Comma

VARIABLES entries, pushed
vars == <<entries, pushed>>

Init == /\ entries \in EntryLists(MaxEntries)
        /\ pushed \in EntryLists(2) \ {<<>>}

\* The inputs do not change; every pair is an initial state.
Next == UNCHANGED vars

Spec == Init /\ [][Next]_vars

\* When no pushed name is a substring of another list entry, the code's
\* character-level removal (first find, then erase with the trailing comma
\* at position 0, else the leading one; clear on a whole-list match) gives
\* exactly the list without the first run of the pushed entries, at the
\* start, the middle, the end and for the whole list alike.
RemovalMatchesReference ==
    OnlyAlignedMatches(Join(entries), Join(pushed)) =>
        RemoveDomains(Join(entries), Join(pushed)) = AlignedRemove(entries, pushed)
=============================================================================
