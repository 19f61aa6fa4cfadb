-------------------------- MODULE SearchListStrings --------------------------
(***************************************************************************)
(* The string algebra of the DNS search list in tun/win/dns.hpp: a list is *)
(* a sequence of characters in which Comma separates domains.  Appending   *)
(* (add_to_searchlist) and removing (remove_search_domains) work on these  *)
(* sequences exactly as the code works on std::wstring.                    *)
(***************************************************************************)
EXTENDS Integers, Sequences, SequencesExt, FiniteSetsExt

CONSTANTS
    Letters,        \* the characters domain names are made of
    Comma           \* the separator of a search list

ASSUME Comma \notin Letters

Char == Letters \cup {Comma}
Str == Seq(Char)

AppendDomainsMut(list, d) == list \o d

\* Append `d' to a list, preceded by a comma when the list is non-empty.
AppendDomains(list, d) == IF list = <<>> THEN d ELSE list \o <<Comma>> \o d

RemoveDomainsMut(list, d) ==
    IF d \notin SubSeqs(list) THEN list
    ELSE LET p == IndexFirstSubSeq(d, list) IN
         IF Len(list) = Len(d) THEN <<>>
         ELSE IF p = 1 THEN SubSeq(list, Len(d) + 1, Len(list))
         ELSE SubSeq(list, 1, p - 1) \o SubSeq(list, p + Len(d), Len(list))

\* The list computation of remove_search_domains: the first substring match
\* of `d' goes, with its trailing comma at the start, else its leading one.
RemoveDomains(list, d) ==
    IF d \notin SubSeqs(list) THEN list
    ELSE LET p == IndexFirstSubSeq(d, list) IN
         IF Len(list) = Len(d) THEN <<>>
         ELSE IF p = 1 THEN SubSeq(list, Len(d) + 2, Len(list))
         ELSE SubSeq(list, 1, p - 2) \o SubSeq(list, p + Len(d), Len(list))

\* The domains of a comma separated list (empty entries ignored).
Cuts(s) == {0, Len(s) + 1} \cup {i \in 1..Len(s) : s[i] = Comma}
Segments(s) ==
    {SubSeq(s, c + 1, Min({e \in Cuts(s) : e > c}) - 1) : c \in Cuts(s) \ {Len(s) + 1}}
        \ {<<>>}

=============================================================================
