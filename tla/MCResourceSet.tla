--------------------------- MODULE MCResourceSet ---------------------------
(***************************************************************************)
(* ResourceSet for TLC: every pair of sets of six addresses, and every      *)
(* list of up to three ranges of four-bit addresses that begin or end at   *)
(* an edge, and every list of up to three prefixes.                       *)
(***************************************************************************)
EXTENDS ResourceSet

SmallSets == SUBSET (0..5)

Edges == {r \in IPRange : {r.min, r.max} \subseteq {0, 3, 4, 5, Top}}

ShortLists == UNION {[1..n -> Edges] : n \in 0..3}

RoaPrefixes == {r \in IPRange : CanBePrefix(r)}

PrefixLists == {s \in UNION {[1..n -> RoaPrefixes] : n \in 0..3} :
                  \A i \in 1..(Len(s) - 1) : ~Ascending(s[i + 1], s[i])}
=============================================================================
