---------------------------- MODULE ResourceSet ----------------------------
(***************************************************************************)
(* src/rpki/resource_set.py: the lists of address ranges on which rpkid    *)
(* decides what to issue, to shrink and to revoke.  Each behavior runs one *)
(* method on one input, one iteration of its loop per step.                *)
(*                                                                         *)
(* Addresses are numbers of Width bits: rpki.POW.IPAddress raises an       *)
(* OverflowError when the result of an addition does not fit.  (An AS      *)
(* number is a Python long, and never does.)  Inheritance is left out, and *)
(* so are texts.                                                           *)
(***************************************************************************)
EXTENDS Integers, Sequences, FiniteSets, SequencesExt

CONSTANTS
    Width,     \* the number of bits in an address
    Precision, \* up to 2^Precision, math.log() is exact enough
    Sets,      \* the sets of addresses to try in place of self and other
    Raw,       \* the unsorted lists of ranges to try
    RoaSets    \* the lists of prefixes to try as ROA prefix sets

Top == 2^Width - 1
Address == 0..Top
IPRange == {r \in [min : Address, max : Address] : r.min <= r.max}

ASSUME ResourceAssumption ==
    /\ Width \in Nat \ {0} /\ Precision \in Nat \ {0}
    /\ Sets \subseteq SUBSET Address
    /\ Raw \subseteq Seq(IPRange) /\ RoaSets \subseteq Seq(IPRange)

VARIABLES
    method,       \* the method that runs
    x, y,         \* self and other
    item,         \* the range that is looked up or chopped
    overlap,      \* allow_overlap
    set1, set2,   \* the local copies of self and other
    only1, only2, both, \* the results of _comm; union and chop put theirs in both
    lo, hi,       \* the bounds of the binary search; chop's range_min is lo;
                  \* in xor and roas, hi is the number of calls that are done
    status        \* how it ended: "ok", an answer, or an exception

args == <<method, x, y, item, overlap>>
locals == <<set1, set2, only1, only2, both, lo, hi>>
vars == <<args, locals, status>>

Cover(s) == UNION {s[i].min .. s[i].max : i \in DOMAIN s}

\* Sorted, and every two ranges apart: what canonize() promises.
IsCanonical(s) ==
    /\ \A i \in DOMAIN s : s[i].min <= s[i].max
    /\ \A i, j \in DOMAIN s : i < j => s[i].max + 1 < s[j].min

Ascending(a, b) == a.min < b.min \/ (a.min = b.min /\ a.max < b.max)

\* The canonical list of a set of addresses: its maximal ranges.
CanonicalOf(S) ==
    LET reach(a) == CHOOSE b \in S : a .. b \subseteq S /\ b >= a /\ b + 1 \notin S
    IN  SetToSortSeq({[min |-> a, max |-> reach(a)] : a \in {n \in S : n - 1 \notin S}},
                     Ascending)

TypeOK ==
    /\ method \in {"comm", "xor", "union", "roas", "contains", "issubset",
                   "chop", "canonize"}
    /\ \A s \in {x, y, set1, set2, only1, only2, both} : s \in Seq(IPRange)
    /\ item \in IPRange /\ overlap \in BOOLEAN
    /\ lo \in 0..(Top + 1) /\ hi \in 0..(Top + 1)
    /\ status \in {"running", "ok", "yes", "no",
                   "ResourceOverlap", "OverflowError", "AssertionError"}

FirstAddress == [min |-> 0, max |-> 0]

Init ==
    /\ \/ /\ method \in {"comm", "union", "xor"}
          /\ \E S, T \in Sets : x = CanonicalOf(S) /\ y = CanonicalOf(T)
          /\ item = FirstAddress /\ overlap = FALSE /\ lo = 0 /\ hi = 0
       \/ /\ method = "contains"
          /\ \E S \in Sets : x = CanonicalOf(S)
          /\ item \in IPRange /\ y = << >> /\ overlap = FALSE
          /\ lo = 0 /\ hi = Len(x)
       \/ /\ method = "chop"
          /\ item \in IPRange /\ x = << >> /\ y = << >> /\ overlap = FALSE
          /\ lo = item.min /\ hi = 0
       \/ /\ method = "canonize"
          /\ x \in Raw /\ overlap \in BOOLEAN
          /\ y = << >> /\ item = FirstAddress /\ lo = 0 /\ hi = 0
       \/ /\ method = "roas"
          /\ \E s \in RoaSets : x = SortSeq(s, Ascending)
          /\ y = << >> /\ item = FirstAddress /\ overlap = FALSE /\ lo = 0 /\ hi = 0
       \/ /\ method = "issubset"
          /\ \E S, T \in Sets : x = CanonicalOf(S) /\ y = CanonicalOf(T)
          /\ item = (IF x = << >> THEN FirstAddress ELSE Head(x))
          /\ overlap = FALSE /\ lo = 0 /\ hi = Len(y)
    /\ set1 = (CASE method = "roas" -> << >>
                 [] method = "issubset" /\ x # << >> -> Tail(x)
                 [] OTHER -> x)
    /\ set2 = y
    /\ only1 = << >> /\ only2 = << >> /\ both = << >>
    /\ status = IF method = "issubset" /\ x = << >> THEN "yes" ELSE "running"

Runs(m) == method = m /\ status = "running"

\* symmetric_difference calls _comm and then, once, union; to_resource_set
\* calls union for each prefix, and issubset calls contains for each range.
InComm     == Runs("comm") \/ (Runs("xor") /\ hi = 0)
InUnion    == Runs("union") \/ Runs("roas") \/ (Runs("xor") /\ hi = 1)
InContains == Runs("contains") \/ Runs("issubset")
Finish(s) == status' = s /\ UNCHANGED args

-----------------------------------------------------------------------------
(***************************************************************************)
(* canonize.                                                               *)
(***************************************************************************)
Joins(a, r, allow) == a.max + 1 = r.min \/ (allow /\ a.max + 1 >= r.min)
Larger(m, n) == IF m > n THEN m ELSE n
Hull(a, r) == [min |-> a.min, max |-> Larger(a.max, r.max)]

\* One iteration: the last range so far absorbs the next one, or stays.
Absorb(acc, r, allow) ==
    IF acc.set = << >> THEN [acc EXCEPT !.set = <<r>>]
    ELSE IF Last(acc.set).max = Top THEN [acc EXCEPT !.overflow = TRUE]
    ELSE IF Joins(Last(acc.set), r, allow)
         THEN [acc EXCEPT !.set = Append(Front(acc.set), Hull(Last(acc.set), r))]
         ELSE [acc EXCEPT !.set = Append(acc.set, r)]

\* Returns the list, and how it ended.
Canonize(s, allow) ==
    LET merged == FoldLeft(LAMBDA acc, r : Absorb(acc, r, allow),
                           [set |-> << >>, overflow |-> FALSE], SortSeq(s, Ascending))
        clash == \E i \in 1..(Len(merged.set) - 1) : merged.set[i].max >= merged.set[i+1].min
    IN  [set |-> merged.set,
         status |-> IF merged.overflow THEN "OverflowError"
                    ELSE IF clash THEN "ResourceOverlap" ELSE "ok"]

RunCanonize ==
    /\ Runs("canonize")
    /\ LET c == Canonize(x, overlap) IN set1' = c.set /\ Finish(c.status)
    /\ UNCHANGED <<set2, only1, only2, both, lo, hi>>

-----------------------------------------------------------------------------
(***************************************************************************)
(* _comm, on which intersection, difference and symmetric_difference rest. *)
(***************************************************************************)
\* The first range of s lies before all that is left of t.
Leads(s, t) == s # << >> /\ (t # << >> => Head(s).max < Head(t).min)

\* _rsplit: the first range of s falls apart where that begins or ends.
Rsplit(s, that) ==
    LET this == Head(s)
    IN  IF this.min < that.min
        THEN <<[this EXCEPT !.max = that.min - 1], [this EXCEPT !.min = that.min]>> \o Tail(s)
        ELSE <<[this EXCEPT !.max = that.max], [this EXCEPT !.min = that.max + 1]>> \o Tail(s)

\* The first ranges of set1 and set2 meet.
Meet ==
    /\ InComm /\ set1 # << >> /\ set2 # << >>
    /\ ~Leads(set1, set2) /\ ~Leads(set2, set1)

\* a begins before b, or it begins with b and ends after it.
Sticks(a, b) == a.min < b.min \/ (a.min = b.min /\ b.max < a.max)

Only1 ==
    /\ InComm /\ Leads(set1, set2)
    /\ only1' = Append(only1, Head(set1)) /\ set1' = Tail(set1)
    /\ UNCHANGED <<args, set2, only2, both, lo, hi, status>>

Only2 ==
    /\ InComm /\ ~Leads(set1, set2) /\ Leads(set2, set1)
    /\ only2' = Append(only2, Head(set2)) /\ set2' = Tail(set2)
    /\ UNCHANGED <<args, set1, only1, both, lo, hi, status>>

Split1 ==
    /\ Meet /\ Sticks(Head(set1), Head(set2))
    /\ set1' = Rsplit(set1, Head(set2))
    /\ UNCHANGED <<args, set2, only1, only2, both, lo, hi, status>>

Split2 ==
    /\ Meet /\ Sticks(Head(set2), Head(set1))
    /\ set2' = Rsplit(set2, Head(set1))
    /\ UNCHANGED <<args, set1, only1, only2, both, lo, hi, status>>

Both ==
    /\ Meet /\ Head(set1) = Head(set2)
    /\ both' = Append(both, Head(set1))
    /\ set1' = Tail(set1) /\ set2' = Tail(set2)
    /\ UNCHANGED <<args, only1, only2, lo, hi, status>>

\* The three results become resource sets of their own.
CommDone ==
    LET results == [i \in 1..3 |-> Canonize(<<only1, only2, both>>[i], FALSE)]
        failed == {i \in 1..3 : results[i].status # "ok"}
    IN  /\ InComm /\ set1 = << >> /\ set2 = << >>
        /\ only1' = results[1].set /\ only2' = results[2].set
        /\ IF failed = {} /\ method = "xor"
           THEN /\ set1' = only1' /\ set2' = only2' /\ both' = << >> /\ hi' = 1
                /\ UNCHANGED <<args, status>>
           ELSE /\ both' = results[3].set
                /\ Finish(IF failed = {} THEN "ok"
                          ELSE results[CHOOSE i \in failed : TRUE].status)
                /\ UNCHANGED <<set1, set2, hi>>
        /\ UNCHANGED lo

-----------------------------------------------------------------------------
(***************************************************************************)
(* union.                                                                  *)
(***************************************************************************)
Take1 ==
    /\ InUnion /\ Leads(set1, set2)
    /\ both' = Append(both, Head(set1)) /\ set1' = Tail(set1)
    /\ UNCHANGED <<args, set2, only1, only2, lo, hi, status>>

Take2 ==
    /\ InUnion /\ ~Leads(set1, set2) /\ Leads(set2, set1)
    /\ both' = Append(both, Head(set2)) /\ set2' = Tail(set2)
    /\ UNCHANGED <<args, set1, only1, only2, lo, hi, status>>

\* Mutant: a range that only begins within the merged one is dropped, too.
Beyond_Min(s, a) == SelectSeq(s, LAMBDA r : r.min > a)

Beyond(s, a) == SelectSeq(s, LAMBDA r : r.max > a)

\* Two ranges that meet become one, and what lies within it is dropped.
Merge ==
    /\ InUnion /\ set1 # << >> /\ set2 # << >>
    /\ ~Leads(set1, set2) /\ ~Leads(set2, set1)
    /\ LET range_min == IF Head(set1).min < Head(set2).min
                        THEN Head(set1).min ELSE Head(set2).min
           range_max == Larger(Head(set1).max, Head(set2).max)
       IN  /\ both' = Append(both, [min |-> range_min, max |-> range_max])
           /\ set1' = Beyond(Tail(set1), range_max)
           /\ set2' = Beyond(Tail(set2), range_max)
    /\ UNCHANGED <<args, only1, only2, lo, hi, status>>

UnionDone ==
    /\ InUnion /\ set1 = << >> /\ set2 = << >>
    /\ LET c == Canonize(both, FALSE)
       IN IF method = "roas" /\ c.status = "ok" /\ hi < Len(x)
          THEN /\ set1' = c.set /\ set2' = <<x[hi + 1]>> /\ both' = << >>
               /\ hi' = hi + 1
               /\ UNCHANGED <<args, status>>
          ELSE /\ both' = c.set /\ Finish(c.status)
               /\ UNCHANGED <<set1, set2, hi>>
    /\ UNCHANGED <<only1, only2, lo>>

-----------------------------------------------------------------------------
(***************************************************************************)
(* contains, on which issubset, and so oversized and undersized rest.      *)
(***************************************************************************)
Haystack == IF method = "issubset" THEN y ELSE x

\* Haystack[mid + 1] is Python's self[mid].
Search ==
    LET mid == (lo + hi) \div 2
    IN  /\ InContains /\ lo < hi
        /\ IF Haystack[mid + 1].max < item.max THEN lo' = mid + 1 /\ hi' = hi
                                        ELSE hi' = mid /\ lo' = lo
        /\ UNCHANGED <<args, set1, set2, only1, only2, both, status>>

Contained ==
    /\ lo < Len(Haystack)
    /\ Haystack[lo + 1].min <= item.min /\ Haystack[lo + 1].max >= item.max

Found ==
    /\ InContains /\ ~(lo < hi)
    /\ method = "contains" \/ ~Contained \/ set1 = << >>
    /\ Finish(IF Contained THEN "yes" ELSE "no")
    /\ UNCHANGED locals

\* issubset goes on with its next range.
NextRange ==
    /\ Runs("issubset") /\ ~(lo < hi) /\ Contained /\ set1 # << >>
    /\ item' = Head(set1) /\ set1' = Tail(set1)
    /\ lo' = 0 /\ hi' = Len(y)
    /\ UNCHANGED <<method, x, y, overlap, set2, only1, only2, both, status>>

-----------------------------------------------------------------------------
(***************************************************************************)
(* chop_into_prefixes, on which to_roa_prefix_set rests.                   *)
(***************************************************************************)
\* prefixlen() succeeds: the bits in which min and max differ are the lowest
\* ones, and min has none of them.
CanBePrefix(r) == \E k \in 0..Width : r.min % 2^k = 0 /\ r.max = r.min + 2^k - 1

\* int(math.log(n, 2)): for large n just below a power of two, the floating-
\* point logarithm is rounded up to it.
Log2(n) == Max({k \in 0..Width : 2^k <= n + n \div 2^Precision})

\* Mutant: the block need not be aligned.
Bits_Unaligned == Log2(item.max - lo + 1)

\* The largest aligned block that begins at lo.
Bits == Max({k \in 0..Log2(item.max - lo + 1) : lo % 2^k = 0})

ChopPrefix ==
    /\ Runs("chop") /\ lo = item.min /\ CanBePrefix(item)
    /\ both' = <<item>>
    /\ Finish("ok")
    /\ UNCHANGED <<set1, set2, only1, only2, lo, hi>>

\* Every address that is computed must fit, the last range_min included.
Chop ==
    LET upper == lo + 2^Log2(item.max - lo + 1) - 1
        next == lo + 2^Bits
    IN  /\ Runs("chop") /\ ~CanBePrefix(item) /\ lo <= item.max
        /\ IF upper > Top THEN Finish("OverflowError") /\ UNCHANGED <<both, lo>>
           ELSE IF upper > item.max THEN Finish("AssertionError") /\ UNCHANGED <<both, lo>>
           ELSE /\ both' = Append(both, [min |-> lo, max |-> next - 1])
                /\ IF next > Top THEN Finish("OverflowError") /\ UNCHANGED lo
                   ELSE lo' = next /\ UNCHANGED <<args, status>>
        /\ UNCHANGED <<set1, set2, only1, only2, hi>>

ChopDone ==
    /\ Runs("chop") /\ ~CanBePrefix(item) /\ lo > item.max
    /\ Finish("ok")
    /\ UNCHANGED locals

-----------------------------------------------------------------------------
Next ==
    \/ RunCanonize
    \/ Only1 \/ Only2 \/ Split1 \/ Split2 \/ Both \/ CommDone
    \/ Take1 \/ Take2 \/ Merge \/ UnionDone
    \/ Search \/ Found \/ NextRange
    \/ ChopPrefix \/ Chop \/ ChopDone

Spec == Init /\ [][Next]_vars

-----------------------------------------------------------------------------
Ended(m) == method = m /\ status # "running"

Overlapping(s) ==
    \E i, j \in DOMAIN s : i # j /\ s[i].min <= s[j].max /\ s[j].min <= s[i].max

\* canonize() leaves the same addresses in canonical form, and raises
\* ResourceOverlap only for lists that overlap and may not.  What overlaps a
\* range that ends in the last address is an OverflowError.
CanonizeRight ==
    Ended("canonize") =>
        CASE status = "ok" ->
                /\ IsCanonical(set1) /\ Cover(set1) = Cover(x)
                /\ overlap \/ ~Overlapping(x)
          [] status = "ResourceOverlap" -> Overlapping(x) /\ ~overlap
          [] OTHER -> Overlapping(x) /\ Top \in Cover(x)

\* _comm() tells what is only in self, only in other and in both.
CommRight ==
    Ended("comm") =>
        /\ status = "ok"
        /\ only1 = CanonicalOf(Cover(x) \ Cover(y))
        /\ only2 = CanonicalOf(Cover(y) \ Cover(x))
        /\ both = CanonicalOf(Cover(x) \cap Cover(y))

\* Some range of t reaches from one range of s to the next.
Bridges(s, t) ==
    \E i \in 1..(Len(s) - 1), j \in DOMAIN t :
        t[j].min <= s[i].max /\ s[i+1].min <= t[j].max

\* union() is right when it returns, and it raises ResourceOverlap only when a
\* range of one set bridges two of the other.
UnionRight ==
    Ended("union") =>
        IF status = "ok" THEN both = CanonicalOf(Cover(x) \cup Cover(y))
        ELSE status = "ResourceOverlap" /\ (Bridges(x, y) \/ Bridges(y, x))

\* contains() finds a range exactly if all of it is in the set.
ContainsRight ==
    Ended("contains") => (status = "yes") = (item.min .. item.max \subseteq Cover(x))

\* symmetric_difference() is what one of them has and the other has not.
XorRight ==
    Ended("xor") =>
        /\ status = "ok"
        /\ both = CanonicalOf((Cover(x) \ Cover(y)) \cup (Cover(y) \ Cover(x)))

\* issubset() compares sets of addresses.
SubsetRight ==
    Ended("issubset") => (status = "yes") = (Cover(x) \subseteq Cover(y))

\* to_resource_set() never fails: of sorted prefixes, none bridges two ranges.
RoasRight ==
    Ended("roas") => status = "ok" /\ both = CanonicalOf(Cover(x))

\* The operations from which rpkid decides what to issue and to revoke do what
\* set theory says, for every input, with every exception accounted for.
SetOpsAreRight ==
    /\ CanonizeRight /\ CommRight /\ UnionRight /\ ContainsRight
    /\ XorRight /\ SubsetRight /\ RoasRight

\* chop_into_prefixes() yields prefixes in a row, as few as possible, that make
\* up the range.  It raises an exception only for ranges that end in the last
\* address or are too large for math.log().
ChopIsRight ==
    TypeOK /\ (Ended("chop") =>
        /\ \A i \in DOMAIN both : CanBePrefix(both[i])
        /\ \A i \in 1..(Len(both) - 1) :
                /\ both[i].max + 1 = both[i+1].min
                /\ ~CanBePrefix([min |-> both[i].min, max |-> both[i+1].max])
        /\ IF status = "ok" THEN Cover(both) = item.min .. item.max
           ELSE item.max = Top \/ item.max - item.min + 1 > 2^Precision)
=============================================================================
