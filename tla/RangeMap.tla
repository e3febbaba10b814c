------------------------------ MODULE RangeMap ------------------------------
(***************************************************************************)
(* range_map.rs: a map from offsets to values that keeps one item for a    *)
(* range of offsets with the same value. A map here is a function from the *)
(* start of every item to its end (excluded) and its value.                *)
(*                                                                         *)
(* The mutation function of mutate_range is the one of the two callers in  *)
(* committee.rs: it is given as an operation and applied by Mutated.       *)
(***************************************************************************)
EXTENDS Naturals, FiniteSetsExt, Functions

CONSTANTS
    None,               \* Option::None
    Mutated(_, _)       \* what an operation makes of a value

RangeItem(end, v) == [end |-> end, v |-> v]

NoRanges == [k \in {} |-> RangeItem(0, None)]

\* The item that contains k, but does not start with it, is split at k.
SplitAt(m, k) ==
    LET cut == {s \in DOMAIN m : s < k /\ k < m[s].end}
    IN  [s \in DOMAIN m \cup (IF cut = {} THEN {} ELSE {k}) |->
            IF s \in cut THEN RangeItem(k, m[s].v)
            ELSE IF cut # {} /\ s = k THEN LET c == CHOOSE c \in cut : TRUE IN m[c]
            ELSE m[s]]

\* The end of the first sub-range of lo .. hi: of the item that starts at lo, or
\* of the gap before the next item.
SubrangeEnd(m, lo, hi) ==
    IF lo \in DOMAIN m THEN m[lo].end ELSE Min({hi} \cup {s \in DOMAIN m : lo < s /\ s < hi})

\* One round of the loop: m has been split so that a sub-range starts at lo.
MutateFirst(m, lo, end, op) ==
    LET v == Mutated(op, IF lo \in DOMAIN m THEN m[lo].v ELSE None)
    IN  IF v = None THEN Restrict(m, DOMAIN m \ {lo})
        ELSE [s \in DOMAIN m \cup {lo} |-> IF s = lo THEN RangeItem(end, v) ELSE m[s]]

\* Faulty: an item that contains the end of the range is not split.
RECURSIVE MutateWhole(_, _, _, _)
MutateWhole(m, lo, hi, op) ==
    LET first == SplitAt(m, lo)
        end == SubrangeEnd(first, lo, hi)
        next == MutateFirst(first, lo, end, op)
    IN  IF end < hi THEN MutateWhole(next, end, hi, op) ELSE next

\* mutate_range, for a range that is not empty.
RECURSIVE MutateRange(_, _, _, _)
MutateRange(m, lo, hi, op) ==
    LET first == SplitAt(m, lo)
        both == IF lo \in DOMAIN first THEN SplitAt(first, hi) ELSE first
        end == SubrangeEnd(both, lo, hi)
        next == MutateFirst(both, lo, end, op)
    IN  IF end < hi THEN MutateRange(next, end, hi, op) ELSE next

\* The value at an offset.
ValueAt(m, k) ==
    LET at == {s \in DOMAIN m : s <= k /\ k < m[s].end}
    IN  IF at = {} THEN None ELSE m[CHOOSE s \in at : TRUE].v

\* Items are not empty and do not overlap.
Disjoint(m) ==
    \A s \in DOMAIN m : s < m[s].end /\ \A t \in DOMAIN m : s < t => m[s].end <= t
=============================================================================
