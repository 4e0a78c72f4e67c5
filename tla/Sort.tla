-------------------------------- MODULE Sort --------------------------------
(***************************************************************************)
(* table.sort, src/lua/ltablib.go: a quicksort over a copy of the items,   *)
(* one action per call of the order function.  That function is a Lua      *)
(* function: it may answer anything, and the same question differently.    *)
(***************************************************************************)
EXTENDS Integers, Sequences, FiniteSets, SequencesExt

VARIABLES
    table,     \* the items of the table
    items,     \* the copy that is sorted, a[1..n]
    given,     \* the items in their original order
    faithful,  \* the order function answers x < y
    ranges,    \* the ranges still to be sorted, the current one first
    scan,      \* the two positions of a partition in progress
    sortPc     \* which question comes next, or how the sort ended

sortVars == <<table, items, given, faithful, ranges, scan, sortPc>>

Lo == ranges[1].lo
Up == ranges[1].up
Middle == (Lo + Up) \div 2
Pivot == items[Up - 1]

SortInit(a, honest) ==
    /\ table = a
    /\ items = a
    /\ given = a
    /\ faithful = honest
    /\ ranges = <<[lo |-> 1, up |-> Len(a)]>>
    /\ scan = [i |-> 0, j |-> 0]
    /\ sortPc = IF Len(a) <= 1 THEN "sorted" ELSE "range"

\* The answers the order function may give to "x before y?".
Lt(x, y) == IF faithful THEN {x < y} ELSE BOOLEAN

Swapped(a, i, j) == [a EXCEPT ![i] = a[j], ![j] = a[i]]

Ask(next) == sortPc' = next

\* The loop head of auxsort; a call that returns goes on with its caller's
\* range, and the last one with storing the items in the table.
TakeRange ==
    /\ sortPc = "range"
    /\ IF ranges = <<>> THEN Ask("sorted") /\ table' = items /\ UNCHANGED ranges
       ELSE IF Lo < Up THEN Ask("ends") /\ UNCHANGED <<table, ranges>>
       ELSE ranges' = Tail(ranges) /\ UNCHANGED <<table, sortPc>>
    /\ UNCHANGED <<items, given, faithful, scan>>

\* Mutant: a range of two or three is taken again.
LeaveNot == UNCHANGED ranges /\ Ask("range")

\* This range is done.
Leave == ranges' = Tail(ranges) /\ Ask("range")

CompareEnds ==
    /\ sortPc = "ends"
    /\ \E before \in Lt(items[Up], items[Lo]) :
           items' = IF before THEN Swapped(items, Lo, Up) ELSE items
    /\ IF Up - Lo = 1 THEN Leave ELSE Ask("middle") /\ UNCHANGED ranges
    /\ UNCHANGED <<table, given, faithful, scan>>

\* The pivot is chosen: a range of three is done, a longer one is split.
Split(a) ==
    IF Up - Lo = 2 THEN items' = a /\ Leave /\ UNCHANGED scan
    ELSE /\ items' = Swapped(a, Middle, Up - 1)
         /\ scan' = [i |-> Lo + 1, j |-> Up - 1]
         /\ Ask("left")
         /\ UNCHANGED ranges

CompareMiddle ==
    /\ sortPc = "middle"
    /\ \E before \in Lt(items[Middle], items[Lo]) :
           IF before THEN Split(Swapped(items, Middle, Lo))
           ELSE Ask("upper") /\ UNCHANGED <<items, ranges, scan>>
    /\ UNCHANGED <<table, given, faithful>>

CompareUpper ==
    /\ sortPc = "upper"
    /\ \E before \in Lt(items[Up], items[Middle]) :
           Split(IF before THEN Swapped(items, Middle, Up) ELSE items)
    /\ UNCHANGED <<table, given, faithful>>

\* Mutant: the scan from the left trusts the order function to stop.
LeftEndsNever(i) == FALSE

LeftEnds(i) == i = Up - 1

ScanLeft ==
    /\ sortPc = "left"
    /\ \E before \in Lt(items[scan.i], Pivot) :
           IF before
           THEN IF LeftEnds(scan.i) THEN Ask("invalid") /\ UNCHANGED scan
                ELSE scan' = [scan EXCEPT !.i = @ + 1] /\ UNCHANGED sortPc
           ELSE scan' = [scan EXCEPT !.j = @ - 1] /\ Ask("right")
    /\ UNCHANGED <<table, items, given, faithful, ranges>>

\* The smaller part is sorted by a call, the larger one by the loop.
Parts(p) ==
    LET left == [lo |-> Lo, up |-> p - 1]
        right == [lo |-> p + 1, up |-> Up]
    IN IF p - Lo < Up - p THEN <<left, right>> ELSE <<right, left>>

ScanRight ==
    /\ sortPc = "right"
    /\ \E before \in Lt(Pivot, items[scan.j]) :
           IF before
           THEN /\ IF scan.j < scan.i THEN Ask("invalid") /\ UNCHANGED scan
                   ELSE scan' = [scan EXCEPT !.j = @ - 1] /\ UNCHANGED sortPc
                /\ UNCHANGED <<items, ranges>>
           ELSE IF scan.j < scan.i
           THEN /\ items' = Swapped(items, Up - 1, scan.i)
                /\ ranges' = Parts(scan.i) \o Tail(ranges)
                /\ Ask("range")
                /\ UNCHANGED scan
           ELSE /\ items' = Swapped(items, scan.i, scan.j)
                /\ scan' = [scan EXCEPT !.i = @ + 1]
                /\ Ask("left")
                /\ UNCHANGED ranges
    /\ UNCHANGED <<table, given, faithful>>

SortStep ==
    \/ TakeRange
    \/ CompareEnds
    \/ CompareMiddle
    \/ CompareUpper
    \/ ScanLeft
    \/ ScanRight

-----------------------------------------------------------------------------
Count(a, x) == Cardinality({i \in DOMAIN a : a[i] = x})

(***************************************************************************)
(* Whatever the order function answers, no item is lost or duplicated, the *)
(* table never holds a half sorted list, and neither scan of partition     *)
(* leaves the range it works on; an order function that is an order is     *)
(* never reported as invalid, and the items end up in its order.           *)
(***************************************************************************)
SortIsSafe ==
    /\ Len(items) = Len(given)
    /\ table \in {given, items}
    /\ \A x \in Range(given) : Count(items, x) = Count(given, x)
    /\ sortPc \in {"left", "right"} => {scan.i, scan.j} \subseteq Lo .. Up
    /\ faithful => sortPc # "invalid"
    /\ faithful /\ sortPc = "sorted" => 
           table = items /\ \A i \in 1 .. Len(items) - 1 : items[i] <= items[i + 1]

(***************************************************************************)
(* The sort ends, even when the order function contradicts itself.         *)
(***************************************************************************)
SortEnds == <>(sortPc \in {"sorted", "invalid"})
=============================================================================
