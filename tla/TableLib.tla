------------------------------ MODULE TableLib ------------------------------
(***************************************************************************)
(* insert, remove, move, concat and unpack of src/lua/ltablib.go.  A table *)
(* holds a value at every word (0 stands for nil); its length is a         *)
(* parameter, since a `__len' metamethod may give any word.  Positions are *)
(* words, so that the tests against overflow and the loops that must not   *)
(* run past the last word are those of the code.                           *)
(***************************************************************************)
EXTENDS Words, SequencesExt

Absent == 0
Refused == [refused |-> TRUE]
Stored(t) == [table |-> t]

\* The words from a to b, none if a > b.
Upwards(a, b) == [k \in 1 .. IF a > b THEN 0 ELSE b - a + 1 |-> a + k - 1]
Downwards(a, b) == Reverse(Upwards(b, a))

\* t[i] = t[i + shift] for the positions in their order.
Copies(t, positions, shift) ==
    FoldLeft(LAMBDA acc, i : [acc EXCEPT ![i] = acc[i + shift]], t, positions)

OutsideInsert(pos, e) == Unsigned(pos - 1) >= Unsigned(e)

TblInsert(t, len, pos, v) ==
    LET e == IAdd(len, 1) IN
    IF OutsideInsert(pos, e) THEN Refused
    ELSE Stored([Copies(t, Downwards(e, pos + 1), -1) EXCEPT ![pos] = v])

TblRemove(t, size, pos) ==
    LET last == IF pos < size THEN size ELSE pos IN
    IF pos # size /\ Unsigned(pos - 1) > Unsigned(size) THEN Refused
    ELSE Stored([Copies(t, Upwards(pos, size - 1), 1) EXCEPT ![last] = Absent])

MovesUp(f, e, tpos) == tpos > e \/ tpos <= f

\* `to' is a2 if it is another table than a1, and <<>> otherwise.
TblMove(t, to, f, e, tpos) ==
    LET n == ISub(e, f) + 1
        up == Upwards(tpos, tpos + n - 1)
    IN IF e < f THEN Stored(IF to = <<>> THEN t ELSE to)
       ELSE IF ~(f > 0 \/ e < IAdd(MaxInt, f)) \/ tpos > MaxInt - n + 1 THEN Refused
       ELSE Stored(IF to # <<>>
                   THEN FoldLeft(LAMBDA acc, i : [acc EXCEPT ![i] = t[i - tpos + f]], to, up)
                   ELSE Copies(t, IF MovesUp(f, e, tpos) THEN up ELSE Reverse(up), f - tpos))

\* concat and unpack read i .. j, the last one after the loop.
TblRead(t, i, j) ==
    LET before == Upwards(i, j - 1) IN
    [k \in 1 .. Len(before) |-> t[before[k]]] \o (IF i <= j THEN <<t[j]>> ELSE <<>>)

TblConcat(t, i, j) ==
    IF Absent \in {TblRead(t, i, j)[k] : k \in DOMAIN TblRead(t, i, j)} THEN Refused
    ELSE [text |-> TblRead(t, i, j)]

\* `room' is what is left of the stack.
TblUnpack(t, i, j, room) ==
    IF i > j THEN [results |-> <<>>]
    ELSE IF Unsigned(j - i) >= room THEN Refused
    ELSE [results |-> TblRead(t, i, j)]

-----------------------------------------------------------------------------
(***************************************************************************)
(* What the functions promise, without loops: every item is read from the  *)
(* table as it was, and positions are numbers rather than words.           *)
(***************************************************************************)
InsertExact(t, len, pos, v) ==
    LET e == len + 1 IN
    TblInsert(t, len, pos, v) =
        IF pos \notin 1 .. e THEN Refused
        ELSE Stored([i \in Ints |-> CASE i = pos -> v
                                      [] i \in pos + 1 .. e -> t[i - 1]
                                      [] OTHER -> t[i]])

RemoveExact(t, size, pos) ==
    LET last == IF pos > size THEN pos ELSE size IN
    TblRemove(t, size, pos) =
        IF pos # size /\ pos \notin 1 .. size + 1 THEN Refused
        ELSE Stored([i \in Ints |-> CASE i = last -> Absent
                                      [] i \in pos .. size - 1 -> t[i + 1]
                                      [] OTHER -> t[i]])

MoveExact(t, to, f, e, tpos) ==
    LET n == e - f + 1
        old == IF to = <<>> THEN t ELSE to
    IN TblMove(t, to, f, e, tpos) =
           IF e < f THEN Stored(old)
           ELSE IF n \notin Ints \/ tpos + n - 1 \notin Ints THEN Refused
           ELSE Stored([i \in Ints |-> IF i \in tpos .. tpos + n - 1 THEN t[f + i - tpos]
                                       ELSE old[i]])

ConcatExact(t, i, j) ==
    TblConcat(t, i, j) =
        IF \E k \in i .. j : t[k] = Absent THEN Refused
        ELSE [text |-> [k \in 1 .. (IF i > j THEN 0 ELSE j - i + 1) |-> t[i + k - 1]]]

UnpackExact(t, i, j, room) ==
    LET n == IF i > j THEN 0 ELSE j - i + 1 IN
    TblUnpack(t, i, j, room) =
        IF n > room THEN Refused ELSE [results |-> [k \in 1 .. n |-> t[i + k - 1]]]
=============================================================================
