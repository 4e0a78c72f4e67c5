------------------------------ MODULE PureCalls ------------------------------
(***************************************************************************)
(* Calls whose result is a function of their arguments: the integer        *)
(* operators that have a corner at the ends of the words, the numeric for  *)
(* loop, and table.insert, remove, move, concat and unpack, called with    *)
(* every word; and the utf8 functions, called with sequences of bytes and  *)
(* of code points.  A call is a record; its fields are those of the        *)
(* operator that stands for the code.                                      *)
(***************************************************************************)
EXTENDS TableLib, Utf8

CONSTANTS
    Values,      \* what a table holds
    Tables,      \* the tables of the calls
    Rooms,       \* how many results the stack may have room for
    BytesCalls,  \* decoding of bytes, at every offset
    TextCalls    \* an encoded text, taken apart again

ASSUME CallAssumption ==
    /\ Tables \subseteq [Ints -> Values]
    /\ Rooms \subseteq Nat
    /\ \A c \in BytesCalls :
           c.fn = "codes" /\ c.bytes \in Seq(0 .. 255) /\ c.strict \in BOOLEAN
    /\ \A c \in TextCalls : c.fn = "char" /\ c.codes \in Seq(0 .. MaxUTF)

VARIABLES
    call,  \* the call
    done   \* it has returned

vars == <<call, done>>

DivisionCalls == [fn : {"idiv", "mod"}, m : Ints, n : Ints \ {0}]
ShiftCalls == [fn : {"shl", "shr"}, x : Ints, y : Ints]
ForCalls == [fn : {"for"}, init : Ints, limit : Limits, step : Ints \ {0}]

\* The lengths a table has without `__len'.
Lengths == 0 .. MaxInt - 1
InsertCalls == [fn : {"insert"}, t : Tables, len : Lengths, pos : Ints, v : Values]
RemoveCalls == [fn : {"remove"}, t : Tables, len : Lengths, pos : Ints]
MoveCalls == [fn : {"move"}, t : Tables, to : Tables \cup {<<>>}, f : Ints, e : Ints, pos : Ints]
ConcatCalls == [fn : {"concat"}, t : Tables, f : Ints, e : Ints]
UnpackCalls == [fn : {"unpack"}, t : Tables, f : Ints, e : Ints, room : Rooms]

Init ==
    /\ done = FALSE
    /\ \/ call \in DivisionCalls \/ call \in ShiftCalls \/ call \in ForCalls
       \/ call \in InsertCalls \/ call \in RemoveCalls \/ call \in MoveCalls
       \/ call \in ConcatCalls \/ call \in UnpackCalls
       \/ call \in BytesCalls \/ call \in TextCalls

\* A function of its arguments returns; the properties say what.
Return == ~done /\ done' = TRUE /\ UNCHANGED call

Next == Return

Spec == Init /\ [][Next]_vars

-----------------------------------------------------------------------------
\* The quotient rounded down, and a shift, of numbers rather than words.
Floor(m, n) == IF n > 0 THEN m \div n ELSE (-m) \div (-n)
Shifted(x, y) ==
    IF y >= 0 THEN Wrap(x * 2 ^ y) ELSE Signed(Unsigned(x) \div 2 ^ (-y))

(***************************************************************************)
(* intMod, intIDiv and shiftL (lvm_arith.go:137) correct what Go's         *)
(* operators answer.  A quotient is rounded down and a remainder goes with *)
(* it, for operands of any signs and for the least word divided by -1; a   *)
(* shift by any word, the least one included, which has no negation, is    *)
(* the shift of an unsigned number.                                        *)
(***************************************************************************)
ArithmeticIsExact ==
    done =>
        /\ call.fn = "idiv" => IntIDiv(call.m, call.n) = Wrap(Floor(call.m, call.n))
        /\ call.fn = "mod" => IntMod(call.m, call.n) = call.m - call.n * Floor(call.m, call.n)
        /\ call.fn = "shl" => ShiftL(call.x, call.y) = Shifted(call.x, call.y)
        /\ call.fn = "shr" => ShiftR(call.x, call.y) = Shifted(call.x, -call.y)

\* What a numeric for loop does, without words that wrap: the values of the
\* control variable are init, init + step, ... as far as the limit.
Reached(v, c) ==
    IF c.limit.word THEN IF c.step > 0 THEN v <= c.limit.value ELSE v >= c.limit.value
    ELSE (c.limit.value > 0) = (c.step > 0)

Turns(c) ==
    {n \in 0 .. 2 ^ W : c.init + n * c.step \in Ints /\ Reached(c.init + n * c.step, c)}

ForExact(c) ==
    LET count == IF 0 \in Turns(c) THEN Cardinality(Turns(c)) ELSE 0
    IN ForValues(c.init, c.limit, c.step) = [k \in 1 .. count |-> c.init + (k - 1) * c.step]

(***************************************************************************)
(* The loops over words are exact at any distance from the largest and the *)
(* least word: a numeric for loop takes the values up to its limit, word   *)
(* or not (forlimit and forprep, which count the turns as an unsigned      *)
(* word), and table.insert, remove, move, concat and unpack do to the      *)
(* table what they promise for every position, and refuse the rest.        *)
(***************************************************************************)
RangesAreExact ==
    done =>
        /\ call.fn = "for" => ForExact(call)
        /\ call.fn = "insert" => InsertExact(call.t, call.len, call.pos, call.v)
        /\ call.fn = "remove" => RemoveExact(call.t, call.len, call.pos)
        /\ call.fn = "move" => MoveExact(call.t, call.to, call.f, call.e, call.pos)
        /\ call.fn = "concat" => ConcatExact(call.t, call.f, call.e)
        /\ call.fn = "unpack" => UnpackExact(call.t, call.f, call.e, call.room)

(***************************************************************************)
(* What a call with words computes is what the same call computes with     *)
(* numbers of any size, wrapped at the end where the language wraps.       *)
(***************************************************************************)
CallsAreExact == ArithmeticIsExact /\ RangesAreExact

(***************************************************************************)
(* The utf8 functions accept exactly the bytes that encoding writes, with  *)
(* the same code points, counts and positions, in strict and in lax mode.  *)
(***************************************************************************)
Utf8Agrees ==
    done =>
        /\ call.fn = "codes" => \A i \in 0 .. Len(call.bytes) - 1 :
                                    DecodesWritten(call.bytes, i, call.strict)
        /\ call.fn = "char" => TextAgrees(call.codes)
=============================================================================
