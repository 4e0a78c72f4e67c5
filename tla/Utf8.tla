-------------------------------- MODULE Utf8 --------------------------------
(***************************************************************************)
(* The utf8 library, src/lua/lutf8lib.go, on sequences of bytes.  Offsets  *)
(* count from 0 as in the code, the positions of the Lua interface from 1. *)
(***************************************************************************)
EXTENDS Integers, Sequences, SequencesExt

MaxUnicode == 1114111
MaxUTF == 2147483647
Surrogates == 55296 .. 57343

Byte(s, i) == s[i + 1]
IsCont(s, i) == i < Len(s) /\ Byte(s, i) \div 64 = 2

\* What is left of a code point after some continuation bytes, and what there
\* is room for in the first byte then.
Left(x, n) == x \div 2 ^ (6 * n)
Room(n) == 63 \div 2 ^ n

\* utf8esc: continuation bytes until what is left fits the first byte.
Continued(x) ==
    CHOOSE n \in 1 .. 5 : /\ Left(x, n) <= Room(n)
                          /\ \A m \in 1 .. n - 1 : Left(x, m) > Room(m)

Utf8esc(x) ==
    IF x < 128 THEN <<x>>
    ELSE LET n == Continued(x)
         IN [k \in 1 .. n + 1 |-> IF k = 1 THEN 256 - 2 * (Room(n) + 1) + Left(x, n)
                                  ELSE 128 + (Left(x, n + 1 - k) % 64)]

\* The least code point that needs a number of continuation bytes.
Utf8limits == <<128, 2048, 65536, 2097152, 67108864>>

\* How many times the first byte announces a continuation byte, up to 7.
Announced(c) ==
    CHOOSE n \in 0 .. 7 : /\ \A k \in 0 .. n - 1 : ((c * 2 ^ k) \div 64) % 2 = 1
                          /\ ((c * 2 ^ n) \div 64) % 2 = 0

\* Mutant: an encoding longer than needed is accepted.
TooLongNever(count, res) == FALSE

TooLong(count, res) == count = 0 \/ res < Utf8limits[count]

Strictly(v) == v <= MaxUnicode /\ v \notin Surrogates

Undecodable == [ok |-> FALSE]

\* The low six bits of the bytes after offset i, appended to what came first.
Appended(first, s, i, count) ==
    LET res[k \in 0 .. count] ==
            IF k = 0 THEN first ELSE res[k - 1] * 64 + (Byte(s, i + k) % 64)
    IN res[count]

\* utf8Decode: a value and the offset after it.
Utf8Decode(s, i, strict) ==
    LET c == Byte(s, i)
        count == Announced(c)
        first == (c * 2 ^ count) % 128
        res == Appended(0, s, i, count) + first * 2 ^ (count * 5)
    IN IF c < 128 THEN [ok |-> TRUE, val |-> c, next |-> i + 1]
       ELSE IF \/ \E k \in 1 .. count : ~IsCont(s, i + k)
               \/ count > 5
               \/ TooLong(count, res)
               \/ strict /\ ~Strictly(res)
       THEN Undecodable
       ELSE [ok |-> TRUE, val |-> res, next |-> i + count + 1]

\* char: the code points in their order.
Char(codes) ==
    LET text[k \in 0 .. Len(codes)] ==
            IF k = 0 THEN <<>> ELSE text[k - 1] \o Utf8esc(codes[k])
    IN text[Len(codes)]

\* codepoint and len: one turn of their loop, and the turns from offset pos to j.
OneCode(s, j, strict, r) ==
    LET d == Utf8Decode(s, r.at, strict) IN
    IF r.at >= j \/ r.bad > 0 THEN r
    ELSE IF d.ok THEN [at |-> d.next, bad |-> 0, codes |-> Append(r.codes, d.val)]
    ELSE [at |-> r.at, bad |-> r.at + 1, codes |-> r.codes]

CodesFrom(s, pos, j, strict) ==
    LET turn[k \in 0 .. Len(s)] ==
            IF k = 0 THEN [at |-> pos, bad |-> 0, codes |-> <<>>]
            ELSE OneCode(s, j, strict, turn[k - 1])
    IN turn[Len(s)]

\* len: how many, or nil and the position of the first bad byte.
Utf8Len(s, strict) ==
    LET r == CodesFrom(s, 0, Len(s), strict) IN
    IF r.bad = 0 THEN [count |-> Len(r.codes)] ELSE [badAt |-> r.bad]

Utf8Codepoint(s, i, j, strict) == CodesFrom(s, i - 1, j, strict)

\* offset: forwards or backwards over whole characters, 0 for nil.
SkipForward(s, pos) ==
    CHOOSE p \in pos .. Len(s) : ~IsCont(s, p) /\ \A q \in pos .. p - 1 : IsCont(s, q)
SkipBack(s, pos) ==
    CHOOSE p \in 0 .. pos : /\ p = 0 \/ ~IsCont(s, p)
                            /\ \A q \in p + 1 .. pos : IsCont(s, q)

Forward(s, n, pos) ==
    LET at[k \in 0 .. n] ==
            IF k = 0 THEN pos
            ELSE IF at[k - 1] \in 0 .. Len(s) - 1 THEN SkipForward(s, at[k - 1] + 1) ELSE -1
    IN at[n] + 1
Back(s, n, pos) ==
    LET at[k \in 0 .. n] ==
            IF k = 0 THEN pos ELSE IF at[k - 1] > 0 THEN SkipBack(s, at[k - 1] - 1) ELSE -1
    IN at[n] + 1

Utf8Offset(s, n, i) ==
    CASE n = 0 -> SkipBack(s, i - 1) + 1
      [] n # 0 /\ IsCont(s, i - 1) -> -1
      [] n > 0 /\ ~IsCont(s, i - 1) -> Forward(s, n - 1, i - 1)
      [] OTHER -> Back(s, -n, i - 1)

\* codes: a call of the iterator, which is called until it returns nothing.
OnePair(s, strict, r) ==
    LET n == SkipForward(s, r.control)
        d == Utf8Decode(s, n, strict)
    IN IF r.bad \/ n >= Len(s) THEN r
       ELSE IF ~d.ok \/ IsCont(s, d.next) THEN [control |-> n, bad |-> TRUE, pairs |-> r.pairs]
       ELSE [control |-> n + 1, bad |-> FALSE, pairs |-> Append(r.pairs, <<n + 1, d.val>>)]

Utf8Codes(s, strict) ==
    LET turn[k \in 0 .. Len(s)] ==
            IF k = 0 THEN [control |-> 0, bad |-> FALSE, pairs |-> <<>>]
            ELSE OnePair(s, strict, turn[k - 1])
        last == turn[Len(s)]
    IN IF IsCont(s, 0) \/ last.bad THEN <<"error">> ELSE last.pairs

-----------------------------------------------------------------------------
(***************************************************************************)
(* What the encoding is: the payload of k bytes at an offset, and the only *)
(* code point that may be written there.                                   *)
(***************************************************************************)
Payload(s, i, k) ==
    IF k = 1 THEN Byte(s, i)
    ELSE Appended(Byte(s, i) % 2 ^ (7 - k), s, i, k - 1)

Written(s, i) ==
    {k \in 1 .. IF Len(s) - i < 6 THEN Len(s) - i ELSE 6 :
        Utf8esc(Payload(s, i, k)) = SubSeq(s, i + 1, i + k)}

\* Decoding accepts exactly what encoding writes, and with the right value.
DecodesWritten(s, i, strict) ==
    LET d == Utf8Decode(s, i, strict)
        valid == {k \in Written(s, i) : strict => Strictly(Payload(s, i, k))}
    IN /\ d.ok <=> valid # {}
       /\ d.ok => \E k \in valid : d.next = i + k /\ d.val = Payload(s, i, k)

\* Where each character of a sequence of code points starts.
StartOf(codes, k) == Len(Char(SubSeq(codes, 1, k - 1))) + 1

\* Every function of the library takes an encoded text apart in the same way.
TextAgrees(codes) ==
    LET s == Char(codes)
        n == Len(codes)
        plain == \A k \in 1 .. n : Strictly(codes[k])
    IN /\ Utf8Len(s, FALSE) = [count |-> n]
       /\ plain <=> Utf8Len(s, TRUE) = [count |-> n]
       /\ Utf8Codepoint(s, 1, Len(s), FALSE).codes = codes
       /\ Utf8Codes(s, FALSE) = [k \in 1 .. n |-> <<StartOf(codes, k), codes[k]>>]
       /\ \A k \in 1 .. n + 1 : Utf8Offset(s, k, 1) = StartOf(codes, k)
       /\ \A k \in 1 .. n : Utf8Offset(s, k - n - 1, Len(s) + 1) = StartOf(codes, k)
       /\ \A i \in 1 .. Len(s) :
              Utf8Offset(s, 0, i) = StartOf(codes, CHOOSE k \in 1 .. n : StartOf(codes, k) <= i
                                                       /\ i < StartOf(codes, k + 1))
       /\ Utf8Offset(s, n + 2, 1) = 0 /\ Utf8Offset(s, -n - 1, Len(s) + 1) = 0
=============================================================================
