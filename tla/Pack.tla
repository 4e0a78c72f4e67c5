-------------------------------- MODULE Pack --------------------------------
(***************************************************************************)
(* string.pack, unpack and packsize, src/lua/lstrlib_pack.go.  A format is *)
(* a sequence of options, each a record of a kind and a size: the letters  *)
(* and digits it is read from are left out, and so are floats, which are   *)
(* packed as integers of their bits.  A byte has ByteBits bits, a Lua      *)
(* integer (W bits) and a size SzInt bytes.                                *)
(***************************************************************************)
EXTENDS Words, SequencesExt

CONSTANTS
    ByteBits,    \* bits of a byte, 8 in the code
    SzInt,       \* packSZINT and packSZSIZET; W = ByteBits * SzInt
    MaxIntSize   \* packMAXINTSIZE

ByteBase == 2 ^ ByteBits

Failed == [failed |-> TRUE]
IsPower2(n) == \E k \in 0 .. n : n = 2 ^ k

\* packGetoption: the limits of a size and the options that set the header.
OptionOk(o) == o.k \in {"int", "uint", "string", "maxalign"} => o.size \in 1 .. MaxIntSize

Header(h, o) ==
    CASE o.k = "little" -> [h EXCEPT !.little = TRUE]
      [] o.k = "big" -> [h EXCEPT !.little = FALSE]
      [] o.k = "maxalign" -> [h EXCEPT !.maxalign = o.size]
      [] OTHER -> h

\* The size an option itself takes.
SizeOf(o) == IF o.k \in {"int", "uint", "string", "char"} THEN o.size
             ELSE IF o.k = "padding" THEN 1 ELSE 0

\* packGetdetails: the option at i, its padding and the rest of the format.
\* `X' takes the option after it for its alignment only.
Aligned(h, o, align, total, rest) ==
    LET capped == IF align > h.maxalign THEN h.maxalign ELSE align
        aligned == align > 1 /\ o.k # "char"
    IN IF aligned /\ ~IsPower2(capped) THEN Failed
       ELSE [h |-> h, o |-> o, size |-> SizeOf(o), rest |-> rest,
             ntoalign |-> IF aligned THEN (capped - (total % capped)) % capped ELSE 0]

Details(h, total, fmt) ==
    LET o == fmt[1]
        aligner == fmt[2]
        bad == \/ ~OptionOk(o)
               \/ o.k = "paddalign" /\ (Len(fmt) < 2 \/ ~OptionOk(aligner)
                                        \/ aligner.k = "char" \/ SizeOf(aligner) = 0)
    IN IF bad THEN Failed
       ELSE IF o.k = "paddalign"
       THEN Aligned(Header(h, aligner), o, SizeOf(aligner), total, SubSeq(fmt, 3, Len(fmt)))
       ELSE Aligned(Header(h, o), o, SizeOf(o), total, Tail(fmt))

Ordered(bytes, little) == IF little THEN bytes ELSE Reverse(bytes)

\* packint: the low bytes first, sign extension beyond a Lua integer.
PackInt(n, little, size) ==
    LET low(i) == (Unsigned(n) \div ByteBase ^ (i - 1)) % ByteBase
    IN Ordered([i \in 1 .. size |-> IF i <= SzInt THEN low(i)
                                    ELSE IF n < 0 THEN ByteBase - 1 ELSE 0], little)

PackUint(n, little, size) ==
    Ordered([i \in 1 .. size |-> IF i <= SzInt
                                 THEN (Unsigned(n) \div ByteBase ^ (i - 1)) % ByteBase ELSE 0],
            little)

\* Mutant: a short integer is read without its sign.
SignExtendedNot(res, size) == res

SignExtended(res, size) ==
    LET sign == 2 ^ (size * ByteBits - 1) IN IF res >= sign THEN res - 2 * sign ELSE res

\* unpackint: a value, or Failed when it does not fit.
UnpackInt(bytes, little, size, isSigned) ==
    LET b == Ordered(bytes, little)
        limit == IF size > SzInt THEN SzInt ELSE size
        res == FoldLeft(LAMBDA acc, i : acc + b[i] * ByteBase ^ (i - 1), 0, [i \in 1 .. limit |-> i])
        mask == IF isSigned /\ Signed(res) < 0 THEN ByteBase - 1 ELSE 0
    IN CASE size < SzInt -> [value |-> IF isSigned THEN SignExtended(res, size) ELSE res]
         [] size = SzInt -> [value |-> Signed(res)]
         [] OTHER -> IF \A i \in SzInt + 1 .. size : b[i] = mask THEN [value |-> Signed(res)]
                     ELSE Failed

Zeros(n) == [i \in 1 .. n |-> 0]

\* The overflow tests of kInt, kUint, kChar, kString and kZstr.
Fits(o, arg) ==
    CASE o.k = "int" -> o.size < SzInt => /\ -(2 ^ (o.size * ByteBits - 1)) <= arg.n
                                          /\ arg.n < 2 ^ (o.size * ByteBits - 1)
      [] o.k = "uint" -> o.size < SzInt => Unsigned(arg.n) < 2 ^ (o.size * ByteBits)
      [] o.k = "char" -> Len(arg.s) <= o.size
      [] o.k = "string" -> o.size < SzInt => Len(arg.s) < 2 ^ (o.size * ByteBits)
      [] o.k = "zstr" -> 0 \notin Range(arg.s)

TakesArg(o) == o.k \in {"int", "uint", "char", "string", "zstr"}

\* The bytes of one option, and how much they add beyond its size.
Bytes(o, arg, little) ==
    CASE o.k = "int" -> PackInt(arg.n, little, o.size)
      [] o.k = "uint" -> PackUint(arg.n, little, o.size)
      [] o.k = "char" -> arg.s \o Zeros(o.size - Len(arg.s))
      [] o.k = "string" -> PackUint(Len(arg.s), little, o.size) \o arg.s
      [] o.k = "zstr" -> Append(arg.s, 0)
      [] o.k = "padding" -> <<0>>
      [] OTHER -> <<>>

Extra(o, arg) == CASE o.k = "string" -> Len(arg.s) [] o.k = "zstr" -> Len(arg.s) + 1 [] OTHER -> 0

RECURSIVE PackFrom(_, _, _, _, _)
PackOption(d, args, total, buf) ==
    IF d = Failed THEN Failed
    ELSE IF TakesArg(d.o) /\ (args = <<>> \/ ~Fits(d.o, args[1])) THEN Failed
    ELSE LET arg == IF TakesArg(d.o) THEN args[1] ELSE [n |-> 0]
             left == IF TakesArg(d.o) THEN Tail(args) ELSE args
         IN PackFrom(d.h, d.rest, left, total + d.ntoalign + d.size + Extra(d.o, arg),
                     buf \o Zeros(d.ntoalign) \o Bytes(d.o, arg, d.h.little))

PackFrom(h, fmt, args, total, buf) ==
    IF fmt = <<>> THEN [bytes |-> buf] ELSE PackOption(Details(h, total, fmt), args, total, buf)

Native == [little |-> TRUE, maxalign |-> 1]

StrPack(fmt, args) == PackFrom(Native, fmt, args, 0, <<>>)

\* strUnpack from an offset.  A length that reads as a negative integer is
\* not caught by the test against the data; no packed string has one.
FirstZero(data, pos) ==
    LET zeros == {i \in pos .. Len(data) - 1 : data[i + 1] = 0}
    IN IF zeros = {} THEN -1 ELSE CHOOSE i \in zeros : \A j \in zeros : i <= j

\* The value of one option at an offset, and how far it reaches beyond the
\* option's size; or Failed.
Counted(num, data, from) ==
    IF num = Failed \/ num.value > Len(data) - from THEN Failed
    ELSE [vals |-> <<[s |-> SubSeq(data, from + 1, from + num.value)]>>, skip |-> num.value]

Terminated(zero, data, at) ==
    IF zero < 0 THEN Failed
    ELSE [vals |-> <<[s |-> SubSeq(data, at + 1, zero)]>>, skip |-> zero - at + 1]

Numeral(num) == IF num = Failed THEN Failed ELSE [vals |-> <<[n |-> num.value]>>, skip |-> 0]

OptionValue(d, data, at, piece) ==
    CASE d.o.k \in {"int", "uint"} ->
           Numeral(UnpackInt(piece, d.h.little, d.size, d.o.k = "int"))
      [] d.o.k = "char" -> [vals |-> <<[s |-> piece]>>, skip |-> 0]
      [] d.o.k = "string" ->
           Counted(UnpackInt(piece, d.h.little, d.size, FALSE), data, at + d.size)
      [] d.o.k = "zstr" -> Terminated(FirstZero(data, at), data, at)
      [] OTHER -> [vals |-> <<>>, skip |-> 0]

RECURSIVE UnpackFrom(_, _, _, _, _)
UnpackNext(d, v, data, at, vals) ==
    IF v = Failed THEN Failed
    ELSE UnpackFrom(d.h, d.rest, data, at + v.skip + d.size, vals \o v.vals)

UnpackOption(d, data, pos, vals) ==
    IF d = Failed \/ d.ntoalign + d.size > Len(data) - pos THEN Failed
    ELSE LET at == pos + d.ntoalign
         IN UnpackNext(d, OptionValue(d, data, at, SubSeq(data, at + 1, at + d.size)), data, at, vals)

UnpackFrom(h, fmt, data, pos, vals) ==
    IF fmt = <<>> THEN [values |-> vals, next |-> pos + 1]
    ELSE UnpackOption(Details(h, pos, fmt), data, pos, vals)

StrUnpack(fmt, data) == UnpackFrom(Native, fmt, data, 0, <<>>)

RECURSIVE PacksizeFrom(_, _, _)
AddSize(d, total) ==
    IF d = Failed \/ d.o.k \in {"string", "zstr"} THEN Failed
    ELSE PacksizeFrom(d.h, d.rest, total + d.ntoalign + d.size)

PacksizeFrom(h, fmt, total) ==
    IF fmt = <<>> THEN [size |-> total] ELSE AddSize(Details(h, total, fmt), total)

StrPacksize(fmt) == PacksizeFrom(Native, fmt, 0)

-----------------------------------------------------------------------------
(***************************************************************************)
(* What unpack gives back for each packed argument: a fixed-size string is *)
(* filled with zeros, everything else is as it was.                        *)
(***************************************************************************)
\* The options that are not only the alignment of an `X' before them.
RECURSIVE Own(_)
Own(fmt) ==
    IF fmt = <<>> THEN <<>>
    ELSE <<fmt[1]>> \o Own(SubSeq(fmt, IF fmt[1].k = "paddalign" THEN 3 ELSE 2, Len(fmt)))

GivenBack(fmt, args) ==
    LET mine == SelectSeq(Own(fmt), TakesArg)
        Back(o, arg) == CASE o.k \in {"int", "uint"} -> [n |-> arg.n]
                          [] o.k = "char" -> [s |-> arg.s \o Zeros(o.size - Len(arg.s))]
                          [] OTHER -> [s |-> arg.s]
    IN [i \in DOMAIN mine |-> Back(mine[i], args[i])]

AllGivenBack(u, fmt, args, length) ==
    /\ u # Failed
    /\ u.values = GivenBack(fmt, args)
    /\ u.next = length + 1

SizedAs(fmt, length) ==
    LET varies == \E o \in Range(Own(fmt)) : o.k \in {"string", "zstr"}
    IN StrPacksize(fmt) = IF varies THEN Failed ELSE [size |-> length]

ReadsBack(p, fmt, args) ==
    p # Failed => /\ AllGivenBack(StrUnpack(fmt, p.bytes), fmt, args, Len(p.bytes))
                  /\ SizedAs(fmt, Len(p.bytes))

RoundTrip(fmt, args) == ReadsBack(StrPack(fmt, args), fmt, args)
=============================================================================
