----------------------------- MODULE MCLibrary ------------------------------
(***************************************************************************)
(* Small sets of arguments for the library functions.                      *)
(***************************************************************************)
EXTENDS Library

\* Two tables of words that tell their positions apart, one with a hole.
FullTable == [i \in Ints |-> i + 20]
HoledTable == [i \in Ints |-> IF i = 2 THEN Absent ELSE i + 60]

MCValues == {Absent, 9} \cup {i + 20 : i \in Ints} \cup {i + 60 : i \in Ints}
MCTables == {FullTable, HoledTable}

\* Subjects of up to three characters.
Chars == {"a", "b", "1"}
Subjects == UNION {[1 .. n -> Chars] : n \in 0 .. 3}

Letter(suffix) == [i |-> "class", chars |-> <<"%", "a">>, accepts |-> {"a", "b"}, suffix |-> suffix]
Just(c, suffix) == [i |-> "class", chars |-> <<c>>, accepts |-> {c}, suffix |-> suffix]
AnyChar(suffix) == [i |-> "class", chars |-> <<".">>, accepts |-> Chars, suffix |-> suffix]
NotA(suffix) ==
    [i |-> "class", chars |-> <<"[", "^", "a", "]">>, accepts |-> {"b", "1", ""}, suffix |-> suffix]
Between(suffix) ==
    [i |-> "class", chars |-> <<"[", "1", "-", "a", "]">>, accepts |-> {"1", "a"}, suffix |-> suffix]
Open == [i |-> "open"]
Close == [i |-> "close"]
Position == [i |-> "position"]
Again == [i |-> "back", digit |-> "1"]
Balanced == [i |-> "balance"]
Border == [i |-> "frontier", chars |-> <<"[", "%", "a", "]">>, accepts |-> {"a", "b"}]
End == [i |-> "end"]

Classes == {Just("a", ""), Just("a", "-"), Just("a", "*"), Just("b", "?"), Letter("+"), AnyChar("-"),
            NotA(""), Between("*")}

\* Two classes, bare or in captures, then a third thing.
Patterns1 ==
    {<<x, y>> : x \in Classes, y \in Classes}
    \cup {<<Open, x, Close, y>> : x \in Classes, y \in Classes \cup {Again, Position, End}}
    \cup {<<x, Open, y, Position, Close>> : x \in Classes, y \in Classes}
    \cup {<<Open, x, Open, y, Close, AnyChar(""), Close>> : x \in Classes, y \in Classes}
    \cup {<<Open, x, Close, AnyChar("?"), Again>> : x \in Classes}
    \cup {<<Balanced, x>> : x \in Classes}
    \cup {<<Border, x>> : x \in Classes}
    \cup {<<x, End>> : x \in Classes}
    \cup {<<Open, Just("a", "?"), Close, Open, Just("a", ""), Close, x>> : x \in Classes}
    \cup {<<>>}

Template(parts) == [kind |-> "string", parts |-> parts, chars |-> SpellParts(parts), answers |-> <<>>]
Replies(answers) == [kind |-> "table", parts |-> <<>>, chars |-> <<>>, answers |-> answers]
Replacements ==
    {Template(<<[part |-> "text", char |-> "x"], [part |-> "capture", char |-> "1"]>>),
     Template(<<[part |-> "whole", char |-> "0"], [part |-> "percent", char |-> "%"]>>),
     Replies([k \in {<<"a">>} |-> <<"x", "y">>])}

MCPatternCalls ==
    [fn : {"find", "match", "gmatch"}, src : Subjects, items : Patterns1, pos : {1, -1}]
    \cup [fn : {"gsub"}, src : Subjects, items : Patterns1, repl : Replacements, max : {1, 9}]

\* Bytes at the borders of what a first and a continuation byte may be.
SomeBytes == {65, 127, 128, 143, 144, 159, 160, 191, 192, 193, 194, 223, 224, 237, 240, 244, 247,
              248, 252, 253, 254, 255}

MCBytesCalls ==
    [fn : {"codes"}, strict : BOOLEAN,
     bytes : UNION {[1 .. n -> SomeBytes] : n \in 1 .. 2}
             \cup [1 .. 3 -> {65, 128, 159, 160, 191, 224, 237}]
             \cup {b \o <<128, x>> : b \in [1 .. 2 -> {128, 143, 144, 240, 244, 247, 248}],
                                     x \in {65, 128}}
             \cup {<<b, c>> \o [k \in 1 .. n |-> 128] : b \in {248, 252, 253, 254, 255},
                                                        c \in {128, 131, 132, 191}, n \in 2 .. 6}]

\* Code points at the borders of each length, and of what strict accepts.
SomeCodes == {0, 127, 128, 2047, 2048, 55295, 55296, 57343, 57344, 65535, 65536, 1114111, 1114112,
              2097151, 2097152, 67108863, 67108864, 2147483647}
MCTextCalls == [fn : {"char"}, codes : UNION {[1 .. n -> SomeCodes] : n \in 0 .. 2}]

\* Formats of up to three options.
Option(k, size) == [k |-> k, size |-> size]
Options == {Option("int", 1), Option("int", 2), Option("int", 4), Option("uint", 1),
            Option("uint", 3), Option("char", 1), Option("string", 1), Option("zstr", 0),
            Option("padding", 1), Option("paddalign", 0), Option("big", 0), Option("maxalign", 2),
            Option("maxalign", 4)}
Formats == UNION {[1 .. n -> Options] : n \in 1 .. 3}
Arguments == {[n |-> -8, s |-> <<>>], [n |-> -2, s |-> <<1, 0>>], [n |-> 1, s |-> <<3>>],
              [n |-> 7, s |-> <<1, 2, 3>>]}

MCPackCalls ==
    {[fn |-> "pack", fmt |-> fmt, args |-> args] :
        fmt \in Formats, args \in [1 .. 2 -> Arguments] \cup [1 .. 3 -> {[n |-> -1, s |-> <<2>>]}]}

MCSortCalls ==
    [fn : {"sort"}, items : UNION {[1 .. n -> 1 .. 3] : n \in 1 .. 6}, honest : {TRUE}]
    \cup [fn : {"sort"}, items : {[i \in 1 .. n |-> i] : n \in 1 .. 6}, honest : {FALSE}]
=============================================================================
