------------------------------ MODULE Patterns ------------------------------
(***************************************************************************)
(* The pattern matcher of src/lua/lstrlib_pattern.go.  Subjects and        *)
(* patterns are sequences of characters, offsets count from 0 as in the    *)
(* code.  The match state's captures are mutable there: every operator     *)
(* takes the state `ms' and returns it with the result, so that what a     *)
(* failed attempt leaves behind is what the next attempt finds.            *)
(***************************************************************************)
EXTENDS Integers, Sequences, FiniteSets, SequencesExt

CONSTANTS
    MaxCaptures,   \* LUA_MAXCAPTURES
    MaxMatchDepth  \* maxMatchDepth

NoMatch == -1
CapUnfinished == -1
CapPosition == -2

\* The offset of a match that raised an error, and what a function answers
\* then, and when it finds nothing.
Raised == -3
Error == [from |-> Raised]
Nothing == [from |-> NoMatch]

NewMatchState(src, pat) ==
    [src |-> src, pat |-> pat, level |-> 0, depth |-> MaxMatchDepth, res |-> NoMatch,
     capture |-> [i \in 0 .. MaxCaptures - 1 |-> [init |-> 0, len |-> 0]]]

Result(ms, r) == [ms EXCEPT !.res = r]

Ch(seq, i) == IF i < Len(seq) THEN seq[i + 1] ELSE ""

\* classEnd: the offset after the single-character class at p, or Raised.
RECURSIVE SetEnd(_, _)
SetEnd(pat, p) ==
    IF p >= Len(pat) THEN Raised
    ELSE LET q == IF Ch(pat, p) = "%" /\ p + 1 < Len(pat) THEN p + 2 ELSE p + 1
         IN IF q >= Len(pat) THEN Raised
            ELSE IF Ch(pat, q) = "]" THEN q + 1 ELSE SetEnd(pat, q)

ClassEnd(pat, p) ==
    CASE Ch(pat, p) = "%" -> IF p + 1 >= Len(pat) THEN Raised ELSE p + 2
      [] Ch(pat, p) = "[" -> SetEnd(pat, IF Ch(pat, p + 1) = "^" THEN p + 2 ELSE p + 1)
      [] OTHER -> p + 1

\* The characters of the model: two letters and a digit; "" stands for the
\* zero byte that the code reads beyond the subject.
Ordinal(c) == CASE c = "1" -> 1 [] c = "a" -> 2 [] c = "b" -> 3 [] OTHER -> 0

MatchClass(c, cl) ==
    CASE cl = "a" -> c \in {"a", "b"}
      [] cl = "A" -> c \notin {"a", "b"}
      [] cl = "d" -> c = "1"
      [] OTHER -> cl = c

RECURSIVE InSet(_, _, _, _)
InSet(pat, c, p, ec) ==
    CASE p >= ec -> FALSE
      [] p < ec /\ Ch(pat, p) = "%" -> MatchClass(c, Ch(pat, p + 1)) \/ InSet(pat, c, p + 2, ec)
      [] p < ec /\ Ch(pat, p) # "%" /\ p + 2 < ec /\ Ch(pat, p + 1) = "-" ->
           \/ Ordinal(Ch(pat, p)) <= Ordinal(c) /\ Ordinal(c) <= Ordinal(Ch(pat, p + 2))
           \/ InSet(pat, c, p + 3, ec)
      [] OTHER -> Ch(pat, p) = c \/ InSet(pat, c, p + 1, ec)

MatchBracketClass(pat, c, p, ec) ==
    IF Ch(pat, p + 1) = "^" THEN ~InSet(pat, c, p + 2, ec) ELSE InSet(pat, c, p + 1, ec)

SingleMatch(ms, s, p, ep) ==
    /\ s < Len(ms.src)
    /\ LET c == Ch(ms.src, s) IN
       CASE Ch(ms.pat, p) = "." -> TRUE
         [] Ch(ms.pat, p) = "%" -> MatchClass(c, Ch(ms.pat, p + 1))
         [] Ch(ms.pat, p) = "[" -> MatchBracketClass(ms.pat, c, p, ep - 1)
         [] OTHER -> Ch(ms.pat, p) = c

\* matchBalance: the offset after the matching closer.
RECURSIVE BalanceFrom(_, _, _, _, _)
BalanceFrom(src, s, b, e, cont) ==
    IF s >= Len(src) THEN NoMatch
    ELSE LET c == Ch(src, s) IN
         CASE c = e /\ cont = 1 -> s + 1
           [] c = e /\ cont > 1 -> BalanceFrom(src, s + 1, b, e, cont - 1)
           [] c # e /\ c = b -> BalanceFrom(src, s + 1, b, e, cont + 1)
           [] OTHER -> BalanceFrom(src, s + 1, b, e, cont)

MatchBalance(ms, s, p) ==
    CASE p >= Len(ms.pat) - 1 -> Raised
      [] p < Len(ms.pat) - 1 /\ Ch(ms.src, s) # Ch(ms.pat, p) -> NoMatch
      [] OTHER -> BalanceFrom(ms.src, s + 1, Ch(ms.pat, p), Ch(ms.pat, p + 1), 1)

Slice(seq, from, to) == SubSeq(seq, from + 1, to)

\* The slice of a position capture is out of range: a runtime panic.
MatchCapture(ms, s, l) ==
    CASE l < 0 \/ l >= ms.level \/ ms.capture[l].len = CapUnfinished -> Raised
      [] l >= 0 /\ l < ms.level /\ ms.capture[l].len = CapPosition -> Raised
      [] OTHER ->
           LET clen == ms.capture[l].len
               init == ms.capture[l].init
           IN IF /\ Len(ms.src) - s >= clen
                 /\ Slice(ms.src, init, init + clen) = Slice(ms.src, s, s + clen)
              THEN s + clen ELSE NoMatch

Digits == [d \in {"1", "2"} |-> IF d = "1" THEN 0 ELSE 1]

RECURSIVE MatchAt(_, _, _), MatchLoop(_, _, _), MaxExpand(_, _, _, _, _), MinExpand(_, _, _, _)

\* What an attempt `m' to match the rest of the pattern leads to: it is the
\* answer, or the repetition before it is made one shorter or one longer.
OrShorter(m, s, p, ep, i) == IF m.res # NoMatch THEN m ELSE MaxExpand(m, s, p, ep, i - 1)
OrLonger(m, s, p, ep) ==
    IF m.res = NoMatch /\ SingleMatch(m, s, p, ep) THEN MinExpand(m, s + 1, p, ep) ELSE m
OrWithout(m, s, p) == IF m.res # NoMatch THEN m ELSE MatchLoop(m, s, p)

Widest(ms, s, p, ep) ==
    CHOOSE i \in 0 .. Len(ms.src) :
        /\ \A j \in 0 .. i - 1 : SingleMatch(ms, s + j, p, ep)
        /\ ~SingleMatch(ms, s + i, p, ep)

MaxExpand(ms, s, p, ep, i) ==
    IF i < 0 THEN Result(ms, NoMatch)
    ELSE OrShorter(MatchAt(ms, s + i, ep + 1), s, p, ep, i)

MinExpand(ms, s, p, ep) == OrLonger(MatchAt(ms, s, ep + 1), s, p, ep)

\* A capture opened by an attempt that failed is undone.
Unopened(m) == IF m.res = NoMatch THEN [m EXCEPT !.level = @ - 1] ELSE m

StartCapture(ms, s, p, what) ==
    IF ms.level >= MaxCaptures THEN Result(ms, Raised)
    ELSE Unopened(MatchAt([ms EXCEPT !.capture[ms.level] = [init |-> s, len |-> what],
                                     !.level = @ + 1], s, p))

\* Mutant: a failed attempt leaves the capture closed.
ReopenedNot(m, l) == m

Reopened(m, l) == IF m.res = NoMatch THEN [m EXCEPT !.capture[l].len = CapUnfinished] ELSE m

EndCapture(ms, s, p) ==
    LET unfinished == {i \in 0 .. ms.level - 1 : ms.capture[i].len = CapUnfinished}
        l == CHOOSE i \in unfinished : \A j \in unfinished : j <= i
    IN IF unfinished = {} THEN Result(ms, Raised)
       ELSE Reopened(MatchAt([ms EXCEPT !.capture[l].len = s - ms.capture[l].init], s, p), l)

\* %f: the transition between a character outside a set and one inside it.
Frontier(ms, s, p) ==
    LET ep == ClassEnd(ms.pat, p)
        prev == IF s = 0 THEN "" ELSE Ch(ms.src, s - 1)
    IN CASE p >= Len(ms.pat) \/ Ch(ms.pat, p) # "[" \/ ep = Raised -> Result(ms, Raised)
         [] ~(p >= Len(ms.pat) \/ Ch(ms.pat, p) # "[" \/ ep = Raised)
            /\ ~MatchBracketClass(ms.pat, prev, p, ep - 1)
            /\ MatchBracketClass(ms.pat, Ch(ms.src, s), p, ep - 1) -> MatchLoop(ms, s, ep)
         [] OTHER -> Result(ms, NoMatch)

\* A single class and its suffix.
Repetitions == {"*", "?", "-", "+"}

WithSuffix(ms, s, p, ep, suffix) ==
    CASE suffix = "?" -> OrWithout(MatchAt(ms, s + 1, ep + 1), s, ep + 1)
      [] suffix \in {"+", "*"} ->
           LET from == IF suffix = "+" THEN s + 1 ELSE s
           IN MaxExpand(ms, from, p, ep, Widest(ms, from, p, ep))
      [] suffix = "-" -> MinExpand(ms, s, p, ep)
      [] suffix \notin Repetitions -> MatchLoop(ms, s + 1, ep)

Default(ms, s, p) ==
    LET ep == ClassEnd(ms.pat, p)
        suffix == Ch(ms.pat, ep)
    IN IF ep = Raised THEN Result(ms, Raised)
       ELSE IF SingleMatch(ms, s, p, ep) THEN WithSuffix(ms, s, p, ep, suffix)
       ELSE IF suffix \in {"*", "?", "-"} THEN MatchLoop(ms, s, ep + 1) ELSE Result(ms, NoMatch)

\* What a match that consumed an item of its own does next.
Then(ms, s, p) == IF s < 0 THEN Result(ms, s) ELSE MatchLoop(ms, s, p)

\* The body of match: one turn of its loop for every pattern item.
MatchLoop(ms, s, p) ==
    LET c == Ch(ms.pat, p)
        d == Ch(ms.pat, p + 1)
    IN CASE p = Len(ms.pat) -> Result(ms, s)
         [] c = "(" -> StartCapture(ms, s, IF d = ")" THEN p + 2 ELSE p + 1,
                                    IF d = ")" THEN CapPosition ELSE CapUnfinished)
         [] c = ")" -> EndCapture(ms, s, p + 1)
         [] c = "$" /\ p + 1 = Len(ms.pat) -> Result(ms, IF s = Len(ms.src) THEN s ELSE NoMatch)
         [] c = "%" /\ d \in {"b"} \cup DOMAIN Digits ->
              Then(ms, IF d = "b" THEN MatchBalance(ms, s, p + 2) ELSE MatchCapture(ms, s, Digits[d]),
                   IF d = "b" THEN p + 4 ELSE p + 2)
         [] c = "%" /\ d = "f" -> Frontier(ms, s, p + 2)
         [] c # "" /\ c \notin {"(", ")"} /\ ~(c = "$" /\ p + 1 = Len(ms.pat))
            /\ ~(c = "%" /\ d \in {"b", "f"} \cup DOMAIN Digits) -> Default(ms, s, p)

\* match: the depth is restored when the call returns.
MatchAt(ms, s, p) ==
    IF ms.depth = 1 THEN Result(ms, Raised)
    ELSE [MatchLoop([ms EXCEPT !.depth = @ - 1], s, p) EXCEPT !.depth = ms.depth]

-----------------------------------------------------------------------------
(***************************************************************************)
(* The functions of the library, over one subject.                         *)
(***************************************************************************)

\* A position as text: one character, a numeral beyond the model's digit.
PositionText(n) == <<<<"0", "1", "2", "3", "4", "5", "6", "7">>[n + 1]>>

Broken == "an error in place of text"

\* oneCapture: the text or the position of a capture.
OneCapture(ms, i, s, e) ==
    IF i >= ms.level THEN Slice(ms.src, s, e)
    ELSE LET cap == ms.capture[i] IN
         CASE cap.len = CapPosition -> PositionText(cap.init + 1)
           [] cap.len = CapUnfinished -> <<Broken>>
           [] OTHER -> Slice(ms.src, cap.init, cap.init + cap.len)

Captures(ms, s, e, whole) ==
    LET n == IF ms.level = 0 /\ whole THEN 1 ELSE ms.level IN
    [i \in 1 .. n |-> OneCapture(ms, i - 1, s, e)]

Unfinished(ms) == \E i \in 0 .. ms.level - 1 : ms.capture[i].len = CapUnfinished

Anchored(pat) == Ch(pat, 0) = "^"
PatternStart(pat) == IF Anchored(pat) THEN 1 ELSE 0

Fresh(ms) == [ms EXCEPT !.level = 0, !.depth = MaxMatchDepth]

\* strFindAux: the first offset at which the pattern matches.
RECURSIVE FindFrom(_, _)
FoundOrNext(m, s1) ==
    CASE m.res = Raised \/ (m.res # NoMatch /\ Unfinished(m)) -> Error
      [] m.res # NoMatch /\ m.res # Raised /\ ~Unfinished(m) ->
           [from |-> s1, to |-> m.res, caps |-> Captures(m, s1, m.res, TRUE)]
      [] OTHER -> IF s1 + 1 > Len(m.src) \/ Anchored(m.pat) THEN Nothing ELSE FindFrom(m, s1 + 1)

FindFrom(ms, s1) == FoundOrNext(MatchAt(Fresh(ms), s1, PatternStart(ms.pat)), s1)

StrRelIndex(pos, l) == IF pos >= 0 THEN pos ELSE IF -pos > l THEN 0 ELSE l + pos + 1

\* A pattern without special characters is searched for as it stands.
NoSpecials(pat) == Range(pat) \cap {"^", "$", "*", "+", "?", ".", "(", "[", "%", "-"} = {}

PlainFind(src, pat, init) ==
    LET found == {i \in init .. Len(src) - Len(pat) : Slice(src, i, i + Len(pat)) = pat}
        first == CHOOSE i \in found : \A j \in found : i <= j
    IN IF found = {} THEN Nothing
       ELSE [from |-> first, to |-> first + Len(pat), caps |-> <<pat>>]

\* find and match: what find pushes beside the captures, match leaves out.
StrFindAux(src, pat, pos, find) ==
    LET rel == StrRelIndex(pos, Len(src)) - 1
        init == IF rel < 0 THEN 0 ELSE rel
    IN CASE init > Len(src) -> Nothing
         [] init <= Len(src) /\ find /\ NoSpecials(pat) -> PlainFind(src, pat, init)
         [] OTHER -> FindFrom(NewMatchState(src, pat), init)

\* gsubReplace: the text for one match and whether it was replaced.  A table
\* or a function is what it answers for a first capture.
RECURSIVE Expand(_, _, _, _, _)
Expand(ms, s, e, r, i) ==
    CASE i >= Len(r) -> <<>>
      [] i < Len(r) /\ Ch(r, i) # "%" -> <<Ch(r, i)>> \o Expand(ms, s, e, r, i + 1)
      [] i < Len(r) /\ Ch(r, i) = "%" /\ Ch(r, i + 1) = "%" ->
           <<"%">> \o Expand(ms, s, e, r, i + 2)
      [] i < Len(r) /\ Ch(r, i) = "%" /\ Ch(r, i + 1) = "0" ->
           Slice(ms.src, s, e) \o Expand(ms, s, e, r, i + 2)
      [] i < Len(r) /\ Ch(r, i) = "%" /\ Ch(r, i + 1) \in DOMAIN Digits ->
           LET c == Digits[Ch(r, i + 1)] IN
           (IF c >= ms.level /\ c # 0 THEN <<Broken>> ELSE OneCapture(ms, c, s, e))
               \o Expand(ms, s, e, r, i + 2)
      [] OTHER -> IF i + 1 = Len(r) THEN <<>> ELSE <<Broken>>

GsubReplace(ms, s, e, repl) ==
    LET answer == repl.answers[OneCapture(ms, 0, s, e)] IN
    CASE repl.kind = "string" -> [text |-> Expand(ms, s, e, repl.chars, 0), changed |-> TRUE]
      [] repl.kind = "table" /\ OneCapture(ms, 0, s, e) \in DOMAIN repl.answers ->
           [text |-> answer, changed |-> TRUE]
      [] repl.kind = "table" /\ OneCapture(ms, 0, s, e) = <<Broken>> ->
           [text |-> <<Broken>>, changed |-> FALSE]
      [] OTHER -> [text |-> Slice(ms.src, s, e), changed |-> FALSE]

Repeats(e, lastmatch) == e = lastmatch

\* strGsub: `out' is the text built, the count, and whether it changed.
RECURSIVE GsubFrom(_, _, _, _, _, _)
\* An anchored pattern is tried once.
Onward(m, src, lastmatch, maxN, repl, out) ==
    IF Anchored(m.pat) THEN out ELSE GsubFrom(m, src, lastmatch, maxN, repl, out)

Replaced(m, maxN, repl, out, rep) ==
    IF Broken \in Range(rep.text) THEN Error
    ELSE Onward(m, m.res, m.res, maxN, repl,
                [text |-> out.text \o rep.text, count |-> out.count + 1,
                 changed |-> out.changed \/ rep.changed, rest |-> m.res])

GsubStep(m, src, lastmatch, maxN, repl, out) ==
    CASE m.res = Raised -> Error
      [] m.res \notin {Raised, NoMatch} /\ ~Repeats(m.res, lastmatch) ->
           Replaced(m, maxN, repl, out, GsubReplace(m, src, m.res, repl))
      [] OTHER -> IF src >= Len(m.src) THEN out
                  ELSE Onward(m, src + 1, lastmatch, maxN, repl,
                              [out EXCEPT !.text = Append(@, Ch(m.src, src)), !.rest = src + 1])

GsubFrom(ms, src, lastmatch, maxN, repl, out) ==
    IF out.count >= maxN THEN out
    ELSE GsubStep(MatchAt(Fresh(ms), src, PatternStart(ms.pat)), src, lastmatch, maxN, repl, out)

\* The original string when no replacement changed it.
GsubResult(src, out) ==
    CASE out = Error -> Error
      [] out # Error /\ ~out.changed -> [text |-> src, count |-> out.count]
      [] OTHER -> [text |-> out.text \o Slice(src, out.rest, Len(src)), count |-> out.count]

StrGsub(src, pat, repl, maxN) ==
    GsubResult(src, GsubFrom(NewMatchState(src, pat), 0, -1, maxN, repl,
                             [text |-> <<>>, count |-> 0, changed |-> FALSE, rest |-> 0]))

\* strGmatch: the iterator from a start offset, until it returns nothing.
RECURSIVE GmatchFrom(_, _, _, _)
GmatchStep(m, src, lastmatch, done) ==
    CASE m.res = Raised -> Error
      [] m.res \notin {Raised, NoMatch, lastmatch} ->
           IF Unfinished(m) THEN Error
           ELSE GmatchFrom(m, m.res, m.res, Append(done, [from |-> src, to |-> m.res,
                                                          caps |-> Captures(m, src, m.res, TRUE)]))
      [] OTHER -> GmatchFrom(m, src + 1, lastmatch, done)

GmatchFrom(ms, src, lastmatch, done) ==
    IF src > Len(ms.src) THEN done
    ELSE GmatchStep(MatchAt(Fresh(ms), src, 0), src, lastmatch, done)

\* A start before the subject is taken for one after it.
StrGmatch(src, pat, pos) ==
    LET l == Len(src)
        rel == CASE pos > 0 -> pos [] pos <= 0 /\ -pos > l -> 0 [] OTHER -> l + pos + 1
        init == IF rel - 1 < 0 \/ rel - 1 > l THEN l + 1 ELSE rel - 1
    IN GmatchFrom(NewMatchState(src, pat), init, -1, <<>>)
-----------------------------------------------------------------------------
(***************************************************************************)
(* What patterns mean.  A pattern is a sequence of items, written out for  *)
(* the matcher; an item is a class with a suffix, a capture bracket, a     *)
(* back reference, `%b', `%f' or the final `$'.  Matches lists every way   *)
(* in which items match from an offset, in order of preference.            *)
(***************************************************************************)
Spell(item) ==
    CASE item.i = "class" -> item.chars \o (IF item.suffix = "" THEN <<>> ELSE <<item.suffix>>)
      [] item.i = "open" -> <<"(">>
      [] item.i = "close" -> <<")">>
      [] item.i = "position" -> <<"(", ")">>
      [] item.i = "back" -> <<"%", item.digit>>
      [] item.i = "balance" -> <<"%", "b", "a", "b">>
      [] item.i = "frontier" -> <<"%", "f">> \o item.chars
      [] item.i = "end" -> <<"$">>

SpellAll(items) == FoldLeft(LAMBDA acc, x : acc \o Spell(x), <<>>, items)

\* Captures so far: records of a start, an end (-1 while open) and a kind.
OpenCap(caps) ==
    LET o == {i \in DOMAIN caps : caps[i].to = -1} IN CHOOSE i \in o : \A j \in o : j <= i

\* The shortest balanced piece that starts at s.
Depth(src, s, n) == Cardinality({j \in s .. s + n - 1 : Ch(src, j) = "a"})
                    - Cardinality({j \in s .. s + n - 1 : Ch(src, j) = "b"})
BalancedEnds(src, s) ==
    {n \in 1 .. Len(src) - s : Ch(src, s) = "a" /\ Depth(src, s, n) = 0}

RECURSIVE Matches(_, _, _, _)
\* Every way in which `n' repetitions of a class are followed by the rest.
After(src, items, s, caps) == Matches(src, Tail(items), s, caps)

Matches(src, items, s, caps) ==
    IF items = <<>> THEN <<[to |-> s, caps |-> caps]>>
    ELSE
    LET it == Head(items)
        accepted(n) == s + n <= Len(src) /\ \A j \in 0 .. n - 1 : Ch(src, s + j) \in it.accepts
        counts == CASE it.suffix = "" -> {1} [] it.suffix = "?" -> {0, 1}
                    [] it.suffix = "+" -> 1 .. Len(src) [] OTHER -> 0 .. Len(src)
        possible == SetToSortSeq({n \in counts : accepted(n)},
                                 LAMBDA x, y : IF it.suffix = "-" THEN x < y ELSE x > y)
        back == caps[IF it.digit = "1" THEN 1 ELSE 2]
        width == back.to - back.from
        ends == BalancedEnds(src, s)
        least == CHOOSE n \in ends : \A k \in ends : n <= k
        before == IF s = 0 THEN "" ELSE Ch(src, s - 1)
    IN CASE it.i = "class" ->
              FoldLeft(LAMBDA acc, n : acc \o After(src, items, s + n, caps), <<>>, possible)
         [] it.i = "open" ->
              After(src, items, s, Append(caps, [from |-> s, to |-> -1, kind |-> "text"]))
         [] it.i = "position" ->
              After(src, items, s, Append(caps, [from |-> s, to |-> s, kind |-> "position"]))
         [] it.i = "close" -> After(src, items, s, [caps EXCEPT ![OpenCap(caps)].to = s])
         [] it.i = "back" ->
              IF s + width <= Len(src) /\ Slice(src, s, s + width) = Slice(src, back.from, back.to)
              THEN After(src, items, s + width, caps) ELSE <<>>
         [] it.i = "balance" ->
              IF ends = {} THEN <<>> ELSE After(src, items, s + least, caps)
         [] it.i = "frontier" ->
              IF before \notin it.accepts /\ Ch(src, s) \in it.accepts
              THEN After(src, items, s, caps) ELSE <<>>
         [] it.i = "end" -> IF s = Len(src) THEN After(src, items, s, caps) ELSE <<>>

Piece(src, s, m) ==
    [from |-> s, to |-> m.to,
     caps |-> IF m.caps = <<>> THEN <<Slice(src, s, m.to)>>
              ELSE [i \in DOMAIN m.caps |->
                      IF m.caps[i].kind = "position" THEN PositionText(m.caps[i].from + 1)
                      ELSE Slice(src, m.caps[i].from, m.caps[i].to)]]

MatchesAt(src, items, s) == Matches(src, items, s, <<>>)

\* The leftmost match at or after an offset, the preferred one there.
PreferredAt(src, items, i) == Piece(src, i, MatchesAt(src, items, i)[1])
First(starts) == CHOOSE x \in starts : \A y \in starts : x <= y

LeftmostOf(src, items, starts) ==
    IF starts = {} THEN Nothing ELSE PreferredAt(src, items, First(starts))

Leftmost(src, items, s) ==
    LeftmostOf(src, items, {i \in s .. Len(src) : MatchesAt(src, items, i) # <<>>})

\* Successive matches: each is the preferred one at the first offset, from
\* the end of the previous match on, where it does not end with that match.
RECURSIVE Successive(_, _, _, _)
AndThen(src, items, m) == <<m>> \o Successive(src, items, m.to, m.to)

EndsElsewhere(found, last) == found # <<>> /\ found[1].to # last

FromFirst(src, items, good) ==
    IF good = {} THEN <<>> ELSE AndThen(src, items, PreferredAt(src, items, First(good)))

Successive(src, items, s, last) ==
    FromFirst(src, items, {i \in s .. Len(src) : EndsElsewhere(MatchesAt(src, items, i), last)})

\* A replacement string as parts: characters, captures and percent signs.
SpellPart(p) == IF p.part = "text" THEN <<p.char>> ELSE <<"%", p.char>>
SpellParts(parts) == FoldLeft(LAMBDA acc, p : acc \o SpellPart(p), <<>>, parts)

PartText(src, m, p) ==
    CASE p.part = "text" -> <<p.char>>
      [] p.part = "percent" -> <<"%">>
      [] p.part = "whole" -> Slice(src, m.from, m.to)
      [] p.part = "capture" -> m.caps[1]

Replacement(src, m, repl) ==
    IF repl.kind = "string"
    THEN FoldLeft(LAMBDA acc, p : acc \o PartText(src, m, p), <<>>, repl.parts)
    ELSE IF m.caps[1] \in DOMAIN repl.answers THEN repl.answers[m.caps[1]]
    ELSE Slice(src, m.from, m.to)

\* The text with the first maxN successive matches replaced by `by'.
FirstOf(all, maxN) == SubSeq(all, 1, IF Len(all) < maxN THEN Len(all) ELSE maxN)

ReplacedAll(src, pieces, by(_)) ==
    LET done == FoldLeft(LAMBDA acc, m : [text |-> acc.text \o Slice(src, acc.at, m.from) \o by(m),
                                          at |-> m.to],
                         [text |-> <<>>, at |-> 0], pieces)
    IN [text |-> done.text \o Slice(src, done.at, Len(src)), count |-> Len(pieces)]

Substituted(src, items, maxN, by(_)) ==
    ReplacedAll(src, FirstOf(Successive(src, items, 0, -1), maxN), by)
=============================================================================
