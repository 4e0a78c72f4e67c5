------------------------------- MODULE Words --------------------------------
(***************************************************************************)
(* Integer arithmetic of the virtual machine, src/lua/lvm_arith.go and the *)
(* numeric for loop of src/lua/lvm.go, on words of W bits: the code's      *)
(* words have 64.  Every operator takes and returns signed words; Go's     *)
(* conversions to and from uint64 are Unsigned and Signed.                 *)
(***************************************************************************)
EXTENDS Integers, Sequences

CONSTANT W   \* bits of a word

ASSUME WAssumption == W \in Nat \ {0, 1}

MinInt == -(2 ^ (W - 1))
MaxInt == 2 ^ (W - 1) - 1
Ints == MinInt .. MaxInt

Unsigned(i) == i % 2 ^ W
Signed(u) == IF u > MaxInt THEN u - 2 ^ W ELSE u
Wrap(n) == Signed(n % 2 ^ W)

IAdd(a, b) == Wrap(a + b)
ISub(a, b) == Wrap(a - b)
IMul(a, b) == Wrap(a * b)

Abs(n) == IF n < 0 THEN -n ELSE n

\* Go's / and %: the quotient is truncated towards zero.
Quo(m, n) == LET q == Abs(m) \div Abs(n) IN IF (m < 0) # (n < 0) THEN -q ELSE q
Rem(m, n) == m - n * Quo(m, n)

IntMod(m, n) ==
    IF n = -1 THEN 0
    ELSE LET r == Rem(m, n) IN
         IF r # 0 /\ (r < 0) # (n < 0) THEN r + n ELSE r

\* Mutant: the quotient of different signs is rounded down though it is exact.
IntIDivRounds(m, n) ==
    IF n = -1 THEN ISub(0, m)
    ELSE LET q == Quo(m, n) IN IF (m < 0) # (n < 0) THEN q - 1 ELSE q

IntIDiv(m, n) ==
    IF n = -1 THEN ISub(0, m)
    ELSE LET q == Quo(m, n) IN
         IF (m < 0) # (n < 0) /\ Rem(m, n) # 0 THEN q - 1 ELSE q

\* A negative count shifts right; the shift is logical.
ShiftL(x, y) ==
    IF y < 0
    THEN IF y <= -W THEN 0 ELSE Signed(Unsigned(x) \div 2 ^ (-y))
    ELSE IF y >= W THEN 0 ELSE Wrap(x * 2 ^ y)

\* iShr: the count is negated as a word, so the least one stays negative.
ShiftR(x, y) == ShiftL(x, Wrap(-y))

(***************************************************************************)
(* The integer for loop.  forlimit clips the limit and forprep computes    *)
(* how many times the body runs again, as an unsigned word; forloop counts *)
(* it down and adds the step as words.  A float limit is given by what the *)
(* code asks of it: its rounding (towards init) if that is a word, and its *)
(* sign otherwise.  A step of zero is refused before anything else.        *)
(***************************************************************************)
Limits == [word : {TRUE}, value : Ints] \cup [word : {FALSE}, value : {-1, 1}]

Clip(limit, step) ==
    IF limit.word THEN limit.value ELSE IF limit.value > 0 THEN MaxInt ELSE MinInt

Skips(init, limit, step) ==
    IF ~limit.word /\ (limit.value > 0) # (step > 0) THEN TRUE
    ELSE IF step > 0 THEN init > Clip(limit, step) ELSE init < Clip(limit, step)

StepSize(step) == IF step > 0 THEN step ELSE Unsigned(Wrap(-(step + 1))) + 1

\* Mutant: the distance is computed as a signed word.
DistanceSigned(high, low) == Abs(Wrap(high - low))

Distance(high, low) == Unsigned(high - low)

ForCount(init, limit, step) ==
    LET last == Clip(limit, step) IN
    (IF step > 0 THEN Distance(last, init) ELSE Distance(init, last)) \div StepSize(step)

\* The control variable after each number of turns, and the values it takes.
ForIndex(init, count, step) ==
    LET index[n \in 0 .. count] == IF n = 0 THEN init ELSE IAdd(index[n - 1], step)
    IN index

ForValues(init, limit, step) ==
    IF Skips(init, limit, step) THEN <<>>
    ELSE LET count == ForCount(init, limit, step)
             index == ForIndex(init, count, step)
         IN [k \in 1 .. count + 1 |-> index[k - 1]]
=============================================================================
