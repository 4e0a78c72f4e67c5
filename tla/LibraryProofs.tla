---------------------------- MODULE LibraryProofs ----------------------------
(***************************************************************************)
(* Proofs about Sort, for any number of items and any order function, and  *)
(* about PureCalls: integer arithmetic, the numeric for loop and the       *)
(* functions of the table library, for words of any size, and the utf8     *)
(* functions, for any bytes and any text.                                  *)
(***************************************************************************)
EXTENDS Sort, PureCalls, SequenceTheorems, FiniteSetTheorems, WellFoundedInduction, TLAPS

-----------------------------------------------------------------------------
(* table.sort. *)

\* table.sort of integers, with an order function that is < or answers anything.
SortSpec ==
    /\ \E a \in Seq(Int), honest \in BOOLEAN : SortInit(a, honest)
    /\ [][SortStep]_sortVars

-----------------------------------------------------------------------------
(* Ranges and the order among the items. *)

Bounds == [lo : Int, up : Int]

\* The ranges lie within n items, apart from each other.
Apart(rs, n) ==
    /\ rs \in Seq(Bounds)
    /\ \A k \in DOMAIN rs : 1 <= rs[k].lo /\ rs[k].up <= n
    /\ \A k, l \in DOMAIN rs : k # l => rs[k].up < rs[l].lo \/ rs[l].up < rs[k].lo

\* Items that are not in order are in one range still to be sorted.
OnlyWithin(a, rs) ==
    \A p, q \in 1 .. Len(a) : p < q =>
        a[p] <= a[q] \/ \E k \in DOMAIN rs : rs[k].lo <= p /\ q <= rs[k].up

\* The items from p to q are at most (at least) x.
AtMost(a, p, q, x) == \A k \in p .. q : a[k] <= x
AtLeast(a, p, q, x) == \A k \in p .. q : a[k] >= x

-----------------------------------------------------------------------------
(* The invariant. *)

SortTypes ==
    /\ items \in Seq(Int) /\ given \in Seq(Int) /\ Len(items) = Len(given)
    /\ faithful \in BOOLEAN
    /\ Apart(ranges, Len(items))
    /\ scan \in [i : Int, j : Int]
    /\ sortPc \in {"range", "ends", "middle", "upper", "left", "right", "sorted", "invalid"}

\* The items are swapped and nothing else, and stored when the sort is over.
ItemsKept ==
    /\ \A x : Count(items, x) = Count(given, x)
    /\ table = given \/ (sortPc = "sorted" /\ table = items)

\* The size of the current range and the positions of the scans.
Placed ==
    /\ sortPc \in {"ends", "middle", "upper", "left", "right"} =>
           ranges # <<>> /\ Lo < Up
    /\ sortPc \in {"middle", "upper"} => Up - Lo >= 2
    /\ sortPc \in {"left", "right"} =>
           /\ Up - Lo >= 3
           /\ Lo < scan.i /\ scan.i < Up
    /\ sortPc = "left" => Lo < scan.j /\ scan.j < Up
    /\ sortPc = "right" => Lo <= scan.j /\ scan.j < Up - 1

\* With an order: the ends and the middle item as far as they were compared,
\* and what the scans have passed.
Partitioned ==
    /\ sortPc \in {"middle", "upper"} => items[Lo] <= items[Up]
    /\ sortPc = "upper" => items[Lo] <= items[Middle]
    /\ sortPc \in {"left", "right"} => AtMost(items, Lo, scan.i - 1, Pivot)
    /\ sortPc = "left" => AtLeast(items, scan.j, Up, Pivot)
    /\ sortPc = "right" => /\ AtLeast(items, scan.j + 1, Up, Pivot)
                           /\ items[scan.i] >= Pivot

Sorting ==
    /\ sortPc # "invalid"
    /\ IF sortPc = "sorted" THEN table = items /\ OnlyWithin(items, <<>>)
       ELSE OnlyWithin(items, ranges)
    /\ Partitioned

SortInv == SortTypes /\ ItemsKept /\ Placed /\ (faithful => Sorting)
-----------------------------------------------------------------------------
(* Operations on ranges and items. *)

LEMMA ApartTail ==
    ASSUME NEW rs, NEW n \in Nat, Apart(rs, n), rs # <<>>
    PROVE  /\ Apart(Tail(rs), n)
           /\ \A k \in DOMAIN Tail(rs) : k + 1 \in DOMAIN rs /\ Tail(rs)[k] = rs[k + 1]
           /\ \A k \in DOMAIN rs : k = 1 \/ (k - 1 \in DOMAIN Tail(rs) /\ rs[k] = Tail(rs)[k - 1])
           /\ 1 \in DOMAIN rs /\ rs[1] \in Bounds
<1>1. rs \in Seq(Bounds) /\ Len(rs) \in Nat \ {0} /\ DOMAIN rs = 1 .. Len(rs)
    BY LenProperties, EmptySeq DEF Apart
<1>2. /\ Tail(rs) \in Seq(Bounds) /\ Len(Tail(rs)) = Len(rs) - 1
      /\ \A k \in 1 .. Len(Tail(rs)) : Tail(rs)[k] = rs[k + 1]
    BY <1>1, HeadTailProperties
<1>3. DOMAIN Tail(rs) = 1 .. Len(rs) - 1
    BY <1>2, LenProperties
<1>4. \A k \in DOMAIN Tail(rs) : k + 1 \in DOMAIN rs /\ Tail(rs)[k] = rs[k + 1]
    BY <1>1, <1>2, <1>3
<1>5. Apart(Tail(rs), n)
    <2>1. \A k \in DOMAIN Tail(rs) : 1 <= Tail(rs)[k].lo /\ Tail(rs)[k].up <= n
        BY <1>4 DEF Apart
    <2>2. \A k, l \in DOMAIN Tail(rs) : k # l => k + 1 # l + 1
        BY <1>1, <1>3
    <2>3. \A k, l \in DOMAIN Tail(rs) : k # l =>
              Tail(rs)[k].up < Tail(rs)[l].lo \/ Tail(rs)[l].up < Tail(rs)[k].lo
        BY <1>4, <2>2 DEF Apart
    <2> QED
        BY <1>2, <2>1, <2>3 DEF Apart
<1>6. \A k \in DOMAIN rs : k = 1 \/ (k - 1 \in DOMAIN Tail(rs) /\ rs[k] = Tail(rs)[k - 1])
    BY <1>1, <1>2, <1>3
<1>7. 1 \in DOMAIN rs /\ rs[1] \in Bounds
    BY <1>1, ElementOfSeq
<1> QED
    BY <1>4, <1>5, <1>6, <1>7

\* b is a with two items exchanged.
Exchanged(b, a, i, j) ==
    \A k \in 1 .. Len(a) : b[k] = IF k = j THEN a[i] ELSE IF k = i THEN a[j] ELSE a[k]

\* A swap exchanges two items, and loses or duplicates none.
LEMMA SwapItems ==
    ASSUME NEW a \in Seq(Int), NEW i \in 1 .. Len(a), NEW j \in 1 .. Len(a)
    PROVE  /\ Swapped(a, i, j) \in Seq(Int) /\ Len(Swapped(a, i, j)) = Len(a)
           /\ Exchanged(Swapped(a, i, j), a, i, j)
<1>1. Len(a) \in Nat /\ DOMAIN a = 1 .. Len(a) /\ a[i] \in Int /\ a[j] \in Int
    BY LenProperties, ElementOfSeq
<1> DEFINE b == [a EXCEPT ![i] = a[j]]
<1>2. b \in Seq(Int) /\ Len(b) = Len(a) /\ DOMAIN b = DOMAIN a
    BY <1>1, ExceptSeq
<1>3. \A k \in 1 .. Len(a) : b[k] = IF k = i THEN a[j] ELSE a[k]
    BY <1>1
<1>4. Swapped(a, i, j) = [b EXCEPT ![j] = a[i]]
    BY DEF Swapped
<1> HIDE DEF b
<1>5. /\ [b EXCEPT ![j] = a[i]] \in Seq(Int)
      /\ Len([b EXCEPT ![j] = a[i]]) = Len(a)
    BY <1>1, <1>2, ExceptSeq
<1>6. \A k \in 1 .. Len(a) :
          [b EXCEPT ![j] = a[i]][k] = IF k = j THEN a[i] ELSE b[k]
    BY <1>1, <1>2
<1> QED
    BY <1>3, <1>4, <1>5, <1>6 DEF Exchanged

LEMMA SwapCounts ==
    ASSUME NEW a \in Seq(Int), NEW i \in 1 .. Len(a), NEW j \in 1 .. Len(a), NEW x
    PROVE  Count(Swapped(a, i, j), x) = Count(a, x)
<1> DEFINE b == Swapped(a, i, j)
           S == {k \in DOMAIN a : a[k] = x}
           T == {k \in DOMAIN b : b[k] = x}
           f == [k \in S |-> IF k = i THEN j ELSE IF k = j THEN i ELSE k]
<1>1. Len(a) \in Nat /\ DOMAIN a = 1 .. Len(a)
    BY LenProperties
<1>2. /\ DOMAIN b = 1 .. Len(a)
      /\ \A k \in 1 .. Len(a) :
            b[k] = IF k = j THEN a[i] ELSE IF k = i THEN a[j] ELSE a[k]
    <2>1. b \in Seq(Int) /\ Len(b) = Len(a) /\ Exchanged(b, a, i, j)
        BY SwapItems
    <2> HIDE DEF b
    <2>2. DOMAIN b = 1 .. Len(b)
        BY <2>1, LenProperties
    <2> QED
        BY <2>1, <2>2, Zenon DEF Exchanged
<1>3. IsFiniteSet(S)
    <2>1. IsFiniteSet(1 .. Len(a)) /\ S \subseteq 1 .. Len(a)
        BY <1>1, FS_Interval
    <2> QED
        BY <2>1, FS_Subset
<1> HIDE DEF b
<1>4. f \in Bijection(S, T)
    <2>1. f \in [S -> T]
        BY <1>1, <1>2
    <2>2. \A k, l \in S : f[k] = f[l] => k = l
        OBVIOUS
    <2>3. \A m \in T : \E k \in S : f[k] = m
        <3> SUFFICES ASSUME NEW m \in T PROVE \E k \in S : f[k] = m
            OBVIOUS
        <3>1. CASE m = j
            BY <1>1, <1>2, <3>1
        <3>2. CASE m = i /\ m # j
            BY <1>1, <1>2, <3>2
        <3>3. CASE m # i /\ m # j
            BY <1>1, <1>2, <3>3
        <3> QED
            BY <3>1, <3>2, <3>3
    <2> QED
        BY <2>1, <2>2, <2>3 DEF Bijection, Injection, Surjection, IsInjective
<1>5. ExistsBijection(S, T)
    BY <1>4 DEF ExistsBijection
<1>6. Cardinality(T) = Cardinality(S)
    BY <1>3, <1>5, FS_Bijection
<1> QED
    BY <1>6 DEF Count, b

\* Swapping two items of one range leaves the items outside in order with it.
LEMMA SwapWithin ==
    ASSUME NEW a \in Seq(Int), NEW rs, Apart(rs, Len(a)), rs # <<>>, OnlyWithin(a, rs),
           NEW i \in rs[1].lo .. rs[1].up, NEW j \in rs[1].lo .. rs[1].up
    PROVE  OnlyWithin(Swapped(a, i, j), rs)
<1> DEFINE b == Swapped(a, i, j)
           lo == rs[1].lo
           up == rs[1].up
<1>1. /\ 1 \in DOMAIN rs /\ rs[1] \in Bounds /\ 1 <= lo /\ up <= Len(a) /\ Len(a) \in Nat
      /\ \A k \in DOMAIN rs : rs[k] \in Bounds
    BY ApartTail, LenProperties, ElementOfSeq DEF Apart
<1>2. lo \in Int /\ up \in Int /\ \A k \in DOMAIN rs : rs[k].lo \in Int /\ rs[k].up \in Int
    BY <1>1 DEF Bounds
<1>3. i \in 1 .. Len(a) /\ j \in 1 .. Len(a)
    BY <1>1, <1>2
<1>4. Len(b) = Len(a) /\ Exchanged(b, a, i, j)
    BY <1>3, SwapItems, Zenon
<1> HIDE DEF b
<1>5. ASSUME NEW k \in 1 .. Len(a)
      PROVE  \E f \in 1 .. Len(a) : b[k] = a[f] /\ (f = k \/ (k \in lo .. up /\ f \in lo .. up))
    <2>1. CASE k = j
        BY <1>3, <1>4, <2>1 DEF Exchanged
    <2>2. CASE k = i /\ k # j
        BY <1>3, <1>4, <2>2 DEF Exchanged
    <2>3. CASE k # i /\ k # j
        BY <1>4, <2>3 DEF Exchanged
    <2> QED
        BY <2>1, <2>2, <2>3
<1> SUFFICES ASSUME NEW p \in 1 .. Len(a), NEW q \in 1 .. Len(a), p < q,
                    ~\E k \in DOMAIN rs : rs[k].lo <= p /\ q <= rs[k].up
             PROVE  b[p] <= b[q]
    BY <1>4 DEF OnlyWithin, b
<1>6. PICK f \in 1 .. Len(a) : b[p] = a[f] /\ (f = p \/ (p \in lo .. up /\ f \in lo .. up))
    BY <1>5
<1>7. PICK g \in 1 .. Len(a) : b[q] = a[g] /\ (g = q \/ (q \in lo .. up /\ g \in lo .. up))
    BY <1>5
<1>8. ~(lo <= p /\ q <= up)
    BY <1>1
<1> HIDE DEF lo, up
<1>9. f < g
    BY <1>2, <1>6, <1>7, <1>8
<1>10. ASSUME NEW k \in DOMAIN rs, rs[k].lo <= f, g <= rs[k].up
      PROVE  FALSE
    <2>1. CASE k = 1
        <3>1. lo <= f /\ g <= up
            BY <1>10, <2>1 DEF lo, up
        <3> QED
            BY <1>2, <1>6, <1>7, <1>8, <3>1
    <2>2. CASE k # 1
        <3>1. rs[k].up < lo \/ up < rs[k].lo
            BY <1>1, <2>2 DEF Apart, lo, up
        <3>2. ~(rs[k].lo <= p /\ q <= rs[k].up)
            OBVIOUS
        <3>3. rs[k].lo \in Int /\ rs[k].up \in Int
            BY <1>2
        <3>4. CASE rs[k].up < lo
            <4>1. f < lo /\ g < lo
                BY <1>2, <1>9, <1>10, <3>3, <3>4, SMTT(30)
            <4>2. f \notin lo .. up /\ g \notin lo .. up
                BY <1>2, <4>1
            <4>3. f = p /\ g = q
                BY <1>6, <1>7, <4>2
            <4> QED
                BY <1>10, <3>2, <4>3
        <3>5. CASE up < rs[k].lo
            <4>1. up < f /\ up < g
                BY <1>2, <1>9, <1>10, <3>3, <3>5, SMTT(30)
            <4>2. f \notin lo .. up /\ g \notin lo .. up
                BY <1>2, <4>1
            <4>3. f = p /\ g = q
                BY <1>6, <1>7, <4>2
            <4> QED
                BY <1>10, <3>2, <4>3
        <3> QED
            BY <3>1, <3>4, <3>5
    <2> QED
        BY <2>1, <2>2
<1>11. a[f] <= a[g]
    BY <1>9, <1>10 DEF OnlyWithin
<1> QED
    BY <1>6, <1>7, <1>11

\* A range in order is done.
LEMMA LeaveOrdered ==
    ASSUME NEW a \in Seq(Int), NEW rs, Apart(rs, Len(a)), rs # <<>>, OnlyWithin(a, rs),
           \A p, q \in rs[1].lo .. rs[1].up : p < q => a[p] <= a[q]
    PROVE  OnlyWithin(a, Tail(rs))
<1>1. rs[1] \in Bounds /\ Len(a) \in Nat
    BY ApartTail, LenProperties
<1> SUFFICES ASSUME NEW p \in 1 .. Len(a), NEW q \in 1 .. Len(a), p < q, ~(a[p] <= a[q])
             PROVE  \E k \in DOMAIN Tail(rs) : Tail(rs)[k].lo <= p /\ q <= Tail(rs)[k].up
    BY DEF OnlyWithin
<1>2. PICK k \in DOMAIN rs : rs[k].lo <= p /\ q <= rs[k].up
    BY DEF OnlyWithin
<1>3. k # 1
    <2>1. SUFFICES ASSUME k = 1 PROVE FALSE
        OBVIOUS
    <2>2. rs[1].lo \in Int /\ rs[1].up \in Int
        BY <1>1 DEF Bounds
    <2>3. p \in rs[1].lo .. rs[1].up /\ q \in rs[1].lo .. rs[1].up
        BY <1>2, <2>1, <2>2
    <2> QED
        BY <2>3
<1>4. k - 1 \in DOMAIN Tail(rs) /\ rs[k] = Tail(rs)[k - 1]
    BY <1>1, <1>3, ApartTail, Zenon
<1> QED
    BY <1>2, <1>4

\* A range is split at an item that is not less than those before it and not
\* greater than those after it.
LEMMA SplitRange ==
    ASSUME NEW a, Len(a) \in Nat, NEW rs, Apart(rs, Len(a)), rs # <<>>, NEW m \in Int,
           rs[1].lo < m, m < rs[1].up, NEW l, NEW r,
           \/ /\ l = [lo |-> rs[1].lo, up |-> m - 1] /\ r = [lo |-> m + 1, up |-> rs[1].up]
           \/ /\ r = [lo |-> rs[1].lo, up |-> m - 1] /\ l = [lo |-> m + 1, up |-> rs[1].up]
    PROVE  /\ Apart(<<l, r>> \o Tail(rs), Len(a))
           /\ /\ a \in Seq(Int) /\ OnlyWithin(a, rs)
              /\ AtMost(a, rs[1].lo, m, a[m]) /\ AtLeast(a, m, rs[1].up, a[m])
              => OnlyWithin(a, <<l, r>> \o Tail(rs))
<1> DEFINE t == Tail(rs)
           s == <<l, r>> \o t
<1>1. /\ rs[1] \in Bounds /\ 1 \in DOMAIN rs /\ 1 <= rs[1].lo /\ rs[1].up <= Len(a)
      /\ Apart(t, Len(a))
      /\ \A k \in DOMAIN t : k + 1 \in DOMAIN rs /\ t[k] = rs[k + 1]
      /\ \A k \in DOMAIN rs : k = 1 \/ (k - 1 \in DOMAIN t /\ rs[k] = t[k - 1])
    BY ApartTail DEF Apart
<1>2. t \in Seq(Bounds) /\ Len(t) \in Nat /\ DOMAIN t = 1 .. Len(t)
    BY <1>1, LenProperties DEF Apart
<1>3. l \in Bounds /\ r \in Bounds /\ <<l, r>> \in Seq(Bounds) /\ Len(<<l, r>>) = 2
    BY <1>1 DEF Bounds
<1>4. /\ s \in Seq(Bounds) /\ Len(s) = 2 + Len(t)
      /\ \A k \in 1 .. Len(s) : s[k] = IF k <= 2 THEN <<l, r>>[k] ELSE t[k - 2]
    BY <1>2, <1>3, ConcatProperties
<1>5. DOMAIN s = 1 .. 2 + Len(t)
    BY <1>2, <1>4, LenProperties
<1> HIDE DEF t, s
<1>6. s[1] = l /\ s[2] = r /\ \A k \in DOMAIN t : k + 2 \in DOMAIN s /\ s[k + 2] = t[k]
    BY <1>2, <1>4, <1>5
<1>7. \A k \in DOMAIN s : k = 1 \/ k = 2 \/ (k - 2 \in DOMAIN t /\ s[k] = t[k - 2])
    BY <1>2, <1>4, <1>5
<1>8. \A k \in DOMAIN t : /\ t[k] \in Bounds
                          /\ t[k].up < rs[1].lo \/ rs[1].up < t[k].lo
    <2> SUFFICES ASSUME NEW k \in DOMAIN t
                 PROVE  t[k] \in Bounds /\ (t[k].up < rs[1].lo \/ rs[1].up < t[k].lo)
        OBVIOUS
    <2>1. k + 1 \in DOMAIN rs /\ k + 1 # 1 /\ t[k] = rs[k + 1]
        BY <1>1, <1>2
    <2>2. t[k] \in Bounds
        BY <1>2, ElementOfSeq
    <2> QED
        BY <1>1, <2>1, <2>2 DEF Apart
<1>9. Apart(s, Len(a))
    <2>1. \A k \in DOMAIN s : 1 <= s[k].lo /\ s[k].up <= Len(a)
        <3> SUFFICES ASSUME NEW k \in DOMAIN s PROVE 1 <= s[k].lo /\ s[k].up <= Len(a)
            OBVIOUS
        <3>1. CASE k \in {1, 2}
            BY <1>1, <1>6, <3>1 DEF Bounds
        <3>2. CASE k \notin {1, 2}
            BY <1>1, <1>7, <3>2 DEF Apart
        <3> QED
            BY <3>1, <3>2
    <2>2. ASSUME NEW k \in DOMAIN s, NEW n \in DOMAIN s, k < n
          PROVE  s[k].up < s[n].lo \/ s[n].up < s[k].lo
        <3>1. CASE n = 2
            BY <1>1, <1>5, <1>6, <2>2, <3>1 DEF Bounds
        <3>2. CASE n # 2 /\ k \in {1, 2}
            <4>1. n - 2 \in DOMAIN t /\ s[n] = t[n - 2]
                BY <1>5, <1>7, <2>2, <3>2
            <4>2. /\ s[n].lo \in Int /\ s[n].up \in Int
                  /\ s[n].up < rs[1].lo \/ rs[1].up < s[n].lo
                BY <1>8, <4>1 DEF Bounds
            <4>3. rs[1].lo <= s[k].lo /\ s[k].up <= rs[1].up /\ s[k] \in Bounds
                BY <1>1, <1>3, <1>6, <3>2 DEF Bounds
            <4> QED
                BY <1>1, <4>2, <4>3 DEF Bounds
        <3>3. CASE n # 2 /\ k \notin {1, 2}
            <4>1. k - 2 \in DOMAIN t /\ n - 2 \in DOMAIN t /\ k - 2 # n - 2
                BY <1>2, <1>5, <1>7, <2>2, <3>3
            <4>2. s[k] = t[k - 2] /\ s[n] = t[n - 2]
                BY <1>5, <1>7, <2>2, <3>3
            <4> QED
                BY <1>1, <4>1, <4>2 DEF Apart
        <3> QED
            BY <3>1, <3>2, <3>3
    <2>3. \A k, n \in DOMAIN s : k # n => k < n \/ n < k
        BY <1>5
    <2> QED
        BY <1>4, <2>1, <2>2, <2>3 DEF Apart
<1>10. ASSUME a \in Seq(Int), OnlyWithin(a, rs),
              AtMost(a, rs[1].lo, m, a[m]), AtLeast(a, m, rs[1].up, a[m])
       PROVE  OnlyWithin(a, s)
    <2> SUFFICES ASSUME NEW p \in 1 .. Len(a), NEW q \in 1 .. Len(a), p < q, ~(a[p] <= a[q])
                 PROVE  \E k \in DOMAIN s : s[k].lo <= p /\ q <= s[k].up
        BY DEF OnlyWithin
    <2>1. PICK k \in DOMAIN rs : rs[k].lo <= p /\ q <= rs[k].up
        BY <1>10 DEF OnlyWithin
    <2>2. CASE k # 1
        <3>1. k - 1 \in DOMAIN t /\ rs[k] = t[k - 1]
            BY <1>1, <2>2
        <3>2. (k - 1) + 2 \in DOMAIN s /\ s[(k - 1) + 2] = rs[k]
            BY <1>6, <3>1
        <3> QED
            BY <2>1, <3>2
    <2>3. CASE k = 1
        <3>1. a[p] \in Int /\ a[q] \in Int /\ a[m] \in Int
            BY <1>1, <1>10, ElementOfSeq DEF Bounds
        <3>2. ~(p <= m /\ m <= q)
            <4>1. SUFFICES ASSUME p <= m, m <= q PROVE FALSE
                OBVIOUS
            <4>2. p \in rs[1].lo .. m /\ q \in m .. rs[1].up
                BY <1>1, <2>1, <2>3, <4>1 DEF Bounds
            <4>3. a[p] <= a[m] /\ a[m] <= a[q]
                BY <1>10, <3>1, <4>2 DEF AtMost, AtLeast
            <4> QED
                BY <3>1, <4>3
        <3>3. 1 \in DOMAIN s /\ 2 \in DOMAIN s
            BY <1>2, <1>5
        <3> QED
            BY <1>1, <1>6, <2>1, <2>3, <3>2, <3>3 DEF Bounds
    <2> QED
        BY <2>2, <2>3
<1> QED
    BY <1>9, <1>10 DEF s, t
-----------------------------------------------------------------------------
(* One step of the sort. *)

\* The items may be replaced by b.
Moved(b) ==
    /\ b \in Seq(Int) /\ Len(b) = Len(items) /\ \A x : Count(b, x) = Count(items, x)
    /\ faithful => OnlyWithin(b, ranges)

\* What the steps leave alone.
Fixed == given' = given /\ faithful' = faithful

LEMMA CurrentRange ==
    ASSUME SortTypes, ranges # <<>>
    PROVE  /\ Lo \in Int /\ Up \in Int /\ 1 <= Lo /\ Up <= Len(items) /\ Len(items) \in Nat
           /\ ranges[1].lo = Lo /\ ranges[1].up = Up
<1>1. 1 \in DOMAIN ranges /\ ranges[1] \in Bounds /\ Len(items) \in Nat
    BY ApartTail, LenProperties DEF SortTypes
<1> QED
    BY <1>1 DEF SortTypes, Apart, Bounds, Lo, Up

LEMMA SwapMoves ==
    ASSUME SortTypes, ranges # <<>>, NEW b, Moved(b), NEW i \in Lo .. Up, NEW j \in Lo .. Up
    PROVE  /\ Moved(Swapped(b, i, j))
           /\ Exchanged(Swapped(b, i, j), b, i, j)
<1>1. /\ Len(items) \in Nat /\ b \in Seq(Int) /\ Len(b) = Len(items)
      /\ i \in 1 .. Len(b) /\ j \in 1 .. Len(b)
      /\ i \in ranges[1].lo .. ranges[1].up /\ j \in ranges[1].lo .. ranges[1].up
    BY CurrentRange DEF Moved
<1>2. Apart(ranges, Len(b))
    BY <1>1 DEF SortTypes
<1>3. /\ Swapped(b, i, j) \in Seq(Int) /\ Len(Swapped(b, i, j)) = Len(b)
      /\ Exchanged(Swapped(b, i, j), b, i, j)
    BY <1>1, SwapItems, Zenon
<1>4. \A x : Count(Swapped(b, i, j), x) = Count(items, x)
    <2> TAKE x
    <2>1. Count(Swapped(b, i, j), x) = Count(b, x)
        BY <1>1, SwapCounts
    <2> QED
        BY <2>1 DEF Moved
<1>5. ASSUME faithful PROVE OnlyWithin(Swapped(b, i, j), ranges)
    BY <1>1, <1>2, <1>5, SwapWithin DEF Moved
<1> QED
    BY <1>3, <1>4, <1>5 DEF Moved

\* The items themselves, and their integer values.
LEMMA ItemsMoved ==
    ASSUME SortInv, sortPc # "sorted"
    PROVE  Moved(items) /\ table = given
BY DEF SortInv, SortTypes, ItemsKept, Sorting, Moved

LEMMA MovedValues ==
    ASSUME SortTypes, NEW b, Moved(b)
    PROVE  \A k \in 1 .. Len(items) : b[k] \in Int
BY ElementOfSeq DEF Moved

\* The parts of the invariant that every step within the sort keeps.
LEMMA SortKept ==
    ASSUME SortInv, sortPc # "sorted", Fixed, table' = table, Moved(items')
    PROVE  /\ items' \in Seq(Int) /\ given' \in Seq(Int) /\ Len(items') = Len(given')
           /\ Len(items') = Len(items) /\ faithful' \in BOOLEAN
           /\ ItemsKept'
<1>1. table' = given'
    BY DEF SortInv, ItemsKept, Fixed
<1>2. \A x : Count(items', x) = Count(given', x)
    BY DEF SortInv, ItemsKept, Fixed, Moved
<1>3. ItemsKept'
    BY <1>1, <1>2 DEF ItemsKept
<1> QED
    BY <1>3 DEF SortInv, SortTypes, Fixed, Moved

\* The range is done: its items are in order.
LEMMA LeaveKeeps ==
    ASSUME SortInv, sortPc # "sorted", ranges # <<>>, Fixed, table' = table, scan' = scan,
           Moved(items'), ranges' = Tail(ranges), sortPc' = "range",
           faithful => \A p, q \in Lo .. Up : p < q => items'[p] <= items'[q]
    PROVE  SortInv'
<1>1. SortTypes /\ Len(items) \in Nat /\ Apart(ranges, Len(items))
    BY CurrentRange DEF SortInv, SortTypes
<1>2. SortTypes'
    <2>1. Apart(ranges', Len(items'))
        BY <1>1, ApartTail, SortKept
    <2> QED
        BY <1>1, <2>1, SortKept DEF SortTypes
<1>3. Placed' /\ Partitioned'
    BY DEF Placed, Partitioned
<1>4. ASSUME faithful PROVE Sorting'
    <2>1. OnlyWithin(items', ranges')
        BY <1>1, <1>4, LeaveOrdered, SortKept DEF Moved, Lo, Up
    <2> QED
        BY <1>3, <2>1 DEF Sorting
<1> QED
    BY <1>2, <1>3, <1>4, SortKept DEF SortInv, Fixed

\* A question more about the range.
LEMMA AskKeeps ==
    ASSUME SortInv, sortPc # "sorted", ranges # <<>>, Fixed, table' = table,
           scan' \in [i : Int, j : Int], Moved(items'), ranges' = ranges,
           sortPc' \in {"ends", "middle", "upper", "left", "right", "invalid"},
           Placed', faithful => sortPc' # "invalid" /\ Partitioned'
    PROVE  SortInv'
<1>1. SortTypes'
    BY SortKept DEF SortInv, SortTypes
<1>2. ASSUME faithful PROVE Sorting'
    BY <1>2 DEF Sorting, Moved
<1> QED
    BY <1>1, <1>2, SortKept DEF SortInv, Fixed

\* What an answer of the order function tells when it is an order.
LEMMA Answer ==
    ASSUME NEW x \in Int, NEW y \in Int, NEW before \in Lt(x, y)
    PROVE  (faithful /\ before => x < y) /\ (faithful /\ ~before => y <= x)
<1>1. faithful => before = (x < y)
    BY Zenon DEF Lt
<1>2. (faithful /\ before => x < y) /\ (faithful /\ ~before => ~(x < y))
    BY <1>1, Zenon
<1>3. ~(x < y) => y <= x
    OBVIOUS
<1> QED
    BY <1>2, <1>3, Zenon

LEMMA TakeRangeKeeps ==
    ASSUME SortInv, TakeRange
    PROVE  SortInv'
<1>1. /\ sortPc = "range" /\ Fixed /\ items' = items /\ scan' = scan
      /\ Moved(items) /\ Moved(items') /\ table = given /\ SortTypes
    BY ItemsMoved DEF TakeRange, Fixed, SortInv
<1>2. CASE ranges = <<>>
    <2>1. sortPc' = "sorted" /\ table' = items /\ ranges' = ranges
        BY <1>2 DEF TakeRange, Ask
    <2>2. SortTypes' /\ ItemsKept'
        BY <1>1, <2>1 DEF SortTypes, SortInv, ItemsKept, Fixed
    <2>3. Placed' /\ Partitioned'
        BY <2>1 DEF Placed, Partitioned
    <2>4. ASSUME faithful PROVE Sorting'
        BY <1>1, <1>2, <2>1, <2>3, <2>4 DEF Sorting, Moved
    <2> QED
        BY <1>1, <2>2, <2>3, <2>4 DEF SortInv, Fixed
<1>3. CASE ranges # <<>> /\ Lo < Up
    <2>1. sortPc' = "ends" /\ table' = table /\ ranges' = ranges
        BY <1>3 DEF TakeRange, Ask
    <2>2. Placed' /\ Partitioned'
        BY <1>3, <2>1 DEF Placed, Partitioned, Lo, Up
    <2> QED
        BY <1>1, <1>3, <2>1, <2>2, AskKeeps DEF SortTypes
<1>4. CASE ranges # <<>> /\ ~(Lo < Up)
    <2>1. sortPc' = "range" /\ table' = table /\ ranges' = Tail(ranges)
        BY <1>1, <1>4 DEF TakeRange
    <2>2. \A p, q \in Lo .. Up : ~(p < q)
        BY <1>1, <1>4, CurrentRange
    <2> QED
        BY <1>1, <1>4, <2>1, <2>2, LeaveKeeps
<1> QED
    BY <1>2, <1>3, <1>4

\* The pivot is the middle one of three items.
LEMMA SplitKeeps ==
    ASSUME SortInv, sortPc \in {"middle", "upper"}, Fixed, table' = table,
           NEW b, Moved(b), Split(b), faithful => b[Lo] <= b[Middle] /\ b[Middle] <= b[Up]
    PROVE  SortInv'
<1>1. SortTypes /\ ranges # <<>> /\ Up - Lo >= 2 /\ sortPc # "sorted"
    BY DEF SortInv, Placed
<1>2. Lo \in Int /\ Up \in Int /\ 1 <= Lo /\ Up <= Len(items) /\ Len(items) \in Nat
    BY <1>1, CurrentRange
<1>3. /\ Middle \in Int /\ Lo < Middle /\ Middle < Up
      /\ Up - Lo = 2 => Middle = Lo + 1
    BY <1>1, <1>2 DEF Middle
<1>4. \A k \in Lo .. Up : k \in 1 .. Len(items) /\ b[k] \in Int
    BY <1>1, <1>2, MovedValues
<1>5. CASE Up - Lo = 2
    <2>1. items' = b /\ ranges' = Tail(ranges) /\ sortPc' = "range" /\ scan' = scan
        BY <1>5 DEF Split, Leave, Ask
    <2>2. ASSUME faithful, NEW p \in Lo .. Up, NEW q \in Lo .. Up, p < q
          PROVE  b[p] <= b[q]
        <3>1. b[Lo] <= b[Lo + 1] /\ b[Lo + 1] <= b[Lo + 2] /\ Up = Lo + 2
            BY <1>2, <1>3, <1>5, <2>2
        <3>2. b[Lo] \in Int /\ b[Lo + 1] \in Int /\ b[Lo + 2] \in Int
            BY <1>2, <1>4, <3>1
        <3>3. (p = Lo /\ q = Lo + 1) \/ (p = Lo /\ q = Lo + 2) \/ (p = Lo + 1 /\ q = Lo + 2)
            BY <1>2, <2>2, <3>1
        <3> QED
            BY <3>1, <3>2, <3>3
    <2> QED
        BY <1>1, <2>1, <2>2, LeaveKeeps
<1>6. CASE Up - Lo # 2
    <2>1. /\ items' = Swapped(b, Middle, Up - 1) /\ scan' = [i |-> Lo + 1, j |-> Up - 1]
          /\ sortPc' = "left" /\ ranges' = ranges /\ Lo' = Lo /\ Up' = Up
        BY <1>6 DEF Split, Ask, Lo, Up
    <2>2. Middle \in Lo .. Up /\ Up - 1 \in Lo .. Up
        BY <1>1, <1>2, <1>3
    <2>3. Moved(items') /\ Exchanged(items', b, Middle, Up - 1)
        <3>1. /\ Moved(Swapped(b, Middle, Up - 1))
              /\ Exchanged(Swapped(b, Middle, Up - 1), b, Middle, Up - 1)
            BY <1>1, <2>2, SwapMoves, Zenon
        <3> QED
            BY <2>1, <3>1
    <2>4. items'[Up - 1] = b[Middle] /\ items'[Lo] = b[Lo] /\ items'[Up] = b[Up]
        <3>1. Len(b) = Len(items)
            BY DEF Moved
        <3> QED
            BY <1>1, <1>2, <1>3, <1>6, <2>3, <3>1 DEF Exchanged
    <2>5. scan' \in [i : Int, j : Int] /\ scan'.i = Lo + 1 /\ scan'.j = Up - 1
        BY <1>2, <2>1
    <2>6. Placed'
        BY <1>1, <1>2, <1>6, <2>1, <2>5 DEF Placed
    <2>7. ASSUME faithful PROVE Partitioned'
        <3>1. AtMost(items', Lo, (Lo + 1) - 1, items'[Up - 1])
            BY <1>2, <2>4, <2>7 DEF AtMost
        <3>2. AtLeast(items', Up - 1, Up, items'[Up - 1])
            <4> SUFFICES ASSUME NEW k \in Up - 1 .. Up PROVE items'[k] >= items'[Up - 1]
                BY DEF AtLeast
            <4>1. b[Middle] \in Int /\ b[Up] \in Int /\ b[Middle] <= b[Up]
                BY <1>2, <1>3, <1>4, <2>7
            <4>2. k = Up - 1 \/ k = Up
                BY <1>2
            <4> QED
                BY <2>4, <4>1, <4>2
        <3> QED
            BY <2>1, <2>5, <3>1, <3>2 DEF Partitioned, Pivot
    <2> QED
        BY <1>1, <2>1, <2>3, <2>5, <2>6, <2>7, AskKeeps
<1> QED
    BY <1>5, <1>6

LEMMA CompareEndsKeeps ==
    ASSUME SortInv, CompareEnds
    PROVE  SortInv'
<1>1. /\ sortPc = "ends" /\ SortTypes /\ ranges # <<>> /\ Lo < Up /\ Fixed /\ table' = table
      /\ scan' = scan /\ scan' \in [i : Int, j : Int] /\ Moved(items)
    BY ItemsMoved DEF CompareEnds, SortInv, Placed, Fixed, SortTypes
<1>2. Lo \in Int /\ Up \in Int /\ 1 <= Lo /\ Up <= Len(items) /\ Len(items) \in Nat
    BY <1>1, CurrentRange
<1>3. /\ Lo \in 1 .. Len(items) /\ Up \in 1 .. Len(items) /\ Lo \in Lo .. Up /\ Up \in Lo .. Up
      /\ items[Lo] \in Int /\ items[Up] \in Int
    BY <1>1, <1>2, MovedValues
<1>4. PICK before \in Lt(items[Up], items[Lo]) :
          items' = IF before THEN Swapped(items, Lo, Up) ELSE items
    BY DEF CompareEnds
<1>5. (faithful /\ before => items[Up] < items[Lo]) /\ (faithful /\ ~before => items[Lo] <= items[Up])
    BY <1>3, Answer
<1>6. /\ Moved(items') /\ items'[Lo] \in Int /\ items'[Up] \in Int
      /\ faithful => items'[Lo] <= items'[Up]
    <2>1. CASE before
        <3>1. Moved(items') /\ items'[Lo] = items[Up] /\ items'[Up] = items[Lo]
            <4>1. /\ Moved(Swapped(items, Lo, Up))
                  /\ Exchanged(Swapped(items, Lo, Up), items, Lo, Up)
                BY <1>1, <1>3, SwapMoves, Zenon
            <4>2. items' = Swapped(items, Lo, Up)
                BY <1>4, <2>1
            <4>3. Exchanged(items', items, Lo, Up)
                BY <4>1, <4>2
            <4> QED
                BY <1>3, <4>1, <4>2, <4>3 DEF Exchanged
        <3> QED
            BY <1>3, <1>5, <2>1, <3>1
    <2>2. CASE ~before
        BY <1>1, <1>3, <1>4, <1>5, <2>2
    <2> QED
        BY <2>1, <2>2
<1>7. CASE Up - Lo = 1
    <2>1. ranges' = Tail(ranges) /\ sortPc' = "range"
        BY <1>7 DEF CompareEnds, Leave, Ask
    <2>2. \A p, q \in Lo .. Up : p < q => p = Lo /\ q = Up
        BY <1>2, <1>7
    <2> QED
        BY <1>1, <1>6, <2>1, <2>2, LeaveKeeps
<1>8. CASE Up - Lo # 1
    <2>1. ranges' = ranges /\ sortPc' = "middle" /\ Lo' = Lo /\ Up' = Up
        BY <1>8 DEF CompareEnds, Ask, Lo, Up
    <2>2. Placed'
        BY <1>1, <1>2, <1>8, <2>1 DEF Placed
    <2>3. faithful => Partitioned'
        BY <1>6, <2>1 DEF Partitioned
    <2> QED
        BY <1>1, <1>6, <2>1, <2>2, <2>3, AskKeeps
<1> QED
    BY <1>7, <1>8

\* The three items that are compared, and where they are.
LEMMA ThreeItems ==
    ASSUME SortInv, sortPc \in {"middle", "upper"}
    PROVE  /\ SortTypes /\ ranges # <<>> /\ Moved(items) /\ Up - Lo >= 2
           /\ {Lo, Middle, Up} \subseteq (Lo .. Up) \cap (1 .. Len(items))
           /\ items[Lo] \in Int /\ items[Middle] \in Int /\ items[Up] \in Int
           /\ Lo \in Int /\ Up \in Int /\ Middle \in Int /\ Lo < Middle /\ Middle < Up
           /\ faithful => items[Lo] <= items[Up]
           /\ faithful /\ sortPc = "upper" => items[Lo] <= items[Middle]
<1>1. /\ SortTypes /\ ranges # <<>> /\ Moved(items) /\ Up - Lo >= 2
      /\ faithful => items[Lo] <= items[Up]
      /\ faithful /\ sortPc = "upper" => items[Lo] <= items[Middle]
    BY ItemsMoved DEF SortInv, Placed, Sorting, Partitioned
<1>2. Lo \in Int /\ Up \in Int /\ 1 <= Lo /\ Up <= Len(items) /\ Len(items) \in Nat
    BY <1>1, CurrentRange
<1>3. Middle \in Int /\ Lo < Middle /\ Middle < Up
    BY <1>1, <1>2 DEF Middle
<1>4. {Lo, Middle, Up} \subseteq (Lo .. Up) \cap (1 .. Len(items))
    BY <1>1, <1>2, <1>3
<1>5. items[Lo] \in Int /\ items[Middle] \in Int /\ items[Up] \in Int
    BY <1>1, <1>4, MovedValues
<1> QED
    BY <1>1, <1>2, <1>3, <1>4, <1>5

LEMMA CompareMiddleKeeps ==
    ASSUME SortInv, CompareMiddle
    PROVE  SortInv'
<1>1. /\ sortPc = "middle" /\ Fixed /\ table' = table
    BY DEF CompareMiddle, Fixed
<1>2. PICK before \in Lt(items[Middle], items[Lo]) :
          IF before THEN Split(Swapped(items, Middle, Lo))
          ELSE Ask("upper") /\ UNCHANGED <<items, ranges, scan>>
    BY DEF CompareMiddle
<1>3. /\ faithful /\ before => items[Middle] < items[Lo]
      /\ faithful /\ ~before => items[Lo] <= items[Middle]
    BY <1>1, Answer, ThreeItems
<1>4. CASE before
    <2> DEFINE b == Swapped(items, Middle, Lo)
    <2>1. Middle \in Lo .. Up /\ Lo \in Lo .. Up /\ SortTypes /\ ranges # <<>> /\ Moved(items)
        BY <1>1, ThreeItems
    <2>2. Moved(b) /\ Exchanged(b, items, Middle, Lo)
        BY <2>1, SwapMoves, Zenon
    <2> HIDE DEF b
    <2>3. b[Lo] = items[Middle] /\ b[Middle] = items[Lo] /\ b[Up] = items[Up]
        <3>1. /\ Lo \in 1 .. Len(items) /\ Middle \in 1 .. Len(items) /\ Up \in 1 .. Len(items)
              /\ Lo # Middle /\ Middle # Up /\ Lo # Up
            BY <1>1, ThreeItems
        <3> QED
            BY <2>2, <3>1 DEF Exchanged
    <2>4. faithful => b[Lo] <= b[Middle] /\ b[Middle] <= b[Up]
        BY <1>1, <1>3, <1>4, <2>3, ThreeItems
    <2>5. Split(b)
        BY <1>2, <1>4 DEF b
    <2> QED
        BY <1>1, <2>2, <2>4, <2>5, SplitKeeps
<1>5. CASE ~before
    <2>1. sortPc' = "upper" /\ items' = items /\ ranges' = ranges /\ scan' = scan
        BY <1>2, <1>5 DEF Ask
    <2>2. Lo' = Lo /\ Up' = Up /\ Middle' = Middle
        BY <2>1 DEF Lo, Up, Middle
    <2>3. Placed'
        BY <1>1, <2>1, <2>2, ThreeItems DEF Placed
    <2>4. faithful => Partitioned'
        BY <1>1, <1>3, <1>5, <2>1, <2>2, ThreeItems DEF Partitioned
    <2> QED
        BY <1>1, <2>1, <2>3, <2>4, ThreeItems, AskKeeps DEF SortTypes
<1> QED
    BY <1>4, <1>5

LEMMA CompareUpperKeeps ==
    ASSUME SortInv, CompareUpper
    PROVE  SortInv'
<1>1. sortPc = "upper" /\ Fixed /\ table' = table
    BY DEF CompareUpper, Fixed
<1>2. PICK before \in Lt(items[Up], items[Middle]) :
          Split(IF before THEN Swapped(items, Middle, Up) ELSE items)
    BY DEF CompareUpper
<1>3. /\ faithful /\ before => items[Up] < items[Middle]
      /\ faithful /\ ~before => items[Middle] <= items[Up]
    BY <1>1, Answer, ThreeItems
<1>4. CASE before
    <2> DEFINE b == Swapped(items, Middle, Up)
    <2>1. Middle \in Lo .. Up /\ Up \in Lo .. Up /\ SortTypes /\ ranges # <<>> /\ Moved(items)
        BY <1>1, ThreeItems
    <2>2. Moved(b) /\ Exchanged(b, items, Middle, Up)
        BY <2>1, SwapMoves, Zenon
    <2> HIDE DEF b
    <2>3. b[Lo] = items[Lo] /\ b[Middle] = items[Up] /\ b[Up] = items[Middle]
        <3>1. /\ Lo \in 1 .. Len(items) /\ Middle \in 1 .. Len(items) /\ Up \in 1 .. Len(items)
              /\ Lo # Middle /\ Middle # Up /\ Lo # Up
            BY <1>1, ThreeItems
        <3> QED
            BY <2>2, <3>1 DEF Exchanged
    <2>4. faithful => b[Lo] <= b[Middle] /\ b[Middle] <= b[Up]
        BY <1>1, <1>3, <1>4, <2>3, ThreeItems
    <2>5. Split(b)
        BY <1>2, <1>4 DEF b
    <2> QED
        BY <1>1, <2>2, <2>4, <2>5, SplitKeeps
<1>5. CASE ~before
    <2>1. Split(items) /\ Moved(items)
        BY <1>1, <1>2, <1>5, ThreeItems
    <2>2. faithful => items[Lo] <= items[Middle] /\ items[Middle] <= items[Up]
        BY <1>1, <1>3, <1>5, ThreeItems
    <2> QED
        BY <1>1, <2>1, <2>2, SplitKeeps
<1> QED
    BY <1>4, <1>5

\* The scans are within the range.
LEMMA Scanning ==
    ASSUME SortInv, sortPc \in {"left", "right"}
    PROVE  /\ SortTypes /\ ranges # <<>> /\ Moved(items) /\ Up - Lo >= 3
           /\ Lo \in Int /\ Up \in Int /\ 1 <= Lo /\ Up <= Len(items) /\ Len(items) \in Nat
           /\ scan.i \in Int /\ scan.j \in Int /\ Lo < scan.i /\ scan.i < Up /\ Lo <= scan.j
           /\ sortPc = "left" => Lo < scan.j /\ scan.j < Up
           /\ sortPc = "right" => scan.j < Up - 1
           /\ \A k \in Lo .. Up : k \in 1 .. Len(items) /\ items[k] \in Int
           /\ scan.i \in Lo .. Up /\ scan.j \in Lo .. Up /\ Up - 1 \in Lo .. Up
           /\ Pivot \in Int /\ items[scan.i] \in Int /\ items[scan.j] \in Int
<1>1. /\ SortTypes /\ ranges # <<>> /\ Moved(items) /\ Up - Lo >= 3
      /\ Lo < scan.i /\ scan.i < Up
      /\ sortPc = "left" => Lo < scan.j /\ scan.j < Up
      /\ sortPc = "right" => Lo <= scan.j /\ scan.j < Up - 1
    BY ItemsMoved DEF SortInv, Placed
<1>2. /\ Lo \in Int /\ Up \in Int /\ 1 <= Lo /\ Up <= Len(items) /\ Len(items) \in Nat
      /\ scan.i \in Int /\ scan.j \in Int
    BY <1>1, CurrentRange DEF SortTypes
<1>3. \A k \in Lo .. Up : k \in 1 .. Len(items) /\ items[k] \in Int
    BY <1>1, <1>2, MovedValues
<1>4. Lo <= scan.j /\ scan.i \in Lo .. Up /\ scan.j \in Lo .. Up /\ Up - 1 \in Lo .. Up
    BY <1>1, <1>2
<1>5. Pivot \in Int /\ items[scan.i] \in Int /\ items[scan.j] \in Int
    BY <1>3, <1>4 DEF Pivot
<1> QED
    BY <1>1, <1>2, <1>3, <1>4, <1>5

LEMMA ScanLeftKeeps ==
    ASSUME SortInv, ScanLeft
    PROVE  SortInv'
<1>1. /\ sortPc = "left" /\ Fixed /\ table' = table /\ items' = items /\ ranges' = ranges
      /\ Lo' = Lo /\ Up' = Up /\ Pivot' = Pivot /\ scan \in [i : Int, j : Int]
    BY DEF ScanLeft, Fixed, Lo, Up, Pivot, SortInv, SortTypes
<1>within. SortTypes /\ ranges # <<>> /\ Moved(items)
    BY <1>1, Scanning
<1>positions. /\ Lo \in Int /\ Up \in Int /\ 1 <= Lo /\ Up <= Len(items) /\ Len(items) \in Nat
      /\ scan.i \in Int /\ scan.j \in Int /\ Up - Lo >= 3 /\ Lo < scan.i /\ scan.i < Up
      /\ Lo < scan.j /\ scan.j < Up
    BY <1>1, Scanning
<1>values. /\ \A k \in Lo .. Up : k \in 1 .. Len(items) /\ items[k] \in Int
      /\ Pivot \in Int /\ items[scan.i] \in Int /\ items[scan.j] \in Int
    BY <1>1, Scanning
<1>2. /\ faithful => AtMost(items, Lo, scan.i - 1, Pivot)
      /\ faithful => AtLeast(items, scan.j, Up, Pivot)
    BY <1>1 DEF SortInv, Sorting, Partitioned
<1>3. PICK before \in Lt(items[scan.i], Pivot) :
          IF before
          THEN IF LeftEnds(scan.i) THEN Ask("invalid") /\ UNCHANGED scan
               ELSE scan' = [scan EXCEPT !.i = @ + 1] /\ UNCHANGED sortPc
          ELSE scan' = [scan EXCEPT !.j = @ - 1] /\ Ask("right")
    BY DEF ScanLeft
<1>4. /\ faithful /\ before => items[scan.i] < Pivot
      /\ faithful /\ ~before => Pivot <= items[scan.i]
    BY <1>values, Answer
<1>5. CASE before /\ scan.i = Up - 1
    <2>1. sortPc' = "invalid" /\ scan' = scan
        BY <1>3, <1>5 DEF LeftEnds, Ask
    <2>2. ~faithful
        <3>1. items[scan.i] = Pivot
            BY <1>5 DEF Pivot
        <3> QED
            BY <1>1, <1>4, <1>5, <3>1, <1>positions, <1>values
    <2>3. Placed'
        BY <2>1 DEF Placed
    <2> QED
        BY <1>1, <2>1, <2>2, <2>3, <1>within, AskKeeps
<1>6. CASE before /\ scan.i # Up - 1
    <2>1. sortPc' = "left" /\ scan' = [scan EXCEPT !.i = @ + 1]
        BY <1>1, <1>3, <1>6 DEF LeftEnds
    <2>2. scan' \in [i : Int, j : Int] /\ scan'.i = scan.i + 1 /\ scan'.j = scan.j
        BY <1>1, <2>1
    <2>3. Placed'
        <3>1. /\ Lo < Up /\ Up - Lo >= 3
              /\ Lo < scan.i + 1 /\ scan.i + 1 < Up /\ Lo < scan.j /\ scan.j < Up
            BY <1>6, <1>positions
        <3> QED
            BY <1>1, <1>within, <2>1, <2>2, <3>1 DEF Placed
    <2>4. ASSUME faithful PROVE Partitioned'
        <3>1. AtMost(items, Lo, scan.i, Pivot)
            <4> SUFFICES ASSUME NEW k \in Lo .. scan.i PROVE items[k] <= Pivot
                BY DEF AtMost
            <4>1. CASE k = scan.i
                BY <1>1, <1>4, <1>6, <2>4, <4>1, <1>positions, <1>values
            <4>2. CASE k # scan.i
                <5>1. k \in Lo .. scan.i - 1
                    BY <1>1, <4>2, <1>positions, <1>values
                <5> QED
                    BY <1>2, <2>4, <5>1 DEF AtMost
            <4> QED
                BY <4>1, <4>2
        <3>2. (scan.i + 1) - 1 = scan.i
            BY <1>1, <1>positions, <1>values
        <3> QED
            BY <1>1, <1>2, <2>1, <2>2, <2>4, <3>1, <3>2 DEF Partitioned
    <2> QED
        BY <1>1, <2>1, <2>2, <2>3, <2>4, <1>within, AskKeeps
<1>7. CASE ~before
    <2>1. sortPc' = "right" /\ scan' = [scan EXCEPT !.j = @ - 1]
        BY <1>3, <1>7 DEF Ask
    <2>2. scan' \in [i : Int, j : Int] /\ scan'.i = scan.i /\ scan'.j = scan.j - 1
        BY <1>1, <2>1
    <2>3. Placed'
        BY <1>1, <2>1, <2>2, <1>within, <1>positions DEF Placed
    <2>4. ASSUME faithful PROVE Partitioned'
        <3>1. (scan.j - 1) + 1 = scan.j
            BY <1>1, <1>positions, <1>values
        <3>2. items[scan.i] >= Pivot
            BY <1>1, <1>4, <1>7, <2>4, <1>positions, <1>values
        <3> QED
            BY <1>1, <1>2, <2>1, <2>2, <2>4, <3>1, <3>2 DEF Partitioned
    <2> QED
        BY <1>1, <2>1, <2>2, <2>3, <2>4, <1>within, AskKeeps
<1> QED
    BY <1>5, <1>6, <1>7

\* The scans have met: the pivot goes between the two parts.
LEMMA MeetKeeps ==
    ASSUME SortInv, sortPc = "right", Fixed, table' = table, scan' = scan, scan.j < scan.i,
           items' = Swapped(items, Up - 1, scan.i), ranges' = Parts(scan.i) \o Tail(ranges),
           sortPc' = "range"
    PROVE  SortInv'
<1> DEFINE m == scan.i
           left == [lo |-> Lo, up |-> m - 1]
           right == [lo |-> m + 1, up |-> Up]
<1>within. SortTypes /\ ranges # <<>> /\ Moved(items)
    BY Scanning
<1>positions. /\ Lo \in Int /\ Up \in Int /\ 1 <= Lo /\ Up <= Len(items) /\ Len(items) \in Nat
      /\ scan.i \in Int /\ scan.j \in Int /\ Up - Lo >= 3 /\ Lo < scan.i /\ scan.i < Up
      /\ Lo <= scan.j /\ scan.j < Up - 1
    BY Scanning
<1>values. /\ \A k \in Lo .. Up : k \in 1 .. Len(items) /\ items[k] \in Int
      /\ Pivot \in Int /\ items[scan.i] \in Int /\ items[scan.j] \in Int
    BY Scanning
<1>1. Moved(items') /\ Exchanged(items', items, Up - 1, m)
    <2> DEFINE c == Swapped(items, Up - 1, m)
    <2>1. m \in Lo .. Up /\ Up - 1 \in Lo .. Up
        BY <1>positions
    <2>2. Moved(c) /\ Exchanged(c, items, Up - 1, m)
        BY <1>within, <2>1, SwapMoves, Zenon
    <2> QED
        BY <2>2
<1>2. items' \in Seq(Int) /\ Len(items') = Len(items) /\ Len(items') \in Nat
    BY <1>1, <1>within, <1>positions DEF Moved
<1>3. Apart(ranges, Len(items')) /\ Lo = ranges[1].lo /\ Up = ranges[1].up
    BY <1>2, <1>within, <1>positions, CurrentRange DEF SortTypes
<1>4. PICK l, r : /\ Parts(m) = <<l, r>>
                  /\ (l = left /\ r = right) \/ (r = left /\ l = right)
    BY DEF Parts
<1>5. /\ m \in Int /\ ranges[1].lo < m /\ m < ranges[1].up
      /\ \/ /\ l = [lo |-> ranges[1].lo, up |-> m - 1] /\ r = [lo |-> m + 1, up |-> ranges[1].up]
         \/ /\ r = [lo |-> ranges[1].lo, up |-> m - 1] /\ l = [lo |-> m + 1, up |-> ranges[1].up]
    BY <1>3, <1>4, <1>positions, <1>values
<1>6. ranges' = <<l, r>> \o Tail(ranges)
    BY <1>4
<1> HIDE DEF m, left, right
<1>7. /\ Apart(ranges', Len(items'))
      /\ /\ items' \in Seq(Int) /\ OnlyWithin(items', ranges)
         /\ AtMost(items', ranges[1].lo, m, items'[m]) /\ AtLeast(items', m, ranges[1].up, items'[m])
         => OnlyWithin(items', ranges')
    BY <1>2, <1>3, <1>5, <1>6, SplitRange, <1>within, <1>positions
<1>8. ASSUME faithful PROVE OnlyWithin(items', ranges')
    <2>1. /\ AtMost(items, Lo, m - 1, Pivot) /\ AtLeast(items, scan.j + 1, Up, Pivot)
          /\ items[m] >= Pivot
        BY <1>8 DEF SortInv, Sorting, Partitioned, m
    <2>2. items'[m] = Pivot
        BY <1>1, <1>positions, <1>values DEF Pivot, m, Exchanged
    <2>3. AtMost(items', Lo, m, Pivot)
        <3> SUFFICES ASSUME NEW k \in Lo .. m PROVE items'[k] <= Pivot
            BY DEF AtMost
        <3>1. CASE k = m
            BY <2>2, <3>1, <1>positions, <1>values
        <3>2. CASE k # m
            <4>1. k \in Lo .. m - 1 /\ k \in 1 .. Len(items) /\ k # Up - 1
                BY <3>2, <1>positions, <1>values DEF m
            <4> QED
                BY <1>1, <2>1, <3>2, <4>1 DEF AtMost, Exchanged
        <3> QED
            BY <3>1, <3>2
    <2>4. AtLeast(items', m, Up, Pivot)
        <3> SUFFICES ASSUME NEW k \in m .. Up PROVE items'[k] >= Pivot
            BY DEF AtLeast
        <3>0. k \in 1 .. Len(items)
            BY <1>positions, <1>values DEF m
        <3>1. CASE k = m
            BY <2>2, <3>1, <1>positions, <1>values
        <3>2. CASE k # m /\ k = Up - 1
            BY <1>1, <2>1, <3>0, <3>2 DEF Exchanged
        <3>3. CASE k # m /\ k # Up - 1
            <4>1. k \in scan.j + 1 .. Up
                BY <3>3, <1>positions, <1>values DEF m
            <4> QED
                BY <1>1, <2>1, <3>0, <3>3, <4>1 DEF AtLeast, Exchanged
        <3> QED
            BY <3>1, <3>2, <3>3
    <2> QED
        BY <1>1, <1>2, <1>3, <1>7, <1>8, <2>2, <2>3, <2>4 DEF Moved
<1>9. SortTypes'
    BY <1>1, <1>7, SortKept, <1>within, <1>positions DEF SortTypes
<1>10. Placed' /\ Partitioned'
    BY DEF Placed, Partitioned
<1>11. ItemsKept'
    BY <1>1, SortKept
<1>12. ASSUME faithful PROVE Sorting'
    BY <1>8, <1>10, <1>12 DEF Sorting
<1> QED
    BY <1>9, <1>10, <1>11, <1>12 DEF SortInv, Fixed

\* The scans have stopped at two items, which change places.
LEMMA ExchangeKeeps ==
    ASSUME SortInv, sortPc = "right", Fixed, table' = table, ~(scan.j < scan.i),
           items' = Swapped(items, scan.i, scan.j), ranges' = ranges,
           scan' \in [i : Int, j : Int], scan'.i = scan.i + 1, scan'.j = scan.j, sortPc' = "left",
           faithful => items[scan.j] <= Pivot
    PROVE  SortInv'
<1>within. SortTypes /\ ranges # <<>> /\ Moved(items)
    BY Scanning
<1>positions. /\ Lo \in Int /\ Up \in Int /\ 1 <= Lo /\ Up <= Len(items) /\ Len(items) \in Nat
      /\ scan.i \in Int /\ scan.j \in Int /\ Up - Lo >= 3 /\ Lo < scan.i /\ scan.i < Up
      /\ Lo <= scan.j /\ scan.j < Up - 1
    BY Scanning
<1>values. /\ \A k \in Lo .. Up : k \in 1 .. Len(items) /\ items[k] \in Int
      /\ Pivot \in Int /\ items[scan.i] \in Int /\ items[scan.j] \in Int
    BY Scanning
<1>1. Moved(items') /\ Exchanged(items', items, scan.i, scan.j)
    <2> DEFINE c == Swapped(items, scan.i, scan.j)
    <2>1. scan.i \in Lo .. Up /\ scan.j \in Lo .. Up
        BY <1>positions
    <2>2. Moved(c) /\ Exchanged(c, items, scan.i, scan.j)
        BY <1>within, <2>1, SwapMoves, Zenon
    <2> QED
        BY <2>2
<1>3. Lo' = Lo /\ Up' = Up
    BY DEF Lo, Up
<1>4. scan.i <= scan.j /\ Pivot' = Pivot
    <2>1. /\ Up - 1 \in 1 .. Len(items) /\ Up - 1 # scan.i /\ Up - 1 # scan.j
          /\ scan.i <= scan.j
        BY <1>positions
    <2> QED
        BY <1>1, <1>3, <2>1 DEF Pivot, Exchanged
<1>5. Placed'
    <2>1. Lo < Up /\ Lo < scan.i + 1 /\ scan.i + 1 < Up /\ Lo < scan.j /\ scan.j < Up
        BY <1>4, <1>positions
    <2> QED
        BY <1>3, <1>within, <1>positions, <2>1 DEF Placed
<1>6. ASSUME faithful PROVE Partitioned'
    <2>1. /\ AtMost(items, Lo, scan.i - 1, Pivot) /\ AtLeast(items, scan.j + 1, Up, Pivot)
          /\ items[scan.i] >= Pivot
        BY <1>6 DEF SortInv, Sorting, Partitioned
    <2>2. AtMost(items', Lo, scan.i, Pivot)
        <3> SUFFICES ASSUME NEW k \in Lo .. scan.i PROVE items'[k] <= Pivot
            BY DEF AtMost
        <3>0. k \in 1 .. Len(items)
            BY <1>positions, <1>values
        <3>1. CASE k = scan.i
            <4>1. items'[k] = items[scan.j]
                BY <1>1, <3>0, <3>1 DEF Exchanged
            <4> QED
                BY <1>6, <4>1
        <3>2. CASE k # scan.i
            <4>1. k \in Lo .. scan.i - 1 /\ k # scan.j
                BY <1>4, <1>positions, <3>2
            <4> QED
                BY <1>1, <2>1, <3>0, <3>2, <4>1 DEF AtMost, Exchanged
        <3> QED
            BY <3>1, <3>2
    <2>3. AtLeast(items', scan.j, Up, Pivot)
        <3> SUFFICES ASSUME NEW k \in scan.j .. Up PROVE items'[k] >= Pivot
            BY DEF AtLeast
        <3>0. k \in 1 .. Len(items)
            BY <1>positions, <1>values
        <3>1. CASE k = scan.j
            BY <1>1, <2>1, <3>0, <3>1 DEF Exchanged
        <3>2. CASE k # scan.j
            <4>1. k \in scan.j + 1 .. Up /\ k # scan.i
                BY <1>4, <3>2, <1>positions, <1>values
            <4> QED
                BY <1>1, <2>1, <3>0, <3>2, <4>1 DEF AtLeast, Exchanged
        <3> QED
            BY <3>1, <3>2
    <2>4. (scan.i + 1) - 1 = scan.i
        BY <1>positions, <1>values
    <2> QED
        BY <1>3, <1>4, <2>2, <2>3, <2>4 DEF Partitioned
<1> QED
    BY <1>1, <1>5, <1>6, <1>within, AskKeeps

LEMMA ScanRightKeeps ==
    ASSUME SortInv, ScanRight
    PROVE  SortInv'
<1>1. sortPc = "right" /\ Fixed /\ table' = table /\ scan \in [i : Int, j : Int]
    BY DEF ScanRight, Fixed, SortInv, SortTypes
<1>within. SortTypes /\ ranges # <<>> /\ Moved(items)
    BY <1>1, Scanning
<1>positions. /\ Lo \in Int /\ Up \in Int /\ 1 <= Lo /\ Up <= Len(items) /\ Len(items) \in Nat
      /\ scan.i \in Int /\ scan.j \in Int /\ Up - Lo >= 3 /\ Lo < scan.i /\ scan.i < Up
      /\ Lo <= scan.j /\ scan.j < Up - 1
    BY <1>1, Scanning
<1>values. /\ \A k \in Lo .. Up : k \in 1 .. Len(items) /\ items[k] \in Int
      /\ Pivot \in Int /\ items[scan.i] \in Int /\ items[scan.j] \in Int
    BY <1>1, Scanning
<1>2. faithful => /\ AtMost(items, Lo, scan.i - 1, Pivot)
                  /\ AtLeast(items, scan.j + 1, Up, Pivot) /\ items[scan.i] >= Pivot
    BY <1>1 DEF SortInv, Sorting, Partitioned
<1>3. PICK before \in Lt(Pivot, items[scan.j]) :
          IF before
          THEN /\ IF scan.j < scan.i THEN Ask("invalid") /\ UNCHANGED scan
                  ELSE scan' = [scan EXCEPT !.j = @ - 1] /\ UNCHANGED sortPc
               /\ UNCHANGED <<items, ranges>>
          ELSE IF scan.j < scan.i
          THEN /\ items' = Swapped(items, Up - 1, scan.i)
               /\ ranges' = Parts(scan.i) \o Tail(ranges)
               /\ Ask("range")
               /\ UNCHANGED scan
          ELSE /\ items' = Swapped(items, scan.i, scan.j)
               /\ scan' = [scan EXCEPT !.i = @ + 1]
               /\ Ask("left")
               /\ UNCHANGED ranges
    BY DEF ScanRight
<1>4. /\ faithful /\ before => Pivot < items[scan.j]
      /\ faithful /\ ~before => items[scan.j] <= Pivot
    BY <1>values, Answer
<1>5. CASE before /\ scan.j < scan.i
    <2>1. sortPc' = "invalid" /\ scan' = scan /\ items' = items /\ ranges' = ranges
        BY <1>3, <1>5 DEF Ask
    <2>2. ~faithful
        <3>1. scan.j \in Lo .. scan.i - 1
            BY <1>1, <1>5, <1>positions, <1>values
        <3> QED
            BY <1>1, <1>2, <1>4, <1>5, <3>1, <1>positions, <1>values DEF AtMost
    <2>3. Placed'
        BY <2>1 DEF Placed
    <2> QED
        BY <1>1, <2>1, <2>2, <2>3, <1>within, AskKeeps
<1>6. CASE before /\ ~(scan.j < scan.i)
    <2>1. /\ sortPc' = "right" /\ scan' = [scan EXCEPT !.j = @ - 1]
          /\ items' = items /\ ranges' = ranges
        BY <1>1, <1>3, <1>6
    <2>2. /\ scan' \in [i : Int, j : Int] /\ scan'.i = scan.i /\ scan'.j = scan.j - 1
          /\ Lo' = Lo /\ Up' = Up /\ Pivot' = Pivot
        BY <1>1, <2>1 DEF Lo, Up, Pivot
    <2>3. Placed'
        BY <1>1, <1>6, <2>1, <2>2, <1>within, <1>positions DEF Placed
    <2>4. ASSUME faithful PROVE Partitioned'
        <3>1. AtLeast(items, scan.j, Up, Pivot)
            <4> SUFFICES ASSUME NEW k \in scan.j .. Up PROVE items[k] >= Pivot
                BY DEF AtLeast
            <4>1. CASE k = scan.j
                BY <1>1, <1>4, <1>6, <2>4, <4>1, <1>positions, <1>values
            <4>2. CASE k # scan.j
                <5>1. k \in scan.j + 1 .. Up
                    BY <1>1, <4>2, <1>positions, <1>values
                <5> QED
                    BY <1>2, <2>4, <5>1 DEF AtLeast
            <4> QED
                BY <4>1, <4>2
        <3>2. (scan.j - 1) + 1 = scan.j
            BY <1>1, <1>positions, <1>values
        <3> QED
            BY <1>2, <2>1, <2>2, <2>4, <3>1, <3>2 DEF Partitioned
    <2> QED
        BY <1>1, <2>1, <2>2, <2>3, <2>4, <1>within, AskKeeps
<1>7. CASE ~before /\ scan.j < scan.i
    <2>1. /\ items' = Swapped(items, Up - 1, scan.i) /\ ranges' = Parts(scan.i) \o Tail(ranges)
          /\ sortPc' = "range" /\ scan' = scan
        BY <1>3, <1>7 DEF Ask
    <2> QED
        BY <1>1, <1>7, <2>1, MeetKeeps
<1>8. CASE ~before /\ ~(scan.j < scan.i)
    <2>1. /\ items' = Swapped(items, scan.i, scan.j) /\ scan' = [scan EXCEPT !.i = @ + 1]
          /\ sortPc' = "left" /\ ranges' = ranges
        BY <1>3, <1>8 DEF Ask
    <2>2. scan' \in [i : Int, j : Int] /\ scan'.i = scan.i + 1 /\ scan'.j = scan.j
        BY <1>1, <2>1
    <2> QED
        BY <1>1, <1>4, <1>8, <2>1, <2>2, ExchangeKeeps
<1> QED
    BY <1>5, <1>6, <1>7, <1>8

-----------------------------------------------------------------------------
LEMMA SortStarts ==
    ASSUME NEW a \in Seq(Int), NEW honest \in BOOLEAN, SortInit(a, honest)
    PROVE  SortInv
<1>1. /\ table = a /\ items = a /\ given = a /\ faithful = honest
      /\ ranges = <<[lo |-> 1, up |-> Len(a)]>> /\ scan = [i |-> 0, j |-> 0]
      /\ sortPc \in {"sorted", "range"} /\ (sortPc = "sorted" => Len(a) <= 1)
    BY DEF SortInit
<1>2. Len(a) \in Nat
    BY LenProperties
<1>3. Apart(ranges, Len(a)) /\ 1 \in DOMAIN ranges /\ ranges[1] = [lo |-> 1, up |-> Len(a)]
    BY <1>1, <1>2 DEF Apart, Bounds
<1>4. SortTypes /\ ItemsKept /\ Placed /\ Partitioned
    BY <1>1, <1>3 DEF SortTypes, ItemsKept, Placed, Partitioned
<1>5. OnlyWithin(a, ranges) /\ (Len(a) <= 1 => OnlyWithin(a, <<>>))
    BY <1>2, <1>3 DEF OnlyWithin
<1> QED
    BY <1>1, <1>4, <1>5 DEF SortInv, Sorting

LEMMA SortStepKeeps ==
    ASSUME SortInv, [SortStep]_sortVars
    PROVE  SortInv'
<1>1. CASE UNCHANGED sortVars
    BY <1>1 DEF sortVars, SortInv, SortTypes, ItemsKept, Placed, Sorting, Partitioned, Lo, Up,
        Middle, Pivot
<1> QED
    BY <1>1, TakeRangeKeeps, CompareEndsKeeps, CompareMiddleKeeps, CompareUpperKeeps,
        ScanLeftKeeps, ScanRightKeeps DEF SortStep

LEMMA SortInvIsSafe ==
    ASSUME SortInv
    PROVE  SortIsSafe
<1>1. Len(items) = Len(given) /\ table \in {given, items} /\ SortTypes
    BY DEF SortInv, SortTypes, ItemsKept
<1>2. \A x \in Range(given) : Count(items, x) = Count(given, x)
    BY DEF SortInv, ItemsKept
<1>3. sortPc \in {"left", "right"} => {scan.i, scan.j} \subseteq Lo .. Up
    BY Scanning
<1>4. ASSUME faithful, sortPc = "sorted"
      PROVE  table = items /\ \A i \in 1 .. Len(items) - 1 : items[i] <= items[i + 1]
    <2>1. table = items /\ OnlyWithin(items, <<>>) /\ Len(items) \in Nat
        BY <1>1, <1>4, LenProperties DEF SortInv, Sorting, SortTypes
    <2>2. ASSUME NEW i \in 1 .. Len(items) - 1 PROVE items[i] <= items[i + 1]
        <3>1. i \in 1 .. Len(items) /\ i + 1 \in 1 .. Len(items) /\ i < i + 1
            BY <2>1
        <3>2. DOMAIN << >> = {}
            OBVIOUS
        <3> QED
            BY <2>1, <3>1, <3>2 DEF OnlyWithin
    <2> QED
        BY <2>1, <2>2
<1>5. faithful => sortPc # "invalid"
    BY DEF SortInv, Sorting
<1> QED
    BY <1>1, <1>2, <1>3, <1>4, <1>5 DEF SortIsSafe

(***************************************************************************)
(* table.sort (ltablib.go:130-222) of any list of integers, whatever the   *)
(* order function answers:                                                 *)
(* no item is lost or duplicated, the table holds the items it was given   *)
(* until the sort is over, and partition stays inside its range; with an   *)
(* order function that is an order, partition never reports it as invalid  *)
(* and the sort ends with the items in order.                              *)
(***************************************************************************)
THEOREM SortsSafely == SortSpec => []SortIsSafe
<1>1. (\E a \in Seq(Int), honest \in BOOLEAN : SortInit(a, honest)) => SortInv
    BY SortStarts
<1>2. SortInv /\ [SortStep]_sortVars => SortInv'
    BY SortStepKeeps
<1>3. SortInv => SortIsSafe
    BY SortInvIsSafe
<1> QED
    BY <1>1, <1>2, <1>3, PTL DEF SortSpec

-----------------------------------------------------------------------------
(***************************************************************************)
(* Powers of two.  The provers know of no exponentiation: that doubling    *)
(* gives the next power is read off the number of subsets of 1 .. n.       *)
(***************************************************************************)
LEMMA PowerOfTwo ==
    ASSUME NEW n \in Nat
    PROVE  2 ^ n \in Nat /\ 2 ^ n >= 1 /\ 2 ^ (n + 1) = 2 * 2 ^ n
<1> DEFINE A == 1 .. n
           B == 1 .. n + 1
           f == [X \in SUBSET A |-> X \cup {n + 1}]
           With == (SUBSET B) \ (SUBSET A)
<1>1. /\ IsFiniteSet(A) /\ Cardinality(A) = n
      /\ IsFiniteSet(B) /\ Cardinality(B) = n + 1
    BY FS_Interval
<1>2. A \subseteq B /\ B = A \cup {n + 1} /\ n + 1 \notin A
    OBVIOUS
<1> HIDE DEF A, B
<1>3. /\ IsFiniteSet(SUBSET A) /\ Cardinality(SUBSET A) = 2 ^ n
      /\ IsFiniteSet(SUBSET B) /\ Cardinality(SUBSET B) = 2 ^ (n + 1)
    BY <1>1, FS_SUBSET
<1>4. 2 ^ n \in Nat /\ 2 ^ (n + 1) \in Nat /\ 2 ^ n # 0
    <2>1. {} \in SUBSET A
        OBVIOUS
    <2> QED
        BY <1>3, <2>1, FS_CardinalityType, FS_EmptySet
<1>5. Cardinality(With) = 2 ^ (n + 1) - 2 ^ n /\ IsFiniteSet(With)
    <2>1. (SUBSET B) \cap (SUBSET A) = SUBSET A
        BY <1>2
    <2>2. /\ IsFiniteSet(With)
          /\ Cardinality(With) = Cardinality(SUBSET B) - Cardinality((SUBSET B) \cap (SUBSET A))
        BY <1>3, FS_Difference, Zenon
    <2> QED
        BY <1>3, <2>1, <2>2, Zenon
<1>6. f \in Bijection(SUBSET A, With)
    <2>1. f \in [SUBSET A -> With]
        BY <1>2
    <2>2. ASSUME NEW X \in SUBSET A, NEW Y \in SUBSET A, f[X] = f[Y]
          PROVE  X = Y
        <3>1. X \cup {n + 1} = Y \cup {n + 1} /\ n + 1 \notin X /\ n + 1 \notin Y
            BY <1>2, <2>2
        <3> QED
            BY <3>1
    <2>3. ASSUME NEW Z \in With
          PROVE  \E X \in SUBSET A : f[X] = Z
        <3>1. Z \ {n + 1} \in SUBSET A /\ n + 1 \in Z
            BY <1>2
        <3>2. f[Z \ {n + 1}] = Z
            BY <3>1
        <3> QED
            BY <3>1, <3>2
    <2> HIDE DEF f, With
    <2>4. f \in Injection(SUBSET A, With)
        BY <2>1, <2>2 DEF Injection, IsInjective
    <2>5. f \in Surjection(SUBSET A, With)
        BY <2>1, <2>3 DEF Surjection
    <2> QED
        BY <2>4, <2>5 DEF Bijection
<1>7. Cardinality(With) = 2 ^ n
    <2>1. ExistsBijection(SUBSET A, With)
        BY <1>6, Zenon DEF ExistsBijection
    <2> HIDE DEF With
    <2> QED
        BY <1>3, <2>1, FS_Bijection
<1> QED
    BY <1>4, <1>5, <1>7

\* Half as many words as there are.
Half == 2 ^ (W - 1)

LEMMA WordSize ==
    /\ Half \in Nat /\ Half >= 2 /\ 2 ^ W = 2 * Half
    /\ MinInt = -Half /\ MaxInt = Half - 1 /\ Ints = -Half .. Half - 1
<1>1. W - 1 \in Nat /\ W - 2 \in Nat /\ (W - 1) + 1 = W /\ (W - 2) + 1 = W - 1
    BY WAssumption
<1>2. Half \in Nat /\ 2 ^ W = 2 * Half
    BY <1>1, PowerOfTwo DEF Half
<1>3. Half >= 2
    <2>1. 2 ^ (W - 2) \in Nat /\ 2 ^ (W - 2) >= 1 /\ 2 ^ ((W - 2) + 1) = 2 * 2 ^ (W - 2)
        BY <1>1, PowerOfTwo, Zenon
    <2>2. Half = 2 * 2 ^ (W - 2)
        BY <1>1, <2>1, Zenon DEF Half
    <2> QED
        BY <2>1, <2>2
<1> QED
    BY <1>2, <1>3 DEF Half, MinInt, MaxInt, Ints

LEMMA Remainder ==
    ASSUME NEW m \in Nat, m >= 1, NEW n \in Int
    PROVE  /\ 0 <= n /\ n < m => n % m = n
           /\ -m <= n /\ n < 0 => n % m = n + m
           /\ m <= n /\ n < 2 * m => n % m = n - m
           /\ n % m \in 0 .. m - 1
OBVIOUS

LEMMA WrapWord ==
    ASSUME NEW n \in Int
    PROVE  /\ n \in Ints => Wrap(n) = n
           /\ Half <= n /\ n < 3 * Half => Wrap(n) = n - 2 * Half
           /\ -3 * Half <= n /\ n < -Half => Wrap(n) = n + 2 * Half
           /\ Wrap(n) \in Ints
<1> DEFINE M == 2 * Half
           r == n % M
<1>1. /\ Wrap(n) = IF r > Half - 1 THEN r - M ELSE r
      /\ Half \in Nat /\ Half >= 2 /\ Ints = -Half .. Half - 1
    BY WordSize DEF Wrap, Signed
<1>2. M \in Nat /\ M >= 1
    BY <1>1
<1>3. /\ 0 <= n /\ n < M => r = n
      /\ -M <= n /\ n < 0 => r = n + M
      /\ M <= n /\ n < 2 * M => r = n - M
      /\ r \in 0 .. M - 1
    BY <1>2, Remainder
<1>4. -2 * M <= n /\ n < -M => r = n + 2 * M
    BY <1>2
<1> HIDE DEF r
<1> QED
    BY <1>1, <1>3, <1>4

LEMMA UnsignedWord ==
    ASSUME NEW n \in Int
    PROVE  /\ 0 <= n /\ n < 2 * Half => Unsigned(n) = n
           /\ -2 * Half <= n /\ n < 0 => Unsigned(n) = n + 2 * Half
           /\ Unsigned(n) \in 0 .. 2 * Half - 1
<1>1. Unsigned(n) = n % (2 * Half) /\ 2 * Half \in Nat /\ 2 * Half >= 1
    BY WordSize DEF Unsigned
<1> QED
    BY <1>1, Remainder

LEMMA DivMod ==
    ASSUME NEW m \in Int, NEW n \in Nat, n >= 1
    PROVE  /\ m \div n \in Int
           /\ m = n * (m \div n) + (m % n)
           /\ m % n \in 0 .. n - 1
OBVIOUS

LEMMA Monotone ==
    ASSUME NEW n \in Nat, NEW a \in Int, NEW b \in Int, a <= b
    PROVE  n * a <= n * b /\ n * a \in Int /\ n * b \in Int
<1> DEFINE k == b - a
<1>1. k \in Nat /\ b = a + k
    OBVIOUS
<1> HIDE DEF k
<1>2. n * k \in Nat /\ n * a \in Int
    BY <1>1
<1>3. n * b = n * a + n * k
    BY <1>1
<1> QED
    BY <1>2, <1>3

\* The quotient is the only number whose multiple is within the divisor below.
LEMMA Quotient ==
    ASSUME NEW m \in Int, NEW n \in Nat, n >= 1, NEW q \in Int,
           n * q <= m, m < n * q + n
    PROVE  m \div n = q
<1> DEFINE d == m \div n
<1>1. d \in Int /\ n * d <= m /\ m < n * d + n /\ n * d \in Int /\ n * q \in Int
    BY DivMod
<1> HIDE DEF d
<1>2. ~ d <= q - 1
    <2> SUFFICES ASSUME d <= q - 1 PROVE FALSE
        OBVIOUS
    <2>1. n * d <= n * (q - 1)
        BY <1>1, Monotone
    <2>2. n * (q - 1) = n * q - n
        OBVIOUS
    <2> QED
        BY <1>1, <2>1, <2>2
<1>3. ~ q <= d - 1
    <2> SUFFICES ASSUME q <= d - 1 PROVE FALSE
        OBVIOUS
    <2>1. n * q <= n * (d - 1)
        BY <1>1, Monotone
    <2>2. n * (d - 1) = n * d - n
        BY <1>1
    <2> QED
        BY <1>1, <2>1, <2>2
<1>4. d = q
    BY <1>1, <1>2, <1>3
<1> QED
    BY <1>4 DEF d

\* Dividing the absolute values decides everything: their quotient and rest.
LEMMA DivisionOf ==
    ASSUME NEW m \in Int, NEW n \in Int \ {0}
    PROVE  \E Q \in Nat, R \in Nat :
               /\ R < Abs(n) /\ Abs(m) = Abs(n) * Q + R /\ Q <= Abs(m)
               /\ Quo(m, n) = IF (m < 0) # (n < 0) THEN -Q ELSE Q
               /\ Rem(m, n) = IF m < 0 THEN -R ELSE R
               /\ Floor(m, n) = IF (m < 0) # (n < 0) THEN IF R = 0 THEN -Q ELSE -Q - 1 ELSE Q
<1> DEFINE a == Abs(m)
           b == Abs(n)
           Q == a \div b
           R == a % b
           p == b * Q
<1>1. /\ a \in Nat /\ b \in Nat /\ b >= 1
      /\ m < 0 => m = -a /\ -m = a
      /\ ~ m < 0 => m = a /\ -m = -a
      /\ n < 0 => n = -b /\ -n = b /\ ~ n > 0
      /\ ~ n < 0 => n = b /\ n > 0
    BY DEF Abs
<1> HIDE DEF a, b
<1>2. Q \in Int /\ a = p + R /\ R \in 0 .. b - 1 /\ p \in Int
    BY <1>1, DivMod
<1>3. Q \in Nat /\ Q <= a
    BY <1>1
<1> HIDE DEF Q, R
<1>4. /\ n < 0 => n * Q = -p /\ n * (-Q) = p
      /\ ~ n < 0 => n * Q = p /\ n * (-Q) = -p
      /\ b * (-Q) = -p /\ b * (-Q - 1) = -p - b
    BY <1>1, <1>2
<1> HIDE DEF p
<1>5. Quo(m, n) = IF (m < 0) # (n < 0) THEN -Q ELSE Q
    BY DEF Quo, Q, a, b
<1>6. Rem(m, n) = IF m < 0 THEN -R ELSE R
    BY <1>1, <1>2, <1>4, <1>5 DEF Rem
<1>7. (-a) \div b = IF R = 0 THEN -Q ELSE -Q - 1
    <2>1. CASE R = 0
        <3>1. b * (-Q) <= -a /\ -a < b * (-Q) + b /\ -Q \in Int /\ -a \in Int
            BY <1>1, <1>2, <1>3, <1>4, <2>1
        <3> QED
            BY <1>1, <2>1, <3>1, Quotient
    <2>2. CASE R # 0
        <3>1. b * (-Q - 1) <= -a /\ -a < b * (-Q - 1) + b /\ -Q - 1 \in Int /\ -a \in Int
            BY <1>1, <1>2, <1>3, <1>4, <2>2
        <3> QED
            BY <1>1, <2>2, <3>1, Quotient
    <2> QED
        BY <2>1, <2>2
<1>8. Floor(m, n) = IF (m < 0) # (n < 0) THEN (-a) \div b ELSE Q
    <2>1. CASE n < 0 /\ m < 0
        BY <1>1, <2>1 DEF Floor, Q
    <2>2. CASE n < 0 /\ ~ m < 0
        BY <1>1, <2>2 DEF Floor
    <2>3. CASE ~ n < 0 /\ m < 0
        BY <1>1, <2>3 DEF Floor
    <2>4. CASE ~ n < 0 /\ ~ m < 0
        BY <1>1, <2>4 DEF Floor, Q
    <2> QED
        BY <2>1, <2>2, <2>3, <2>4
<1>9. R \in Nat /\ R < b /\ a = b * Q + R
    BY <1>1, <1>2 DEF p
<1> QED
    BY <1>3, <1>5, <1>6, <1>7, <1>8, <1>9 DEF a, b

LEMMA Divisions ==
    ASSUME NEW m \in Ints, NEW n \in Ints \ {0}
    PROVE  /\ IntIDiv(m, n) = Wrap(Floor(m, n))
           /\ IntMod(m, n) = m - n * Floor(m, n)
<1>1. m \in Int /\ n \in Int \ {0} /\ Half \in Nat /\ Half >= 2 /\ Abs(m) <= Half /\ Abs(n) \in Nat
    BY WordSize DEF Abs
<1>2. PICK Q \in Nat, R \in Nat :
          /\ R < Abs(n) /\ Abs(m) = Abs(n) * Q + R /\ Q <= Abs(m)
          /\ Quo(m, n) = IF (m < 0) # (n < 0) THEN -Q ELSE Q
          /\ Rem(m, n) = IF m < 0 THEN -R ELSE R
          /\ Floor(m, n) = IF (m < 0) # (n < 0) THEN IF R = 0 THEN -Q ELSE -Q - 1 ELSE Q
    BY <1>1, DivisionOf
<1> DEFINE p == Abs(n) * Q
           F == Floor(m, n)
<1>3. /\ p \in Int /\ Abs(m) = p + R
      /\ n < 0 => n * Q = -p /\ n * (-Q) = p /\ n * (-Q - 1) = p - n
      /\ ~ n < 0 => n * Q = p /\ n * (-Q) = -p /\ n * (-Q - 1) = -p - n
    BY <1>1, <1>2 DEF Abs
<1> HIDE DEF p
<1>4. CASE n = -1
    <2>1. R = 0 /\ Q = Abs(m)
        BY <1>1, <1>2, <1>4 DEF Abs
    <2>2. F = -m
        BY <1>1, <1>2, <1>4, <2>1 DEF Abs
    <2>3. IntIDiv(m, n) = Wrap(-m) /\ IntMod(m, n) = 0
        BY <1>1, <1>4 DEF IntIDiv, IntMod, ISub
    <2>4. m - n * (-m) = 0
        BY <1>1, <1>4
    <2> QED
        BY <2>2, <2>3, <2>4
<1>5. CASE n # -1
    <2>1. IntIDiv(m, n) = F
        BY <1>1, <1>2, <1>5 DEF IntIDiv
    <2>2. F \in Ints
        <3>1. ~ n < 0 \/ (n <= -2 /\ 2 * Q <= p)
            BY <1>1, <1>3, <1>5, Monotone
        <3> QED
            BY <1>1, <1>2, <1>3, <3>1, WordSize DEF Abs
    <2>3. Wrap(F) = F
        BY <2>2, WordSize, WrapWord
    <2>4. IntMod(m, n) = m - n * F
        <3>1. IntMod(m, n) = IF Rem(m, n) # 0 /\ (Rem(m, n) < 0) # (n < 0) THEN Rem(m, n) + n
                             ELSE Rem(m, n)
            BY <1>5 DEF IntMod
        <3> QED
            BY <1>1, <1>2, <1>3, <3>1 DEF Abs
    <2> QED
        BY <2>1, <2>3, <2>4
<1> QED
    BY <1>4, <1>5

\* Induction, for a property given by the set of the numbers that have it.
LEMMA SetInduction ==
    ASSUME NEW S \in SUBSET Nat, 0 \in S, \A n \in S : n + 1 \in S
    PROVE  \A n \in Nat : n \in S
<1> DEFINE Bad == Nat \ S
           Less == OpToRel(<, Nat)
<1> SUFFICES ASSUME Bad # {} PROVE FALSE
    OBVIOUS
<1>1. IsWellFoundedOn(Less, Nat) /\ \A x, y \in Nat : <<y, x>> \notin Less => x <= y
    BY NatLessThanWellFounded DEF OpToRel
<1> HIDE DEF Less
<1>2. PICK n \in Bad : \A k \in Bad : <<k, n>> \notin Less
    BY <1>1, WFMin
<1>3. n # 0 /\ n - 1 \in Nat /\ (n - 1) + 1 = n
    OBVIOUS
<1>4. n - 1 \in S
    <2> SUFFICES ASSUME n - 1 \notin S PROVE FALSE
        OBVIOUS
    <2>1. n \in Nat /\ n - 1 \in Bad
        BY <1>3
    <2> HIDE DEF Bad
    <2>2. <<n - 1, n>> \notin Less
        BY <1>2, <2>1
    <2>3. n <= n - 1
        BY <1>1, <1>3, <2>1, <2>2, Zenon
    <2> QED
        BY <2>1, <2>3
<1> QED
    BY <1>3, <1>4

LEMMA PowerSum ==
    ASSUME NEW a \in Nat, NEW b \in Nat
    PROVE  2 ^ (a + b) = 2 ^ a * 2 ^ b
<1> DEFINE S == {k \in Nat : 2 ^ (a + k) = 2 ^ a * 2 ^ k}
<1>1. 2 ^ a \in Nat
    BY PowerOfTwo
<1>2. 0 \in S
    <2>1. 2 ^ 0 = 1 /\ a + 0 = a
        OBVIOUS
    <2>2. 2 ^ a * 1 = 2 ^ a
        BY <1>1
    <2> QED
        BY <2>1, <2>2
<1>3. ASSUME NEW k \in S
      PROVE  k + 1 \in S
    <2> DEFINE x == 2 ^ a
               y == 2 ^ k
               z == 2 ^ (a + k)
    <2>1. /\ x \in Nat /\ y \in Nat /\ z = x * y
          /\ 2 ^ (k + 1) = 2 * y /\ 2 ^ ((a + k) + 1) = 2 * z
        BY PowerOfTwo
    <2>2. a + (k + 1) = (a + k) + 1
        OBVIOUS
    <2> HIDE DEF x, y, z
    <2>3. 2 ^ (a + (k + 1)) = 2 * z
        BY <2>1, <2>2, Zenon
    <2>4. 2 * z = x * (2 * y)
        BY <2>1
    <2>5. 2 ^ (a + (k + 1)) = x * 2 ^ (k + 1)
        BY <2>1, <2>3, <2>4, Zenon
    <2> QED
        BY <2>5 DEF x
<1> HIDE DEF S
<1>4. b \in S
    BY <1>2, <1>3, SetInduction DEF S
<1> QED
    BY <1>4 DEF S

LEMMA PowerGrows ==
    ASSUME NEW n \in Nat
    PROVE  n < 2 ^ n
<1> DEFINE S == {k \in Nat : k < 2 ^ k}
<1>1. 0 \in S
    BY PowerOfTwo
<1>2. ASSUME NEW k \in S
      PROVE  k + 1 \in S
    <2>1. 2 ^ k \in Nat /\ 2 ^ (k + 1) = 2 * 2 ^ k /\ k < 2 ^ k
        BY PowerOfTwo
    <2> QED
        BY <2>1
<1> HIDE DEF S
<1>3. n \in S
    BY <1>1, <1>2, SetInduction DEF S
<1> QED
    BY <1>3 DEF S

\* A shift by more bits than a word has leaves nothing of it.
LEMMA LongShift ==
    ASSUME NEW x \in Ints, NEW k \in Nat, k >= W
    PROVE  Wrap(x * 2 ^ k) = 0 /\ Signed(Unsigned(x) \div 2 ^ k) = 0
<1> DEFINE M == 2 * Half
           c == 2 ^ (k - W)
<1>1. M \in Nat /\ M >= 1 /\ 2 ^ W = M /\ x \in Int /\ Half \in Nat
    BY WordSize
<1>2. c \in Nat /\ c >= 1 /\ 2 ^ k = M * c
    <2>1. k - W \in Nat /\ W + (k - W) = k /\ W \in Nat
        BY WAssumption
    <2>2. 2 ^ (W + (k - W)) = 2 ^ W * 2 ^ (k - W)
        BY <2>1, PowerSum, Zenon
    <2> QED
        BY <1>1, <2>1, <2>2, PowerOfTwo
<1> HIDE DEF c, M
<1>3. M * c \in Nat /\ M * c >= M
    BY <1>1, <1>2
<1>4. Wrap(x * 2 ^ k) = 0
    <2> DEFINE d == x * c
    <2>1. d \in Int /\ x * (M * c) = M * d
        BY <1>1, <1>2
    <2> HIDE DEF d
    <2> DEFINE e == M * d
    <2>2. e \in Int /\ M * d <= e /\ e < M * d + M
        BY <1>1, <2>1
    <2> HIDE DEF e
    <2>3. e \div M = d
        BY <1>1, <2>1, <2>2, Quotient
    <2>4. e = M * (e \div M) + (e % M) /\ e % M \in Int
        BY <1>1, <2>2, DivMod
    <2>5. e = M * d + (e % M)
        BY <2>3, <2>4, Zenon
    <2>6. e % M = 0
        BY <2>2, <2>4, <2>5 DEF e
    <2>7. (x * 2 ^ k) % 2 ^ W = 0
        BY <1>1, <1>2, <2>1, <2>6 DEF e
    <2> QED
        BY <2>7, WordSize DEF Wrap, Signed
<1>5. Signed(Unsigned(x) \div 2 ^ k) = 0
    <2>1. Unsigned(x) \in 0 .. M - 1
        BY <1>1, UnsignedWord DEF M
    <2>2. (M * c) * 0 <= Unsigned(x) /\ Unsigned(x) < (M * c) * 0 + M * c
        BY <1>1, <1>3, <2>1
    <2>3. Unsigned(x) \div (M * c) = 0
        BY <1>1, <1>3, <2>1, <2>2, Quotient
    <2> QED
        BY <1>2, <2>3, WordSize DEF Signed
<1> QED
    BY <1>4, <1>5

LEMMA Shifts ==
    ASSUME NEW x \in Ints, NEW y \in Ints
    PROVE  ShiftL(x, y) = Shifted(x, y) /\ ShiftR(x, y) = Shifted(x, -y)
<1>1. W \in Nat /\ Half \in Nat /\ Half >= W /\ x \in Int /\ y \in -Half .. Half - 1 /\ W >= 2
    <2>1. W \in Nat /\ W >= 2 /\ W - 1 \in Nat
        BY WAssumption
    <2>2. W - 1 < Half
        BY <2>1, PowerGrows DEF Half
    <2> QED
        BY <2>1, <2>2, WordSize
<1>2. ASSUME NEW k \in -Half .. Half
      PROVE  ShiftL(x, k) = Shifted(x, k)
    <2>1. CASE k >= W
        BY <1>1, <2>1, LongShift DEF ShiftL, Shifted
    <2>2. CASE k <= -W
        <3>1. -k \in Nat /\ -k >= W /\ k < 0
            BY <1>1, <2>2
        <3>2. Signed(Unsigned(x) \div 2 ^ (-k)) = 0
            BY <3>1, LongShift
        <3> QED
            BY <2>2, <3>1, <3>2 DEF ShiftL, Shifted
    <2>3. CASE ~ k >= W /\ ~ k <= -W
        BY <2>3 DEF ShiftL, Shifted
    <2> QED
        BY <2>1, <2>2, <2>3
<1>3. CASE y # -Half
    <2>1. Wrap(-y) = -y
        BY <1>1, <1>3, WrapWord, WordSize
    <2> QED
        BY <1>1, <1>2, <2>1 DEF ShiftR
<1>4. CASE y = -Half
    <2>1. Wrap(Half) = -Half /\ -y = Half
        BY <1>1, <1>4, WrapWord
    <2>2. ShiftL(x, -Half) = 0
        BY <1>1, LongShift DEF ShiftL
    <2>3. Shifted(x, Half) = 0
        BY <1>1, LongShift DEF Shifted
    <2> QED
        BY <1>1, <1>2, <2>1, <2>2, <2>3 DEF ShiftR
<1> QED
    BY <1>3, <1>4

-----------------------------------------------------------------------------
(* The numeric for loop. *)

\* The value of the control variable after n turns, and the distance covered.
Straight(init, count, step) == [n \in 0 .. count |-> init + n * step]
Turned(index, init, count, step) ==
    [n \in 0 .. count |-> IF n = 0 THEN init ELSE IAdd(index[n - 1], step)]

\* As long as no turn leaves the words, adding step as words is adding it.
LEMMA ForIndexIsStraight ==
    ASSUME NEW init \in Int, NEW step \in Int, NEW count \in Nat,
           \A n \in 0 .. count : init + n * step \in Ints
    PROVE  ForIndex(init, count, step) = Straight(init, count, step)
<1> DEFINE F == Straight(init, count, step)
           g == ForIndex(init, count, step)
<1>1. g = CHOOSE index : index = Turned(index, init, count, step)
    BY Zenon DEF ForIndex, Turned
<1>2. F = Turned(F, init, count, step)
    <2>1. ASSUME NEW n \in 0 .. count
          PROVE  F[n] = IF n = 0 THEN init ELSE IAdd(F[n - 1], step)
        <3>1. F[n] = init + n * step /\ (n # 0 => F[n - 1] = init + (n - 1) * step)
            BY DEF Straight
        <3>2. init + 0 * step = init /\ (init + (n - 1) * step) + step = init + n * step
            OBVIOUS
        <3>3. Wrap(init + n * step) = init + n * step
            BY WrapWord
        <3> QED
            BY <3>1, <3>2, <3>3 DEF IAdd
    <2> QED
        BY <2>1, Zenon DEF Straight, Turned
<1>3. g = Turned(g, init, count, step)
    BY <1>1, <1>2, Zenon
<1> HIDE DEF g, F
<1>4. ASSUME NEW n \in 0 .. count
      PROVE  /\ g[n] = IF n = 0 THEN init ELSE IAdd(g[n - 1], step)
             /\ F[n] = IF n = 0 THEN init ELSE IAdd(F[n - 1], step)
    BY <1>2, <1>3, Zenon DEF Turned
<1>5. \A n \in 0 .. count : g[n] = F[n]
    <2> DEFINE S == {n \in Nat : n <= count => g[n] = F[n]}
    <2>1. 0 \in S
        BY <1>4
    <2>2. ASSUME NEW n \in S
          PROVE  n + 1 \in S
        <3> SUFFICES ASSUME n + 1 <= count PROVE g[n + 1] = F[n + 1]
            OBVIOUS
        <3>1. n + 1 \in 0 .. count /\ n + 1 # 0 /\ (n + 1) - 1 = n /\ g[n] = F[n]
            OBVIOUS
        <3> QED
            BY <1>4, <3>1, Zenon
    <2> HIDE DEF S
    <2>3. \A n \in Nat : n \in S
        BY <2>1, <2>2, SetInduction DEF S
    <2> QED
        BY <2>3 DEF S
<1> QED
    BY <1>2, <1>3, <1>5, Zenon DEF g, F, Turned

\* How far a loop goes, as numbers: the distance to the clipped limit divided
\* by the size of the step.
Span(c) == IF c.step > 0 THEN Clip(c.limit, c.step) - c.init ELSE c.init - Clip(c.limit, c.step)
Size(step) == IF step > 0 THEN step ELSE -step

LEMMA ForTypes ==
    ASSUME NEW c \in ForCalls
    PROVE  /\ c.init \in Ints /\ c.step \in Ints \ {0} /\ Clip(c.limit, c.step) \in Ints
           /\ Span(c) \in Int /\ Size(c.step) \in Nat /\ Size(c.step) >= 1
           /\ Skips(c.init, c.limit, c.step) => 0 \notin Turns(c)
           /\ ~ Skips(c.init, c.limit, c.step) =>
                  /\ Span(c) \in 0 .. 2 * Half - 1
                  /\ \A v \in Ints : Reached(v, c) <=> IF c.step > 0 THEN v <= Clip(c.limit, c.step)
                                                      ELSE v >= Clip(c.limit, c.step)
<1>1. c.init \in Ints /\ c.step \in Ints \ {0} /\ c.limit \in Limits
    BY DEF ForCalls
<1>2. /\ Half \in Nat /\ Half >= 2 /\ MinInt = -Half /\ MaxInt = Half - 1
      /\ Ints = -Half .. Half - 1
    BY WordSize
<1>3. \/ c.limit.word = TRUE /\ c.limit.value \in Ints
      \/ c.limit.word = FALSE /\ c.limit.value \in {-1, 1}
    BY <1>1 DEF Limits
<1>4. Clip(c.limit, c.step) \in Ints
    BY <1>2, <1>3 DEF Clip
<1>5. ASSUME Skips(c.init, c.limit, c.step)
      PROVE  0 \notin Turns(c)
    <2>1. c.init + 0 * c.step = c.init
        BY <1>1, <1>2
    <2>2. ~ Reached(c.init, c)
        BY <1>1, <1>2, <1>3, <1>5 DEF Skips, Reached, Clip
    <2> QED
        BY <2>1, <2>2 DEF Turns
<1>6. ASSUME ~ Skips(c.init, c.limit, c.step)
      PROVE  /\ Span(c) \in 0 .. 2 * Half - 1
             /\ \A v \in Ints : Reached(v, c) <=> IF c.step > 0 THEN v <= Clip(c.limit, c.step)
                                                 ELSE v >= Clip(c.limit, c.step)
    <2>1. Span(c) \in 0 .. 2 * Half - 1
        BY <1>1, <1>2, <1>4, <1>6 DEF Skips, Span
    <2>2. ASSUME NEW v \in Ints
          PROVE  Reached(v, c) <=> IF c.step > 0 THEN v <= Clip(c.limit, c.step)
                                   ELSE v >= Clip(c.limit, c.step)
        BY <1>1, <1>2, <1>3, <1>6 DEF Skips, Reached, Clip
    <2> QED
        BY <2>1, <2>2
<1> QED
    BY <1>1, <1>2, <1>4, <1>5, <1>6 DEF Span, Size

\* forprep's unsigned arithmetic gives the whole steps that the distance holds.
LEMMA ForCountIsQuotient ==
    ASSUME NEW c \in ForCalls, ~ Skips(c.init, c.limit, c.step)
    PROVE  ForCount(c.init, c.limit, c.step) = Span(c) \div Size(c.step)
<1>1. /\ c.init \in Int /\ c.step \in Ints /\ Clip(c.limit, c.step) \in Int
      /\ Span(c) \in 0 .. 2 * Half - 1 /\ Half \in Nat /\ Ints = -Half .. Half - 1
      /\ c.step # 0
    BY ForTypes, WordSize
<1>2. Unsigned(Span(c)) = Span(c)
    BY <1>1, UnsignedWord
<1>3. StepSize(c.step) = Size(c.step)
    <2>1. CASE c.step > 0
        BY <2>1 DEF StepSize, Size
    <2>2. CASE ~ c.step > 0
        <3> DEFINE r == -(c.step + 1)
        <3>0. c.step \in Int /\ c.step < 0 /\ -Half <= c.step
            BY <1>1, <2>2
        <3>1. r \in Ints /\ 0 <= r /\ r < 2 * Half /\ r \in Int /\ r + 1 = -c.step
            BY <1>1, <3>0
        <3> HIDE DEF r
        <3>2. Wrap(r) = r /\ Unsigned(r) = r
            BY <3>1, WrapWord, UnsignedWord
        <3>3. StepSize(c.step) = Unsigned(Wrap(r)) + 1
            BY <2>2 DEF StepSize, r
        <3> QED
            BY <2>2, <3>1, <3>2, <3>3 DEF Size
    <2> QED
        BY <2>1, <2>2
<1> QED
    BY <1>2, <1>3 DEF ForCount, Distance, Span

LEMMA Between ==
    ASSUME NEW i \in Ints, NEW last \in Ints, NEW d \in Nat
    PROVE  (d <= last - i => i + d \in Ints) /\ (d <= i - last => i - d \in Ints)
BY WordSize

\* The turns of a loop that is not skipped are the first ones.
LEMMA TurnsAreFirst ==
    ASSUME NEW c \in ForCalls, ~ Skips(c.init, c.limit, c.step),
           NEW q, q = Span(c) \div Size(c.step)
    PROVE  /\ q \in Nat /\ Turns(c) = 0 .. q
           /\ \A n \in 0 .. q : c.init + n * c.step \in Ints
<1> DEFINE s == Size(c.step)
           D == Span(c)
           last == Clip(c.limit, c.step)
<1>1. /\ c.init \in Ints /\ c.step \in Int /\ last \in Ints /\ Half \in Nat
      /\ Ints = -Half .. Half - 1 /\ 2 ^ W = 2 * Half /\ D \in 0 .. 2 * Half - 1
      /\ s \in Nat /\ s >= 1
    BY ForTypes, WordSize
<1>2. /\ c.step > 0 => s = c.step /\ D = last - c.init
      /\ ~ c.step > 0 => c.step = -s /\ D = c.init - last
    BY <1>1 DEF Span, Size
<1>3. \A v \in Ints : Reached(v, c) <=> IF c.step > 0 THEN v <= last ELSE v >= last
    BY ForTypes
<1>quotient. q = D \div s
    OBVIOUS
<1> HIDE DEF s, D, last
<1>4. q \in Int /\ D = s * q + (D % s) /\ D % s \in 0 .. s - 1 /\ s * q \in Int
    <2>1. D \in Int /\ s \in Nat /\ s >= 1
        BY <1>1
    <2>2. D \div s \in Int /\ D = s * (D \div s) + (D % s) /\ D % s \in 0 .. s - 1
        BY <2>1, DivMod, Zenon
    <2>3. s * (D \div s) \in Int
        BY <2>1, <2>2
    <2> QED
        BY <1>quotient, <2>2, <2>3, Zenon
<1>5. q \in Nat /\ q <= D
    <2>1. q \in Nat
        BY <1>1, <1>quotient
    <2>2. s * q >= q
        BY <1>1, <2>1
    <2> QED
        BY <1>1, <1>4, <2>1, <2>2
<1>6. ASSUME NEW n \in Nat
      PROVE  (s * n <= D <=> n <= q) /\ s * n \in Nat
    <2> DEFINE now == s * n
               most == s * q
               rest == D % s
    <2>1. now \in Nat /\ most \in Int /\ rest \in 0 .. s - 1 /\ D = most + rest /\ s \in Nat
        BY <1>1, <1>4
    <2>types. s \in Nat /\ s >= 1 /\ n \in Int /\ q \in Int /\ q + 1 \in Int
        BY <1>1, <1>5
    <2>2. n <= q => now <= most
        BY <2>types, Monotone, Zenon
    <2>3. q + 1 <= n => s * (q + 1) <= now
        BY <2>types, Monotone, Zenon
    <2>4. s * (q + 1) = most + s
        BY <1>1, <1>5
    <2>5. n <= q \/ q + 1 <= n
        BY <1>5
    <2> HIDE DEF now, most, rest
    <2>6. now <= D <=> n <= q
        BY <1>5, <2>1, <2>2, <2>3, <2>4, <2>5
    <2> QED
        BY <2>1, <2>6 DEF now
<1>7. ASSUME NEW n \in Nat
      PROVE  n * c.step = IF c.step > 0 THEN s * n ELSE -(s * n)
    BY <1>1, <1>2
<1>8. ASSUME NEW n \in Nat
      PROVE  (c.init + n * c.step \in Ints /\ Reached(c.init + n * c.step, c)) <=> n <= q
    <2> DEFINE v == c.init + n * c.step
               d == s * n
    <2>1. d \in Nat /\ (d <= D <=> n <= q) /\ v = IF c.step > 0 THEN c.init + d ELSE c.init - d
        <3>1. d \in Nat /\ (d <= D <=> n <= q)
            BY <1>6, Zenon
        <3> DEFINE p == n * c.step
        <3>2. p = IF c.step > 0 THEN d ELSE -d
            BY <1>7, Zenon
        <3> HIDE DEF d, p
        <3>3. v = c.init + p
            BY DEF p
        <3> HIDE DEF v
        <3> QED
            BY <1>1, <3>1, <3>2, <3>3
    <2> HIDE DEF v, d
    <2>2. v \in Ints => (Reached(v, c) <=> d <= D)
        <3>1. v \in Ints => (Reached(v, c) <=> IF c.step > 0 THEN v <= last ELSE v >= last)
            BY <1>3, Zenon
        <3>2. c.init \in Int /\ last \in Int /\ D \in Int
            BY <1>1
        <3>3. (IF c.step > 0 THEN v <= last ELSE v >= last) <=> d <= D
            BY <1>2, <2>1, <3>2
        <3> QED
            BY <3>1, <3>3, Zenon
    <2>3. d <= D => v \in Ints
        <3>1. CASE c.step > 0
            <4>1. v = c.init + d /\ D = last - c.init
                BY <1>2, <2>1, <3>1
            <4> QED
                BY <1>1, <2>1, <4>1, Between
        <3>2. CASE ~ c.step > 0
            <4>1. v = c.init - d /\ D = c.init - last
                BY <1>2, <2>1, <3>2
            <4> QED
                BY <1>1, <2>1, <4>1, Between
        <3> QED
            BY <3>1, <3>2
    <2> QED
        BY <2>1, <2>2, <2>3 DEF v
<1>9. Turns(c) = 0 .. q
    <2>1. \A n \in Turns(c) : n \in 0 .. q
        BY <1>8 DEF Turns
    <2>2. ASSUME NEW n \in 0 .. q
          PROVE  n \in Turns(c)
        <3>1. n \in Nat /\ n \in 0 .. 2 ^ W
            BY <1>1, <1>5
        <3> QED
            BY <1>5, <1>8, <3>1 DEF Turns
    <2> QED
        BY <2>1, <2>2
<1> QED
    BY <1>5, <1>8, <1>9

LEMMA ForsAreExact ==
    ASSUME NEW c \in ForCalls
    PROVE  ForExact(c)
<1>1. c.init \in Int /\ c.step \in Int
    BY ForTypes, WordSize
<1>2. CASE Skips(c.init, c.limit, c.step)
    <2>1. 0 \notin Turns(c)
        BY <1>2, ForTypes
    <2>2. ForValues(c.init, c.limit, c.step) = <<>>
        BY <1>2 DEF ForValues
    <2>3. <<>> = [k \in 1 .. 0 |-> c.init + (k - 1) * c.step]
        OBVIOUS
    <2> QED
        BY <2>1, <2>2, <2>3, Zenon DEF ForExact
<1>3. CASE ~ Skips(c.init, c.limit, c.step)
    <2> DEFINE q == Span(c) \div Size(c.step)
               index == ForIndex(c.init, q, c.step)
    <2>1. /\ q \in Nat /\ Turns(c) = 0 .. q
          /\ \A n \in 0 .. q : c.init + n * c.step \in Ints
        BY <1>3, TurnsAreFirst
    <2>2. ForCount(c.init, c.limit, c.step) = q
        BY <1>3, ForCountIsQuotient
    <2> HIDE DEF q
    <2>3. index = Straight(c.init, q, c.step)
        BY <1>1, <2>1, ForIndexIsStraight
    <2>4. ForValues(c.init, c.limit, c.step) = [k \in 1 .. q + 1 |-> index[k - 1]]
        BY <1>3, <2>2, Zenon DEF ForValues
    <2> HIDE DEF index
    <2>5. \A k \in 1 .. q + 1 : index[k - 1] = c.init + (k - 1) * c.step
        <3>1. \A k \in 1 .. q + 1 : k - 1 \in 0 .. q
            BY <2>1
        <3> QED
            BY <2>3, <3>1, Zenon DEF Straight
    <2>6. 0 \in Turns(c) /\ Cardinality(Turns(c)) = q + 1
        BY <2>1, FS_Interval
    <2>7. [k \in 1 .. q + 1 |-> index[k - 1]] = [k \in 1 .. q + 1 |-> c.init + (k - 1) * c.step]
        BY <2>5
    <2> QED
        BY <2>4, <2>6, <2>7, Zenon DEF ForExact
<1> QED
    BY <1>2, <1>3

-----------------------------------------------------------------------------
(* Loops that copy: FoldLeft takes the last position first. *)

OnSubsets(g, D) == g = [A \in SUBSET D |-> g[A]]
Agree(g, h, A) == \E x \in A : g[A \ {x}] = h[A \ {x}] => g[A] = h[A]

\* Two functions on the subsets of a finite set that agree on a set whenever
\* they do without one of its members are the same.
LEMMA SameOnSubsets ==
    ASSUME NEW D, IsFiniteSet(D), NEW g, NEW h, OnSubsets(g, D), OnSubsets(h, D),
           g[{}] = h[{}], \A A \in SUBSET D : A # {} => Agree(g, h, A)
    PROVE  g = h
<1> DEFINE Bad == {A \in SUBSET D : g[A] # h[A]}
<1>1. Bad = {}
    <2> SUFFICES ASSUME Bad # {} PROVE FALSE
        OBVIOUS
    <2>1. IsWellFoundedOn(StrictSubsetOrdering(D), SUBSET D)
        <3>1. FiniteSubsetsOf(D) = SUBSET D
            BY FS_FiniteSubsetsOfFinite, Zenon
        <3> QED
            BY <3>1, FS_StrictSubsetOrderingWellFounded, Zenon
    <2>2. PICK A \in Bad : \A B \in Bad : <<B, A>> \notin StrictSubsetOrdering(D)
        BY <2>1, WFMin
    <2>3. A \in SUBSET D /\ A # {} /\ g[A] # h[A]
        BY <2>2
    <2>4. PICK x \in A : g[A \ {x}] = h[A \ {x}] => g[A] = h[A]
        BY <2>3 DEF Agree
    <2>5. A \ {x} \in SUBSET D /\ <<A \ {x}, A>> \in StrictSubsetOrdering(D)
        BY <2>3 DEF StrictSubsetOrdering
    <2>6. A \ {x} \notin Bad
        BY <2>2, <2>5
    <2> QED
        BY <2>3, <2>4, <2>5, <2>6
<1>2. \A A \in SUBSET D : g[A] = h[A]
    BY <1>1
<1> QED
    BY <1>2 DEF OnSubsets

LEMMA Largest ==
    ASSUME NEW n \in Nat, NEW A \in SUBSET (1 .. n), A # {}
    PROVE  Max(A) \in A /\ \A x \in A : x <= Max(A)
<1> DEFINE S == {k \in Nat : \A B \in SUBSET (1 .. k) :
                                 B # {} => \E x \in B : \A y \in B : x >= y}
<1>1. 0 \in S
    <2>1. \A B \in SUBSET (1 .. 0) : B = {}
        OBVIOUS
    <2> QED
        BY <2>1, Zenon
<1>2. ASSUME NEW k \in S
      PROVE  k + 1 \in S
    <2> SUFFICES ASSUME NEW B \in SUBSET (1 .. k + 1), B # {}
                 PROVE  \E x \in B : \A y \in B : x >= y
        OBVIOUS
    <2>1. CASE k + 1 \in B
        BY <2>1
    <2>2. CASE k + 1 \notin B
        <3>1. B \in SUBSET (1 .. k)
            BY <2>2
        <3> QED
            BY <3>1
    <2> QED
        BY <2>1, <2>2
<1> HIDE DEF S
<1>3. n \in S
    BY <1>1, <1>2, SetInduction DEF S
<1>4. \E x \in A : \A y \in A : x >= y
    BY <1>3 DEF S
<1>5. Max(A) \in A /\ \A y \in A : Max(A) >= y
    BY <1>4, Zenon DEF Max
<1> QED
    BY <1>5

Updated(t, i, v) == [t EXCEPT ![i] = v]

\* What a loop over the positions of A has left of `base': they are taken
\* from `source'.
Copied(base, source, positions) ==
    [A \in SUBSET DOMAIN positions |->
        [i \in Ints |-> IF \E k \in A : positions[k] = i THEN source[i] ELSE base[i]]]

PartOf(A, m, positions) == A \in SUBSET DOMAIN positions /\ m \in A

TakesOne(C, source, positions, A, m) ==
    C[A] = Updated(C[A \ {m}], positions[m], source[positions[m]])

LEMMA CopiedStep ==
    ASSUME NEW base, NEW source, NEW positions, NEW A, NEW m, PartOf(A, m, positions)
    PROVE  TakesOne(Copied(base, source, positions), source, positions, A, m)
<1> DEFINE C == Copied(base, source, positions)
           B == A \ {m}
<1>1. /\ C[A] = [i \in Ints |-> IF \E k \in A : positions[k] = i THEN source[i] ELSE base[i]]
      /\ C[B] = [i \in Ints |-> IF \E k \in B : positions[k] = i THEN source[i] ELSE base[i]]
    BY DEF Copied, PartOf
<1>2. \A i \in Ints : (\E k \in A : positions[k] = i) <=>
                      (positions[m] = i \/ \E k \in B : positions[k] = i)
    BY DEF PartOf
<1> HIDE DEF C, B
<1> QED
    BY <1>1, <1>2 DEF C, B, Updated, TakesOne

\* Copies and the loop of table.move into another table, as the prover sees them.
CopyWithin(iter, t, positions, shift) ==
    [A \in SUBSET DOMAIN positions |->
        IF A = {} THEN t
        ELSE Updated(iter[A \ {Max(A)}], positions[Max(A)],
                    iter[A \ {Max(A)}][positions[Max(A)] + shift])]

CopyAcross(iter, to, t, positions, f, tpos) ==
    [A \in SUBSET DOMAIN positions |->
        IF A = {} THEN to
        ELSE Updated(iter[A \ {Max(A)}], positions[Max(A)],
                    t[positions[Max(A)] - tpos + f])]

Across(to, t, positions, f, tpos) ==
    FoldLeft(LAMBDA acc, i : [acc EXCEPT ![i] = t[i - tpos + f]], to, positions)

LEMMA CopiesIsFold ==
    ASSUME NEW t, NEW positions, NEW shift
    PROVE  Copies(t, positions, shift) =
           (CHOOSE iter : iter = CopyWithin(iter, t, positions, shift))[DOMAIN positions]
BY Zenon DEF Copies, FoldLeft, MapThenFoldSet, CopyWithin, Updated

LEMMA AcrossIsFold ==
    ASSUME NEW to, NEW t, NEW positions, NEW f, NEW tpos
    PROVE  Across(to, t, positions, f, tpos) =
           (CHOOSE iter : iter = CopyAcross(iter, to, t, positions, f, tpos))[DOMAIN positions]
BY Zenon DEF Across, FoldLeft, MapThenFoldSet, CopyAcross, Updated

IsTable(t) == t = [i \in Ints |-> t[i]]

\* No position is read after it was written.
NeverReread(positions, n, shift) ==
    /\ n \in Nat /\ positions \in [1 .. n -> Ints]
    /\ \A k \in 1 .. n : positions[k] + shift \in Ints
    /\ \A k, m \in 1 .. n : k < m => positions[k] # positions[m] + shift

MovedBy(t, positions, n, shift) ==
    [i \in Ints |-> IF \E k \in 1 .. n : positions[k] = i THEN t[i + shift] ELSE t[i]]

\* Copying within a table then moves every item as it was.
LEMMA CopiesWhat ==
    ASSUME NEW t, IsTable(t), NEW positions, NEW n, NEW shift, NeverReread(positions, n, shift)
    PROVE  Copies(t, positions, shift) = MovedBy(t, positions, n, shift)
<1> DEFINE source == [i \in Ints |-> t[i + shift]]
           C == Copied(t, source, positions)
           g == CHOOSE iter : iter = CopyWithin(iter, t, positions, shift)
<1>1. DOMAIN positions = 1 .. n /\ IsFiniteSet(1 .. n) /\ n \in Nat
    BY FS_Interval DEF NeverReread
<1>2. C[{}] = t /\ OnSubsets(C, 1 .. n)
    BY <1>1 DEF Copied, OnSubsets, IsTable
<1>3. ASSUME NEW A \in SUBSET (1 .. n), A # {}
      PROVE  /\ Max(A) \in A
             /\ C[A] = Updated(C[A \ {Max(A)}], positions[Max(A)],
                    C[A \ {Max(A)}][positions[Max(A)] + shift])
    <2> DEFINE m == Max(A)
               B == A \ {m}
    <2>1. m \in A /\ m \in 1 .. n /\ \A x \in A : x <= m
        BY <1>1, <1>3, Largest
    <2> HIDE DEF m
    <2> HIDE DEF source
    <2>2. C[A] = Updated(C[B], positions[m], source[positions[m]])
        <3>1. PartOf(A, m, positions)
            BY <1>1, <2>1 DEF PartOf
        <3>2. TakesOne(C, source, positions, A, m)
            BY <3>1, CopiedStep, Zenon
        <3> QED
            BY <3>2, Zenon DEF TakesOne
    <2>3. positions[m] + shift \in Ints /\ source[positions[m]] = t[positions[m] + shift]
        BY <2>1 DEF source, NeverReread
    <2>4. \A k \in B : positions[k] # positions[m] + shift
        <3>1. \A k \in B : k \in 1 .. n /\ k < m
            BY <2>1
        <3> QED
            BY <2>1, <3>1 DEF NeverReread
    <2>5. C[B][positions[m] + shift] = t[positions[m] + shift]
        BY <1>1, <2>3, <2>4 DEF Copied
    <2> QED
        BY <2>1, <2>2, <2>3, <2>5, Zenon DEF m
<1> HIDE DEF C, source
<1>4. C = CopyWithin(C, t, positions, shift)
    <2>1. CopyWithin(C, t, positions, shift) = [A \in SUBSET (1 .. n) |-> C[A]]
        BY <1>1, <1>2, <1>3, Zenon DEF CopyWithin
    <2> QED
        BY <1>2, <2>1, Zenon DEF OnSubsets
<1>5. g = CopyWithin(g, t, positions, shift)
    BY <1>4, Zenon
<1> HIDE DEF g
<1>6. /\ OnSubsets(g, 1 .. n)
      /\ g[{}] = t
      /\ \A A \in SUBSET (1 .. n) : A # {} =>
             g[A] = Updated(g[A \ {Max(A)}], positions[Max(A)],
                    g[A \ {Max(A)}][positions[Max(A)] + shift])
    BY <1>1, <1>5 DEF CopyWithin, OnSubsets
<1>7. ASSUME NEW A \in SUBSET (1 .. n), A # {}
      PROVE  Agree(g, C, A)
    <2>1. /\ Max(A) \in A
          /\ g[A \ {Max(A)}] = C[A \ {Max(A)}] => g[A] = C[A]
        BY <1>3, <1>6, <1>7, Zenon
    <2> QED
        BY <2>1, Zenon DEF Agree
<1>8. g = C
    BY <1>1, <1>2, <1>6, <1>7, SameOnSubsets, Zenon
<1>9. Copies(t, positions, shift) = C[1 .. n]
    BY <1>1, <1>8, CopiesIsFold, Zenon DEF g
<1>10. C[1 .. n] = MovedBy(t, positions, n, shift)
    <2>1. C[1 .. n] = [i \in Ints |-> IF \E k \in 1 .. n : positions[k] = i THEN source[i] ELSE t[i]]
        BY <1>1 DEF C, Copied
    <2>2. \A i \in Ints : source[i] = t[i + shift]
        BY DEF source
    <2> QED
        BY <2>1, <2>2 DEF MovedBy
<1> QED
    BY <1>9, <1>10, Zenon

InWords(positions, n) == n \in Nat /\ positions \in [1 .. n -> Ints]

TakenFrom(to, t, positions, n, f, tpos) ==
    [i \in Ints |-> IF \E k \in 1 .. n : positions[k] = i THEN t[i - tpos + f] ELSE to[i]]

LEMMA AcrossWhat ==
    ASSUME NEW t, NEW to, IsTable(to), NEW n, NEW positions, InWords(positions, n),
           NEW f, NEW tpos
    PROVE  Across(to, t, positions, f, tpos) = TakenFrom(to, t, positions, n, f, tpos)
<1> DEFINE source == [i \in Ints |-> t[i - tpos + f]]
           C == Copied(to, source, positions)
           g == CHOOSE iter : iter = CopyAcross(iter, to, t, positions, f, tpos)
<1>1. DOMAIN positions = 1 .. n /\ IsFiniteSet(1 .. n) /\ n \in Nat
    BY FS_Interval DEF InWords
<1>2. C[{}] = to /\ OnSubsets(C, 1 .. n)
    BY <1>1 DEF Copied, OnSubsets, IsTable
<1>3. ASSUME NEW A \in SUBSET (1 .. n), A # {}
      PROVE  /\ Max(A) \in A
             /\ C[A] = Updated(C[A \ {Max(A)}], positions[Max(A)],
                    t[positions[Max(A)] - tpos + f])
    <2> DEFINE m == Max(A)
    <2>1. m \in A /\ m \in 1 .. n
        BY <1>1, <1>3, Largest
    <2> HIDE DEF m
    <2> HIDE DEF source
    <2>2. C[A] = Updated(C[A \ {m}], positions[m], source[positions[m]])
        <3>1. PartOf(A, m, positions)
            BY <1>1, <2>1 DEF PartOf
        <3>2. TakesOne(C, source, positions, A, m)
            BY <3>1, CopiedStep, Zenon
        <3> QED
            BY <3>2, Zenon DEF TakesOne
    <2>3. source[positions[m]] = t[positions[m] - tpos + f]
        BY <2>1 DEF source, InWords
    <2> QED
        BY <2>1, <2>2, <2>3, Zenon DEF m
<1> HIDE DEF C, source
<1>4. C = CopyAcross(C, to, t, positions, f, tpos)
    <2>1. CopyAcross(C, to, t, positions, f, tpos) = [A \in SUBSET (1 .. n) |-> C[A]]
        BY <1>1, <1>2, <1>3, Zenon DEF CopyAcross
    <2> QED
        BY <1>2, <2>1, Zenon DEF OnSubsets
<1>5. g = CopyAcross(g, to, t, positions, f, tpos)
    BY <1>4, Zenon
<1> HIDE DEF g
<1>6. /\ OnSubsets(g, 1 .. n)
      /\ g[{}] = to
      /\ \A A \in SUBSET (1 .. n) : A # {} =>
             g[A] = Updated(g[A \ {Max(A)}], positions[Max(A)],
                    t[positions[Max(A)] - tpos + f])
    BY <1>1, <1>5 DEF CopyAcross, OnSubsets
<1>7. ASSUME NEW A \in SUBSET (1 .. n), A # {}
      PROVE  Agree(g, C, A)
    <2>1. /\ Max(A) \in A
          /\ g[A \ {Max(A)}] = C[A \ {Max(A)}] => g[A] = C[A]
        BY <1>3, <1>6, <1>7, Zenon
    <2> QED
        BY <2>1, Zenon DEF Agree
<1>8. g = C
    BY <1>1, <1>2, <1>6, <1>7, SameOnSubsets, Zenon
<1>9. Across(to, t, positions, f, tpos) = C[1 .. n]
    BY <1>1, <1>8, AcrossIsFold, Zenon DEF g
<1>10. C[1 .. n] = TakenFrom(to, t, positions, n, f, tpos)
    <2>1. C[1 .. n] = [i \in Ints |-> IF \E k \in 1 .. n : positions[k] = i THEN source[i] ELSE to[i]]
        BY <1>1 DEF C, Copied
    <2>2. \A i \in Ints : source[i] = t[i - tpos + f]
        BY DEF source
    <2> QED
        BY <2>1, <2>2 DEF TakenFrom
<1> QED
    BY <1>9, <1>10, Zenon

-----------------------------------------------------------------------------
(* The functions of the table library. *)

\* How many words there are from a to b.
HowMany(a, b) == IF a > b THEN 0 ELSE b - a + 1

LEMMA Positions ==
    ASSUME NEW a \in Int, NEW b \in Int
    PROVE  LET n == HowMany(a, b) IN
           /\ n \in Nat
           /\ Upwards(a, b) = [k \in 1 .. n |-> a + k - 1]
           /\ Reverse(Upwards(a, b)) = [k \in 1 .. n |-> b - k + 1]
           /\ Len(Upwards(a, b)) = n
           /\ \A i \in a .. b : i - a + 1 \in 1 .. n /\ b - i + 1 \in 1 .. n
           /\ \A k \in 1 .. n : a + k - 1 \in a .. b /\ b - k + 1 \in a .. b
<1> DEFINE n == HowMany(a, b)
<1>1. n \in Nat /\ (n # 0 => n = b - a + 1 /\ a <= b)
    BY DEF HowMany
<1>2. Upwards(a, b) = [k \in 1 .. n |-> a + k - 1]
    BY DEF Upwards, HowMany
<1>size. n # 0 => n = b - a + 1
    BY <1>1
<1> DEFINE up == Upwards(a, b)
<1> HIDE DEF n
<1>3. up \in Seq(Int) /\ Len(up) = n
    <2>1. up \in [1 .. n -> Int]
        BY <1>1, <1>2
    <2> HIDE DEF up
    <2>2. up \in Seq(Int)
        BY <1>1, <2>1, SeqDef
    <2> QED
        BY <1>1, <2>1, <2>2, LenProperties
<1> HIDE DEF up
<1>4. Reverse(up) = [k \in 1 .. n |-> up[(n - k) + 1]]
    BY <1>3, Zenon DEF Reverse
<1>5. \A k \in 1 .. n : up[(n - k) + 1] = b - k + 1
    <2> SUFFICES ASSUME NEW k \in 1 .. n PROVE up[(n - k) + 1] = b - k + 1
        OBVIOUS
    <2>1. (n - k) + 1 \in 1 .. n /\ a + ((n - k) + 1) - 1 = b - k + 1
        BY <1>1
    <2> QED
        BY <1>2, <2>1, Zenon DEF up
<1>6. Reverse(up) = [k \in 1 .. n |-> b - k + 1]
    BY <1>4, <1>5
<1>7. /\ \A i \in a .. b : i - a + 1 \in 1 .. n /\ b - i + 1 \in 1 .. n
      /\ \A k \in 1 .. n : a + k - 1 \in a .. b /\ b - k + 1 \in a .. b
    BY <1>1 DEF HowMany, n
<1> QED
    BY <1>1, <1>2, <1>3, <1>6, <1>7 DEF up, n

\* A table whose words a .. b have been taken from `shift' further on.
ShiftedPart(t, a, b, shift) == [i \in Ints |-> IF i \in a .. b THEN t[i + shift] ELSE t[i]]

LEMMA CopiesUp ==
    ASSUME NEW t, IsTable(t), NEW a \in Int, NEW b \in Int, NEW shift \in Int,
           \A i \in a .. b : i \in Ints /\ i + shift \in Ints,
           shift >= 0 \/ shift < a - b
    PROVE  Copies(t, Upwards(a, b), shift) = ShiftedPart(t, a, b, shift)
<1> DEFINE n == HowMany(a, b)
           ps == Upwards(a, b)
<1>1. /\ n \in Nat /\ ps = [k \in 1 .. n |-> a + k - 1]
      /\ \A i \in a .. b : i - a + 1 \in 1 .. n
      /\ \A k \in 1 .. n : a + k - 1 \in a .. b
    BY Positions
<1>size. n # 0 => n = b - a + 1
    BY DEF HowMany
<1> HIDE DEF n, ps
<1>2. ps \in [1 .. n -> Ints] /\ \A k \in 1 .. n : ps[k] = a + k - 1 /\ ps[k] + shift \in Ints
    BY <1>1
<1>3. \A k, m \in 1 .. n : k < m => ps[k] # ps[m] + shift
    <2> SUFFICES ASSUME NEW k \in 1 .. n, NEW m \in 1 .. n, k < m
                 PROVE  a + k - 1 # (a + m - 1) + shift
        BY <1>2
    <2> QED
        BY <1>1, <1>size
<1>4. NeverReread(ps, n, shift)
    BY <1>1, <1>2, <1>3 DEF NeverReread
<1>6. Copies(t, ps, shift) = MovedBy(t, ps, n, shift)
    BY <1>4, CopiesWhat, Zenon
<1>5. \A i \in Ints : (\E k \in 1 .. n : ps[k] = i) <=> i \in a .. b
    <2> SUFFICES ASSUME NEW i \in Ints PROVE (\E k \in 1 .. n : ps[k] = i) <=> i \in a .. b
        OBVIOUS
    <2>1. i \in Int
        BY WordSize
    <2>2. i \in a .. b => i - a + 1 \in 1 .. n /\ a + (i - a + 1) - 1 = i
        <3>1. a + (i - a + 1) - 1 = i
            BY <2>1
        <3> QED
            BY <1>1, <3>1, Zenon
    <2>3. i \in a .. b => ps[i - a + 1] = i
        BY <1>2, <2>2
    <2> QED
        BY <1>1, <1>2, <2>2, <2>3
<1> QED
    BY <1>5, <1>6 DEF ShiftedPart, MovedBy, ps

LEMMA CopiesDown ==
    ASSUME NEW t, IsTable(t), NEW a \in Int, NEW b \in Int, NEW shift \in Int,
           \A i \in a .. b : i \in Ints /\ i + shift \in Ints,
           shift <= 0
    PROVE  Copies(t, Reverse(Upwards(a, b)), shift) = ShiftedPart(t, a, b, shift)
<1> DEFINE n == HowMany(a, b)
           ps == Reverse(Upwards(a, b))
<1>1. /\ n \in Nat /\ ps = [k \in 1 .. n |-> b - k + 1]
      /\ \A i \in a .. b : b - i + 1 \in 1 .. n
      /\ \A k \in 1 .. n : b - k + 1 \in a .. b
    BY Positions
<1> HIDE DEF n, ps
<1>2. ps \in [1 .. n -> Ints] /\ \A k \in 1 .. n : ps[k] = b - k + 1 /\ ps[k] + shift \in Ints
    BY <1>1
<1>3. \A k, m \in 1 .. n : k < m => ps[k] # ps[m] + shift
    <2> SUFFICES ASSUME NEW k \in 1 .. n, NEW m \in 1 .. n, k < m
                 PROVE  b - k + 1 # (b - m + 1) + shift
        BY <1>2
    <2> QED
        BY <1>1
<1>4. NeverReread(ps, n, shift)
    BY <1>1, <1>2, <1>3 DEF NeverReread
<1>6. Copies(t, ps, shift) = MovedBy(t, ps, n, shift)
    BY <1>4, CopiesWhat, Zenon
<1>5. \A i \in Ints : (\E k \in 1 .. n : ps[k] = i) <=> i \in a .. b
    <2> SUFFICES ASSUME NEW i \in Ints PROVE (\E k \in 1 .. n : ps[k] = i) <=> i \in a .. b
        OBVIOUS
    <2>1. i \in Int
        BY WordSize
    <2>2. i \in a .. b => b - i + 1 \in 1 .. n /\ b - (b - i + 1) + 1 = i
        <3>1. b - (b - i + 1) + 1 = i
            BY <2>1
        <3> QED
            BY <1>1, <3>1, Zenon
    <2>3. i \in a .. b => ps[b - i + 1] = i
        BY <1>2, <2>2
    <2> QED
        BY <1>1, <1>2, <2>2, <2>3
<1> QED
    BY <1>5, <1>6 DEF ShiftedPart, MovedBy, ps

LEMMA TableOfCalls ==
    ASSUME NEW t \in Tables
    PROVE  t \in [Ints -> Values] /\ IsTable(t)
BY CallAssumption DEF IsTable

LEMMA Inserts ==
    ASSUME NEW c \in InsertCalls
    PROVE  InsertExact(c.t, c.len, c.pos, c.v)
<1> DEFINE t == c.t
           e == c.len + 1
           pos == c.pos
           v == c.v
<1>1. IsTable(t) /\ c.len \in 0 .. Half - 2 /\ pos \in -Half .. Half - 1 /\ Half \in Nat
    BY TableOfCalls, WordSize DEF InsertCalls, Lengths
<1>2. e \in 1 .. Half - 1 /\ e \in Int /\ pos \in Int /\ pos \in Ints
    BY <1>1, WordSize
<1>3. IAdd(c.len, 1) = e
    BY <1>1, <1>2, WordSize, WrapWord DEF IAdd
<1> HIDE DEF e, pos, t, v
<1>4. Unsigned(e) = e /\ Unsigned(pos - 1) = (IF pos >= 1 THEN pos - 1 ELSE pos - 1 + 2 * Half)
    BY <1>1, <1>2, UnsignedWord
<1>5. OutsideInsert(pos, e) <=> pos \notin 1 .. e
    BY <1>1, <1>2, <1>4 DEF OutsideInsert
<1>6. CASE pos \notin 1 .. e
    BY <1>3, <1>5, <1>6, Zenon DEF InsertExact, TblInsert, e, pos
<1>7. CASE pos \in 1 .. e
    <2> DEFINE s == Copies(t, Downwards(e, pos + 1), -1)
    <2>1. s = ShiftedPart(t, pos + 1, e, -1)
        <3>1. \A i \in pos + 1 .. e : i \in Ints /\ i + (-1) \in Ints
            BY <1>1, <1>2, <1>7, WordSize
        <3>2. pos + 1 \in Int /\ -1 \in Int /\ -1 <= 0
            BY <1>2
        <3> QED
            BY <1>1, <1>2, <3>1, <3>2, CopiesDown DEF Downwards
    <2>2. TblInsert(c.t, c.len, c.pos, c.v) = Stored([s EXCEPT ![pos] = v])
        BY <1>3, <1>5, <1>7, Zenon DEF TblInsert, e, pos, t, v
    <2> HIDE DEF s
    <2>3. [s EXCEPT ![pos] = v] = [i \in Ints |-> CASE i = pos -> v
                                                    [] i \in pos + 1 .. e -> t[i - 1]
                                                    [] OTHER -> t[i]]
        <3>1. \A i \in Ints : i + (-1) = i - 1
            BY WordSize
        <3>2. s = [i \in Ints |-> IF i \in pos + 1 .. e THEN t[i - 1] ELSE t[i]]
            BY <2>1, <3>1 DEF ShiftedPart
        <3>3. pos \notin pos + 1 .. e
            BY <1>2
        <3> QED
            BY <1>2, <3>2, <3>3
    <2> QED
        BY <1>7, <2>2, <2>3, Zenon DEF InsertExact, e, pos, t, v
<1> QED
    BY <1>6, <1>7

LEMMA Removes ==
    ASSUME NEW c \in RemoveCalls
    PROVE  RemoveExact(c.t, c.len, c.pos)
<1> DEFINE t == c.t
           size == c.len
           pos == c.pos
           last == IF pos > size THEN pos ELSE size
           outside == pos # size /\ Unsigned(pos - 1) > Unsigned(size)
<1>1. IsTable(t) /\ size \in 0 .. Half - 2 /\ pos \in -Half .. Half - 1 /\ Half \in Nat
    BY TableOfCalls, WordSize DEF RemoveCalls, Lengths
<1>2. size \in Int /\ pos \in Int /\ pos \in Ints /\ size \in Ints
    BY <1>1, WordSize
<1> HIDE DEF size, pos, t
<1>3. last = (IF pos < size THEN size ELSE pos) /\ last \in Ints
    BY <1>2
<1>4. Unsigned(size) = size /\ Unsigned(pos - 1) = (IF pos >= 1 THEN pos - 1 ELSE pos - 1 + 2 * Half)
    BY <1>1, <1>2, UnsignedWord
<1>5. outside <=> pos # size /\ pos \notin 1 .. size + 1
    BY <1>1, <1>2, <1>4
<1> HIDE DEF outside
<1>6. CASE outside
    <2>1. TblRemove(c.t, c.len, c.pos) = Refused
        BY <1>6, Zenon DEF TblRemove, outside, size, pos
    <2> QED
        BY <1>5, <1>6, <2>1, Zenon DEF RemoveExact, size, pos
<1>7. CASE ~ outside
    <2> DEFINE s == Copies(t, Upwards(pos, size - 1), 1)
    <2>1. s = ShiftedPart(t, pos, size - 1, 1)
        <3>1. \A i \in pos .. size - 1 : i \in Ints /\ i + 1 \in Ints
            BY <1>1, <1>2, WordSize
        <3>2. size - 1 \in Int /\ 1 \in Int /\ 1 >= 0
            BY <1>2
        <3> QED
            BY <1>1, <1>2, <3>1, <3>2, CopiesUp
    <2>2. TblRemove(c.t, c.len, c.pos) = Stored([s EXCEPT ![last] = Absent])
        <3> HIDE DEF last
        <3>1. (IF pos < size THEN size ELSE pos) = last
            BY <1>3
        <3> QED
            BY <1>7, <3>1, Zenon DEF TblRemove, outside, size, pos, t
    <2> HIDE DEF s, last
    <2>3. [s EXCEPT ![last] = Absent] = [i \in Ints |-> CASE i = last -> Absent
                                                         [] i \in pos .. size - 1 -> t[i + 1]
                                                         [] OTHER -> t[i]]
        <3>1. s = [i \in Ints |-> IF i \in pos .. size - 1 THEN t[i + 1] ELSE t[i]]
            BY <2>1 DEF ShiftedPart
        <3>2. last \notin pos .. size - 1
            BY <1>2 DEF last
        <3> QED
            BY <1>3, <3>1, <3>2
    <2> QED
        BY <1>5, <1>7, <2>2, <2>3, Zenon DEF RemoveExact, last, size, pos, t
<1> QED
    BY <1>6, <1>7

\* table.move loops over the words tpos .. tpos + n - 1.
LEMMA Moves ==
    ASSUME NEW c \in MoveCalls
    PROVE  MoveExact(c.t, c.to, c.f, c.e, c.pos)
<1> DEFINE t == c.t
           to == c.to
           f == c.f
           e == c.e
           tpos == c.pos
           n == e - f + 1
           b == tpos + n - 1
           refused == ~(f > 0 \/ e < IAdd(MaxInt, f)) \/ tpos > MaxInt - (ISub(e, f) + 1) + 1
           up == Upwards(tpos, tpos + (ISub(e, f) + 1) - 1)
           old == IF to = <<>> THEN t ELSE to
           moved == [i \in Ints |-> IF i \in tpos .. b THEN t[f + i - tpos] ELSE old[i]]
<1>1. /\ IsTable(t) /\ (to # <<>> => IsTable(to))
      /\ f \in -Half .. Half - 1 /\ e \in -Half .. Half - 1 /\ tpos \in -Half .. Half - 1
      /\ Half \in Nat /\ Half >= 2
    BY TableOfCalls, WordSize DEF MoveCalls
<1> HIDE DEF t, to, f, e, tpos
<1>2. f \in Int /\ e \in Int /\ tpos \in Int /\ MaxInt = Half - 1 /\ MaxInt \in Int
    BY <1>1, WordSize
<1>3. CASE e < f
    BY <1>3, Zenon DEF MoveExact, TblMove, t, to, f, e
<1>4. CASE ~ e < f
    <2>1. n \in Nat /\ n >= 1 /\ b \in Int
        BY <1>2, <1>4
    <2>2. refused <=> n \notin Ints \/ b \notin Ints
        <3>1. f <= 0 => IAdd(MaxInt, f) = MaxInt + f
            <4>1. f <= 0 => MaxInt + f \in Ints /\ MaxInt + f \in Int
                BY <1>1, <1>2, WordSize
            <4> QED
                BY <1>2, <4>1, WrapWord DEF IAdd
        <3>2. n \notin Ints <=> n > MaxInt
            BY <1>1, <1>2, <2>1, WordSize
        <3>3. n \in Ints => ISub(e, f) = e - f
            <4>1. n \in Ints => e - f \in Ints
                BY <1>1, <1>2, <1>4, WordSize
            <4> QED
                BY <1>2, <4>1, WrapWord DEF ISub
        <3>4. b \notin Ints <=> b > MaxInt
            BY <1>1, <1>2, <2>1, WordSize
        <3>5. n > MaxInt <=> ~(f > 0 \/ e < IAdd(MaxInt, f))
            BY <1>1, <1>2, <3>1
        <3>6. n \in Ints => (tpos > MaxInt - (ISub(e, f) + 1) + 1 <=> b > MaxInt)
            BY <1>2, <3>3
        <3> QED
            BY <3>2, <3>4, <3>5, <3>6
    <2> HIDE DEF refused
    <2>3. CASE refused
        <3>1. TblMove(c.t, c.to, c.f, c.e, c.pos) = Refused
            BY <1>4, <2>3, Zenon DEF TblMove, refused, f, e, tpos
        <3> QED
            BY <1>4, <2>2, <2>3, <3>1, Zenon DEF MoveExact, f, e, tpos, n, b
    <2>4. CASE ~ refused
        <3>1. up = Upwards(tpos, b)
            <4>1. e - f \in Ints
                BY <1>1, <1>2, <1>4, <2>2, <2>4, WordSize
            <4>2. ISub(e, f) = e - f
                BY <1>2, <4>1, WrapWord DEF ISub
            <4> QED
                BY <4>2, Zenon DEF up, b, n
        <3>2. \A i \in tpos .. b : i \in Ints /\ i + (f - tpos) \in Ints /\ i - tpos + f \in Ints
            <4>1. b \in Ints
                BY <2>2, <2>4
            <4>2. \A i \in tpos .. b : i \in Int /\ f <= i + (f - tpos) /\ i + (f - tpos) <= e
                BY <1>2
            <4> QED
                BY <1>1, <1>2, <4>1, <4>2, WordSize
        <3> HIDE DEF up, refused
        <3>3. TblMove(c.t, c.to, c.f, c.e, c.pos) =
              Stored(IF to # <<>> THEN Across(to, t, up, f, tpos)
                     ELSE Copies(t, IF MovesUp(f, e, tpos) THEN up ELSE Reverse(up), f - tpos))
            BY <1>4, <2>4, Zenon DEF TblMove, Across, refused, up, t, to, f, e, tpos
        <3>4. ASSUME to # <<>>
              PROVE  Across(to, t, up, f, tpos) = moved
            <4> DEFINE N == HowMany(tpos, b)
            <4>1. /\ N \in Nat /\ up = [k \in 1 .. N |-> tpos + k - 1]
                  /\ \A i \in tpos .. b : i - tpos + 1 \in 1 .. N
                  /\ \A k \in 1 .. N : tpos + k - 1 \in tpos .. b
                BY <1>2, <2>1, <3>1, Positions
            <4> HIDE DEF N, n, b
            <4>2. InWords(up, N)
                BY <3>2, <4>1 DEF InWords
            <4>3. Across(to, t, up, f, tpos) = TakenFrom(to, t, up, N, f, tpos)
                BY <1>1, <3>4, <4>2, AcrossWhat, Zenon
            <4>4. \A i \in Ints : /\ i - tpos + f = f + i - tpos
                                  /\ (\E k \in 1 .. N : up[k] = i) <=> i \in tpos .. b
                <5> SUFFICES ASSUME NEW i \in Ints
                             PROVE  /\ i - tpos + f = f + i - tpos
                                    /\ (\E k \in 1 .. N : up[k] = i) <=> i \in tpos .. b
                    OBVIOUS
                <5>1. i \in Int
                    BY WordSize
                <5>2. i - tpos + f = f + i - tpos /\ tpos + (i - tpos + 1) - 1 = i
                    BY <1>2, <5>1
                <5>3. i \in tpos .. b => i - tpos + 1 \in 1 .. N /\ up[i - tpos + 1] = i
                    BY <4>1, <5>2, Zenon
                <5>4. \A k \in 1 .. N : up[k] = tpos + k - 1
                    BY <4>1
                <5> QED
                    BY <4>1, <5>2, <5>3, <5>4, Zenon
            <4> QED
                BY <3>4, <4>3, <4>4 DEF TakenFrom, moved, old
        <3>5. ASSUME to = <<>>
              PROVE  Copies(t, IF MovesUp(f, e, tpos) THEN up ELSE Reverse(up), f - tpos) = moved
            <4> DEFINE shift == f - tpos
            <4>1. shift \in Int /\ tpos - b = f - e
                BY <1>2
            <4>2. MovesUp(f, e, tpos) => shift >= 0 \/ shift < tpos - b
                BY <1>2 DEF MovesUp
            <4>3. ~ MovesUp(f, e, tpos) => shift <= 0
                BY <1>2 DEF MovesUp
            <4>4. \A i \in tpos .. b : i \in Ints /\ i + shift \in Ints
                BY <3>2
            <4> HIDE DEF shift, n, b
            <4>5. MovesUp(f, e, tpos) => Copies(t, up, shift) = ShiftedPart(t, tpos, b, shift)
                BY <1>1, <1>2, <2>1, <3>1, <4>1, <4>2, <4>4, CopiesUp
            <4>6. ~ MovesUp(f, e, tpos) =>
                      Copies(t, Reverse(up), shift) = ShiftedPart(t, tpos, b, shift)
                BY <1>1, <1>2, <2>1, <3>1, <4>1, <4>3, <4>4, CopiesDown
            <4>7. ShiftedPart(t, tpos, b, shift) = moved
                <5>1. \A i \in Ints : i + shift = f + i - tpos
                    BY <1>2, WordSize DEF shift
                <5> QED
                    BY <3>5, <5>1 DEF ShiftedPart, moved, old
            <4> QED
                BY <4>5, <4>6, <4>7, Zenon DEF shift
        <3>6. TblMove(c.t, c.to, c.f, c.e, c.pos) = Stored(moved)
            BY <3>3, <3>4, <3>5, Zenon
        <3>7. n \in Ints /\ b \in Ints
            BY <2>2, <2>4
        <3> QED
            BY <1>4, <3>6, <3>7, Zenon DEF MoveExact, moved, old, b, n, t, to, f, e, tpos
    <2> QED
        BY <2>3, <2>4
<1> QED
    BY <1>3, <1>4

LEMMA Reads ==
    ASSUME NEW t \in Tables, NEW i \in Ints, NEW j \in Ints
    PROVE  LET n == HowMany(i, j) IN
           n \in Nat /\ TblRead(t, i, j) = [k \in 1 .. n |-> t[i + k - 1]]
<1> DEFINE n == HowMany(i, j)
           m == HowMany(i, j - 1)
           before == Upwards(i, j - 1)
           s1 == [k \in 1 .. m |-> t[before[k]]]
           s2 == IF i <= j THEN <<t[j]>> ELSE <<>>
           s == s1 \o s2
<1>1. /\ i \in Int /\ j \in Int /\ j - 1 \in Int /\ t \in [Ints -> Values]
      /\ Ints = -Half .. Half - 1 /\ Half \in Nat
    BY TableOfCalls, WordSize
<1>2. /\ m \in Nat /\ before = [k \in 1 .. m |-> i + k - 1] /\ Len(before) = m
      /\ \A k \in 1 .. m : i + k - 1 \in i .. j - 1
    BY <1>1, Positions
<1>3. /\ n \in Nat /\ n = (IF i <= j THEN m + 1 ELSE 0)
      /\ (i <= j => j = i + n - 1) /\ (~ i <= j => m = 0)
    BY <1>1 DEF HowMany
<1>4. TblRead(t, i, j) = s
    BY <1>2, Zenon DEF TblRead
<1> HIDE DEF m, n, before
<1>5. s1 \in Seq(Values) /\ Len(s1) = m /\ \A k \in 1 .. m : s1[k] = t[i + k - 1]
    <2>1. \A k \in 1 .. m : before[k] = i + k - 1 /\ i + k - 1 \in Ints
        <3>1. i >= -Half /\ j <= Half - 1
            BY <1>1
        <3>2. \A x \in i .. j - 1 : x \in Ints
            BY <1>1, <3>1
        <3> QED
            BY <1>2, <3>2
    <2>2. s1 \in [1 .. m -> Values] /\ \A k \in 1 .. m : s1[k] = t[i + k - 1]
        BY <1>1, <2>1
    <2> HIDE DEF s1
    <2>3. s1 \in Seq(Values)
        BY <1>2, <2>2, SeqDef
    <2> QED
        BY <1>2, <2>2, <2>3, LenProperties
<1>6. /\ s2 \in Seq(Values) /\ Len(s2) = (IF i <= j THEN 1 ELSE 0)
      /\ i <= j => s2[1] = t[j]
    <2>1. t[j] \in Values
        BY <1>1
    <2> QED
        BY <2>1
<1> HIDE DEF s1, s2
<1>7. /\ s \in Seq(Values) /\ Len(s) = n
      /\ \A k \in 1 .. n : s[k] = IF k <= m THEN s1[k] ELSE s2[k - m]
    <2>1. /\ s \in Seq(Values) /\ Len(s) = Len(s1) + Len(s2)
          /\ \A k \in 1 .. Len(s1) + Len(s2) :
                s[k] = IF k <= Len(s1) THEN s1[k] ELSE s2[k - Len(s1)]
        BY <1>5, <1>6, ConcatProperties, Zenon
    <2>2. Len(s1) = m /\ m + Len(s2) = n
        BY <1>2, <1>3, <1>5, <1>6
    <2> HIDE DEF s
    <2> QED
        BY <2>1, <2>2, Zenon
<1> HIDE DEF s
<1>8. \A k \in 1 .. n : s[k] = t[i + k - 1]
    <2> SUFFICES ASSUME NEW k \in 1 .. n PROVE s[k] = t[i + k - 1]
        OBVIOUS
    <2>1. CASE k <= m
        BY <1>2, <1>5, <1>7, <2>1
    <2>2. CASE ~ k <= m
        <3>1. i <= j /\ k = n /\ k - m = 1 /\ i + k - 1 = j
            BY <1>1, <1>2, <1>3, <2>2
        <3> QED
            BY <1>6, <1>7, <2>2, <3>1, Zenon
    <2> QED
        BY <2>1, <2>2
<1>9. s = [k \in 1 .. n |-> s[k]]
    BY <1>7, LenProperties
<1>10. s = [k \in 1 .. n |-> t[i + k - 1]]
    BY <1>8, <1>9
<1> QED
    BY <1>3, <1>4, <1>10 DEF n

LEMMA Concats ==
    ASSUME NEW c \in ConcatCalls
    PROVE  ConcatExact(c.t, c.f, c.e)
<1> DEFINE t == c.t
           i == c.f
           j == c.e
           n == HowMany(i, j)
           R == TblRead(t, i, j)
<1>1. t \in Tables /\ i \in Ints /\ j \in Ints /\ i \in Int /\ j \in Int
    BY WordSize DEF ConcatCalls
<1> HIDE DEF t, i, j
<1>2. n \in Nat /\ R = [k \in 1 .. n |-> t[i + k - 1]]
    BY <1>1, Reads
<1>3. /\ \A x \in i .. j : x - i + 1 \in 1 .. n
      /\ \A k \in 1 .. n : i + k - 1 \in i .. j
    BY <1>1, Positions
<1>4. n = IF i > j THEN 0 ELSE j - i + 1
    BY DEF HowMany
<1> HIDE DEF n, R
<1>5. Absent \in {R[k] : k \in DOMAIN R} <=> \E k \in i .. j : t[k] = Absent
    <2>1. \A x \in i .. j : R[x - i + 1] = t[x]
        <3>1. \A x \in i .. j : i + (x - i + 1) - 1 = x
            BY <1>1
        <3> QED
            BY <1>2, <1>3, <3>1, Zenon
    <2>2. DOMAIN R = 1 .. n /\ \A k \in 1 .. n : R[k] = t[i + k - 1]
        BY <1>2
    <2>3. ASSUME NEW x \in i .. j, t[x] = Absent
          PROVE  Absent \in {R[k] : k \in DOMAIN R}
        <3>1. x - i + 1 \in DOMAIN R /\ R[x - i + 1] = Absent
            BY <1>3, <2>1, <2>2, <2>3, Zenon
        <3> QED
            BY <3>1, Zenon
    <2>4. ASSUME NEW k \in DOMAIN R, R[k] = Absent
          PROVE  \E x \in i .. j : t[x] = Absent
        <3>1. i + k - 1 \in i .. j /\ t[i + k - 1] = Absent
            BY <1>3, <2>2, <2>4, Zenon
        <3> QED
            BY <3>1, Zenon
    <2> QED
        BY <2>3, <2>4, Zenon
<1>6. TblConcat(t, i, j) =
      IF Absent \in {R[k] : k \in DOMAIN R} THEN Refused ELSE [text |-> R]
    BY Zenon DEF TblConcat, R
<1>7. ConcatExact(t, i, j)
    BY <1>2, <1>4, <1>5, <1>6, Zenon DEF ConcatExact
<1> QED
    BY <1>7 DEF t, i, j

LEMMA Unpacks ==
    ASSUME NEW c \in UnpackCalls
    PROVE  UnpackExact(c.t, c.f, c.e, c.room)
<1> DEFINE t == c.t
           i == c.f
           j == c.e
           room == c.room
           n == HowMany(i, j)
<1>1. /\ t \in Tables /\ i \in Ints /\ j \in Ints /\ i \in Int /\ j \in Int /\ room \in Nat
      /\ i \in -Half .. Half - 1 /\ j \in -Half .. Half - 1 /\ Half \in Nat
    <2>1. t \in Tables /\ i \in Ints /\ j \in Ints /\ room \in Rooms
        BY DEF UnpackCalls
    <2> HIDE DEF t, i, j, room
    <2> QED
        BY <2>1, WordSize, CallAssumption
<1> HIDE DEF t, i, j, room
<1>2. n \in Nat /\ TblRead(t, i, j) = [k \in 1 .. n |-> t[i + k - 1]]
    BY <1>1, Reads
<1>3. n = IF i > j THEN 0 ELSE j - i + 1
    BY DEF HowMany
<1>4. ~ i > j => (Unsigned(j - i) >= room <=> n > room)
    <2>1. ~ i > j => Unsigned(j - i) = j - i
        BY <1>1, UnsignedWord
    <2> QED
        BY <1>1, <1>3, <2>1
<1>5. CASE i > j
    <2>1. ~ n > room /\ n = 0
        BY <1>1, <1>3, <1>5
    <2>2. <<>> = [k \in 1 .. 0 |-> t[i + k - 1]]
        OBVIOUS
    <2>3. TblUnpack(t, i, j, room) = [results |-> <<>>]
        BY <1>5, Zenon DEF TblUnpack
    <2> HIDE DEF n
    <2>4. UnpackExact(t, i, j, room)
        BY <1>3, <2>1, <2>2, <2>3, Zenon DEF UnpackExact
    <2> QED
        BY <2>4 DEF t, i, j, room
<1>6. CASE ~ i > j
    <2> HIDE DEF n
    <2>1. TblUnpack(t, i, j, room) =
          IF n > room THEN Refused ELSE [results |-> [k \in 1 .. n |-> t[i + k - 1]]]
        BY <1>2, <1>4, <1>6, Zenon DEF TblUnpack
    <2>2. UnpackExact(t, i, j, room)
        BY <1>3, <2>1, Zenon DEF UnpackExact
    <2> QED
        BY <2>2 DEF t, i, j, room
<1> QED
    BY <1>5, <1>6

-----------------------------------------------------------------------------
(* Loops, as functions of the number of their turns. *)

Turning(g, a, step, n) == [k \in 0 .. n |-> IF k = 0 THEN a ELSE step[k, g[k - 1]]]

LoopOf(g, a, step, n, A) == g \in [0 .. n -> A] /\ g = Turning(g, a, step, n)

LEMMA OneMoreTurn ==
    ASSUME NEW n \in Nat, NEW A, NEW a \in A, NEW step \in [(1 .. n) \X A -> A],
           NEW m \in Nat, m + 1 <= n, NEW g, LoopOf(g, a, step, m, A)
    PROVE  \E h : LoopOf(h, a, step, m + 1, A)
<1> DEFINE last == step[m + 1, g[m]]
           h == [k \in 0 .. m + 1 |-> IF k <= m THEN g[k] ELSE last]
<1>1. g \in [0 .. m -> A]
    BY DEF LoopOf
<1>2. \A k \in 0 .. m : g[k] = IF k = 0 THEN a ELSE step[k, g[k - 1]]
    BY Zenon DEF LoopOf, Turning
<1>3. m + 1 \in 1 .. n /\ g[m] \in A
    BY <1>1
<1>4. last \in A
    BY <1>3
<1> HIDE DEF last
<1>5. h \in [0 .. m + 1 -> A]
    BY <1>1, <1>4
<1>6. ASSUME NEW k \in 0 .. m + 1
      PROVE  h[k] = IF k = 0 THEN a ELSE step[k, h[k - 1]]
    <2>1. CASE k \in 0 .. m
        <3>1. h[k] = g[k] /\ (k # 0 => h[k - 1] = g[k - 1])
            BY <2>1
        <3> QED
            BY <1>2, <2>1, <3>1, Zenon
    <2>2. CASE k = m + 1
        <3>1. h[m + 1] = last /\ h[m] = g[m] /\ k # 0 /\ k - 1 = m
            BY <2>2
        <3> QED
            BY <2>2, <3>1, Zenon DEF last
    <2>3. k \in 0 .. m \/ k = m + 1
        OBVIOUS
    <2> QED
        BY <2>1, <2>2, <2>3, Zenon
<1>7. h = Turning(h, a, step, m + 1)
    BY <1>6, Zenon DEF Turning
<1> QED
    BY <1>5, <1>7, Zenon DEF LoopOf

LEMMA TurnsExist ==
    ASSUME NEW n \in Nat, NEW A, NEW a \in A, NEW step \in [(1 .. n) \X A -> A]
    PROVE  \E g : LoopOf(g, a, step, n, A)
<1> DEFINE S == {m \in Nat : m <= n => \E g : LoopOf(g, a, step, m, A)}
<1>1. 0 \in S
    <2> DEFINE g == [k \in 0 .. 0 |-> a]
    <2>1. g \in [0 .. 0 -> A] /\ g = Turning(g, a, step, 0)
        BY DEF Turning
    <2> QED
        BY <2>1, Zenon DEF LoopOf
<1>2. ASSUME NEW m \in S
      PROVE  m + 1 \in S
    BY OneMoreTurn
<1> HIDE DEF S
<1>3. S \in SUBSET Nat
    BY DEF S
<1>4. n \in S
    BY <1>1, <1>2, <1>3, SetInduction, Zenon
<1> QED
    BY <1>4 DEF S

Alike(f, g, k) == f[k] = g[k]

\* Two loops that stay alike in each turn are alike.
LEMMA LoopsAlike ==
    ASSUME NEW n \in Nat, NEW f, NEW g, Alike(f, g, 0),
           \A k \in 1 .. n : Alike(f, g, k - 1) => Alike(f, g, k)
    PROVE  \A k \in 0 .. n : Alike(f, g, k)
<1> DEFINE S == {k \in Nat : k <= n => Alike(f, g, k)}
<1>1. 0 \in S
    OBVIOUS
<1>2. ASSUME NEW k \in S
      PROVE  k + 1 \in S
    <2>1. k + 1 <= n => k + 1 \in 1 .. n /\ (k + 1) - 1 = k /\ Alike(f, g, k)
        OBVIOUS
    <2> QED
        BY <2>1
<1> HIDE DEF S
<1>3. \A k \in Nat : k \in S
    BY <1>1, <1>2, SetInduction DEF S
<1> QED
    BY <1>3 DEF S

-----------------------------------------------------------------------------
(* Decoding and encoding of one character. *)

\* The low bits of a byte, and the loop that appends them.
Low(s, i) == Byte(s, i) % 64
Appending(g, first, s, i, n) ==
    [k \in 0 .. n |-> IF k = 0 THEN first ELSE g[k - 1] * 64 + (Byte(s, i + k) % 64)]

Bytes == 0 .. 255

LEMMA ByteOf ==
    ASSUME NEW s \in Seq(Bytes), NEW i \in 0 .. Len(s) - 1
    PROVE  Byte(s, i) \in Bytes /\ Low(s, i) \in 0 .. 63
<1>1. i + 1 \in 1 .. Len(s) /\ s[i + 1] \in Bytes
    OBVIOUS
<1>2. \A x \in Bytes : x % 64 \in 0 .. 63
    BY SMT DEF Bytes
<1> QED
    BY <1>1, <1>2, Zenon DEF Byte, Low

\* The digits of a number to the base 64, as a loop appends them.
Digits(g, h, s, i, n) ==
    /\ g \in [0 .. n -> Nat] /\ g[0] = h
    /\ \A k \in 1 .. n : g[k] = g[k - 1] * 64 + Low(s, i + k)

LEMMA AppendedTurns ==
    ASSUME NEW s \in Seq(Bytes), NEW i \in Nat, NEW first \in Nat, NEW n \in Nat, i + n < Len(s)
    PROVE  \E g : Digits(g, first, s, i, n) /\ Appended(first, s, i, n) = g[n]
<1> DEFINE step == [p \in (1 .. n) \X Nat |-> p[2] * 64 + Low(s, i + p[1])]
<1>1. \A k \in 1 .. n : Low(s, i + k) \in Nat
    <2>1. \A k \in 1 .. n : i + k \in 0 .. Len(s) - 1
        OBVIOUS
    <2>2. \A x \in 0 .. 63 : x \in Nat
        OBVIOUS
    <2> QED
        BY <2>1, <2>2, ByteOf, Zenon
<1>2. step \in [(1 .. n) \X Nat -> Nat]
    <2>1. \A p \in (1 .. n) \X Nat : p[2] * 64 + Low(s, i + p[1]) \in Nat
        <3>1. ASSUME NEW k \in 1 .. n, NEW x \in Nat
              PROVE  x * 64 + Low(s, i + k) \in Nat
            <4>1. Low(s, i + k) \in Nat /\ x * 64 \in Nat
                BY <1>1
            <4> QED
                BY <4>1
        <3>2. \A p \in (1 .. n) \X Nat : p[1] \in 1 .. n /\ p[2] \in Nat
            OBVIOUS
        <3> QED
            BY <3>1, <3>2, Zenon
    <2> QED
        BY <2>1, Zenon
<1>3. \A k \in 1 .. n, x \in Nat : step[k, x] = x * 64 + Low(s, i + k)
    OBVIOUS
<1> HIDE DEF step
<1>4. PICK g : LoopOf(g, first, step, n, Nat)
    BY <1>2, TurnsExist, Zenon
<1>type. g \in [0 .. n -> Nat]
    BY <1>4 DEF LoopOf
<1>5. ASSUME NEW k \in 0 .. n
      PROVE  g[k] = IF k = 0 THEN first ELSE g[k - 1] * 64 + Low(s, i + k)
    <2>1. g[k] = IF k = 0 THEN first ELSE step[k, g[k - 1]]
        BY <1>4, Zenon DEF LoopOf, Turning
    <2>2. k # 0 => k \in 1 .. n /\ g[k - 1] \in Nat
        BY <1>type
    <2> QED
        BY <1>3, <2>1, <2>2, Zenon
<1>6. g = Appending(g, first, s, i, n)
    <2>1. g = [k \in 0 .. n |-> g[k]]
        BY <1>type
    <2> QED
        BY <1>5, <2>1, Zenon DEF Appending, Low
<1> DEFINE r == CHOOSE r : r = Appending(r, first, s, i, n)
<1>7. Appended(first, s, i, n) = r[n]
    BY Zenon DEF Appended, Appending
<1>8. r = Appending(r, first, s, i, n)
    BY <1>6, Zenon
<1> HIDE DEF r
<1>9. \A k \in 0 .. n : r[k] = IF k = 0 THEN first ELSE r[k - 1] * 64 + Low(s, i + k)
    BY <1>8, Zenon DEF Appending, Low
<1>10. \A k \in 0 .. n : Alike(r, g, k)
    <2>1. Alike(r, g, 0)
        BY <1>5, <1>9 DEF Alike
    <2>2. ASSUME NEW k \in 1 .. n, Alike(r, g, k - 1)
          PROVE  Alike(r, g, k)
        <3>1. k \in 0 .. n /\ k # 0
            OBVIOUS
        <3> QED
            BY <1>5, <1>9, <2>2, <3>1, Zenon DEF Alike
    <2> QED
        BY <2>1, <2>2, LoopsAlike, Zenon
<1> QED
    <2>1. r[n] = g[n]
        BY <1>10 DEF Alike
    <2>2. g[0] = first /\ \A k \in 1 .. n : g[k] = g[k - 1] * 64 + Low(s, i + k)
        BY <1>5
    <2> QED
        BY <1>7, <1>type, <2>1, <2>2, Zenon DEF Digits

\* The first bytes that announce n more, and what they hold of the code point.
LeadOf(n, h) == 256 - 2 * (Room(n) + 1) + h

LEMMA SixBits ==
    /\ Room(1) = 31 /\ Room(2) = 15 /\ Room(3) = 7 /\ Room(4) = 3 /\ Room(5) = 1
    /\ \A x \in Nat : /\ Left(x, 0) = x /\ Left(x, 1) = x \div 64 /\ Left(x, 2) = x \div 4096
                     /\ Left(x, 3) = x \div 262144 /\ Left(x, 4) = x \div 16777216
                     /\ Left(x, 5) = x \div 1073741824
<1>1. Room(1) = 31 /\ Room(2) = 15 /\ Room(3) = 7 /\ Room(4) = 3 /\ Room(5) = 1
    BY DEF Room
<1>2. ASSUME NEW x \in Nat
      PROVE  /\ Left(x, 0) = x /\ Left(x, 1) = x \div 64 /\ Left(x, 2) = x \div 4096
             /\ Left(x, 3) = x \div 262144 /\ Left(x, 4) = x \div 16777216
             /\ Left(x, 5) = x \div 1073741824
    BY DEF Left
<1> QED
    BY <1>1, <1>2

\* utf8esc writes as few continuation bytes as leave what fits the first one.
Fits(x, n) == Left(x, n) <= Room(n)
Needs(x, n) == n \in 1 .. 5 /\ Fits(x, n) /\ \A m \in 1 .. n - 1 : ~ Fits(x, m)

LEMMA LeftType ==
    ASSUME NEW x \in Nat, NEW n \in 0 .. 5
    PROVE  Left(x, n) \in Nat /\ (n # 0 => Room(n) \in Nat)
<1>1. CASE n = 0
    BY <1>1, SMT DEF Left, Room
<1>2. CASE n = 1
    BY <1>2, SMT DEF Left, Room
<1>3. CASE n = 2
    BY <1>3, SMT DEF Left, Room
<1>4. CASE n = 3
    BY <1>4, SMT DEF Left, Room
<1>5. CASE n = 4
    BY <1>5, SMT DEF Left, Room
<1>6. CASE n = 5
    BY <1>6, SMT DEF Left, Room
<1>7. n = 0 \/ n = 1 \/ n = 2 \/ n = 3 \/ n = 4 \/ n = 5
    OBVIOUS
<1> QED
    BY <1>1, <1>2, <1>3, <1>4, <1>5, <1>6, <1>7

LEMMA ContinuedIs ==
    ASSUME NEW x \in Nat, NEW n, Needs(x, n)
    PROVE  Continued(x) = n
<1>1. ASSUME NEW m \in 1 .. 5
      PROVE  (Left(x, m) > Room(m)) <=> ~ Fits(x, m)
    <2>1. m \in 0 .. 5 /\ m # 0
        OBVIOUS
    <2>2. Left(x, m) \in Nat /\ Room(m) \in Nat
        BY <2>1, LeftType, Zenon
    <2> QED
        BY <2>2 DEF Fits
<1>2. Continued(x) = CHOOSE m \in 1 .. 5 : Needs(x, m)
    <2>1. \A m \in 1 .. 5 : Needs(x, m) <=> /\ Left(x, m) <= Room(m)
                                          /\ \A k \in 1 .. m - 1 : Left(x, k) > Room(k)
        BY <1>1 DEF Needs, Fits
    <2> QED
        BY <2>1, Zenon DEF Continued
<1>3. ASSUME NEW m \in 1 .. 5, Needs(x, m)
      PROVE  m = n
    BY <1>3 DEF Needs
<1>4. n \in 1 .. 5
    BY DEF Needs
<1> QED
    BY <1>2, <1>3, <1>4, Zenon

LEMMA ContinuedExists ==
    ASSUME NEW x \in Nat, x <= MaxUTF
    PROVE  Needs(x, Continued(x))
<1>1. \E n : Needs(x, n)
    <2>1. Fits(x, 5)
        BY SixBits, SMT DEF Fits, MaxUTF
    <2>2. CASE Fits(x, 1)
        BY <2>2 DEF Needs
    <2>3. CASE ~ Fits(x, 1) /\ Fits(x, 2)
        <3>1. Needs(x, 2)
            BY <2>3 DEF Needs
        <3> QED
            BY <3>1
    <2>4. CASE ~ Fits(x, 1) /\ ~ Fits(x, 2) /\ Fits(x, 3)
        <3>1. Needs(x, 3)
            BY <2>4 DEF Needs
        <3> QED
            BY <3>1
    <2>5. CASE ~ Fits(x, 1) /\ ~ Fits(x, 2) /\ ~ Fits(x, 3) /\ Fits(x, 4)
        <3>1. Needs(x, 4)
            BY <2>5 DEF Needs
        <3> QED
            BY <3>1
    <2>6. CASE ~ Fits(x, 1) /\ ~ Fits(x, 2) /\ ~ Fits(x, 3) /\ ~ Fits(x, 4)
        <3>1. Needs(x, 5)
            BY <2>1, <2>6 DEF Needs
        <3> QED
            BY <3>1
    <2> QED
        BY <2>2, <2>3, <2>4, <2>5, <2>6
<1>2. PICK n : Needs(x, n)
    BY <1>1
<1>3. Continued(x) = n
    BY <1>2, ContinuedIs
<1> QED
    BY <1>2, <1>3

\* The number of bytes of an encoding follows from the limits of the code.
LEMMA LimitsTell ==
    ASSUME NEW x \in Nat, NEW n \in 1 .. 5, Fits(x, n)
    PROVE  (x >= 128 /\ Needs(x, n)) <=> x >= Utf8limits[n]
<1>1. /\ Utf8limits[1] = 128 /\ Utf8limits[2] = 2048 /\ Utf8limits[3] = 65536
      /\ Utf8limits[4] = 2097152 /\ Utf8limits[5] = 67108864
    BY SMT DEF Utf8limits
<1>2. /\ Fits(x, 1) <=> x < 2048
      /\ Fits(x, 2) <=> x < 65536
      /\ Fits(x, 3) <=> x < 2097152
      /\ Fits(x, 4) <=> x < 67108864
    BY SixBits, SMT DEF Fits
<1>3. Needs(x, n) <=> \A m \in 1 .. n - 1 : ~ Fits(x, m)
    BY DEF Needs
<1>4. CASE n = 1
    BY <1>1, <1>3, <1>4, SMT
<1>5. CASE n = 2
    <2>1. Needs(x, 2) <=> ~ Fits(x, 1)
        BY <1>3, <1>5
    <2> QED
        BY <1>1, <1>2, <1>5, <2>1, SMT
<1>6. CASE n = 3
    <2>1. Needs(x, 3) <=> ~ Fits(x, 1) /\ ~ Fits(x, 2)
        BY <1>3, <1>6
    <2> QED
        BY <1>1, <1>2, <1>6, <2>1, SMT
<1>7. CASE n = 4
    <2>1. Needs(x, 4) <=> ~ Fits(x, 1) /\ ~ Fits(x, 2) /\ ~ Fits(x, 3)
        BY <1>3, <1>7
    <2> QED
        BY <1>1, <1>2, <1>7, <2>1, SMT
<1>8. CASE n = 5
    <2>1. Needs(x, 5) <=> ~ Fits(x, 1) /\ ~ Fits(x, 2) /\ ~ Fits(x, 3) /\ ~ Fits(x, 4)
        BY <1>3, <1>8
    <2> QED
        BY <1>1, <1>2, <1>8, <2>1, SMT
<1> QED
    BY <1>4, <1>5, <1>6, <1>7, <1>8

\* The bits of a first byte below its highest, and how they count.
Bit(c, k) == ((c * 2 ^ k) \div 64) % 2
Announces(c, n) == n \in 0 .. 7 /\ (\A k \in 0 .. n - 1 : Bit(c, k) = 1) /\ Bit(c, n) = 0

LEMMA AnnouncedIs ==
    ASSUME NEW c \in Bytes, NEW n, Announces(c, n)
    PROVE  Announced(c) = n
<1>1. Announced(c) = CHOOSE m \in 0 .. 7 : Announces(c, m)
    <2>1. \A m \in 0 .. 7 : Announces(c, m) <=> /\ \A k \in 0 .. m - 1 : ((c * 2 ^ k) \div 64) % 2 = 1
                                              /\ ((c * 2 ^ m) \div 64) % 2 = 0
        BY Zenon DEF Announces, Bit
    <2> QED
        BY <2>1, Zenon DEF Announced
<1>2. ASSUME NEW m \in 0 .. 7, Announces(c, m)
      PROVE  m = n
    <2>1. \A k \in Nat : ~ (Bit(c, k) = 0 /\ Bit(c, k) = 1)
        OBVIOUS
    <2>2. m \in Nat /\ n \in Nat /\ Bit(c, m) = 0 /\ Bit(c, n) = 0
        BY <1>2 DEF Announces
    <2>3. ~ m \in 0 .. n - 1 /\ ~ n \in 0 .. m - 1
        BY <1>2, <2>1, <2>2, Zenon DEF Announces
    <2> QED
        BY <2>2, <2>3
<1>3. n \in 0 .. 7
    BY DEF Announces
<1> QED
    BY <1>1, <1>2, <1>3, Zenon

LEMMA BitValues ==
    ASSUME NEW c \in Bytes
    PROVE  /\ Bit(c, 0) = (c \div 64) % 2 /\ Bit(c, 1) = (c \div 32) % 2
           /\ Bit(c, 2) = (c \div 16) % 2 /\ Bit(c, 3) = (c \div 8) % 2
           /\ Bit(c, 4) = (c \div 4) % 2 /\ Bit(c, 5) = (c \div 2) % 2
           /\ Bit(c, 6) = c % 2 /\ Bit(c, 7) = 0
BY SMT DEF Bit, Bytes

\* What the first byte of more than one announces.
LEMMA FirstBytes ==
    ASSUME NEW c \in Bytes, c >= 128
    PROVE  \/ Announced(c) = 0 /\ c < 192
           \/ \E n \in 1 .. 5 : Announced(c) = n /\ \E h \in 0 .. Room(n) : c = LeadOf(n, h)
           \/ Announced(c) \in {6, 7} /\ c >= 254
<1>1. c < 192 => Announces(c, 0)
    BY BitValues, SMT DEF Announces, Bytes
<1>2. c \in 192 .. 223 => Announces(c, 1)
    <2>1. c \in 192 .. 223 => Bit(c, 0) = 1 /\ Bit(c, 1) = 0
        BY BitValues, SMT DEF Bytes
    <2> QED
        BY <2>1 DEF Announces
<1>3. c \in 224 .. 239 => Announces(c, 2)
    <2>1. c \in 224 .. 239 => Bit(c, 0) = 1 /\ Bit(c, 1) = 1 /\ Bit(c, 2) = 0
        BY BitValues, SMT DEF Bytes
    <2> QED
        BY <2>1 DEF Announces
<1>4. c \in 240 .. 247 => Announces(c, 3)
    <2>1. c \in 240 .. 247 => Bit(c, 0) = 1 /\ Bit(c, 1) = 1 /\ Bit(c, 2) = 1 /\ Bit(c, 3) = 0
        BY BitValues, SMT DEF Bytes
    <2> QED
        BY <2>1 DEF Announces
<1>5. c \in 248 .. 251 => Announces(c, 4)
    <2>1. c \in 248 .. 251 => /\ Bit(c, 0) = 1 /\ Bit(c, 1) = 1 /\ Bit(c, 2) = 1 /\ Bit(c, 3) = 1
                              /\ Bit(c, 4) = 0
        BY BitValues, SMT DEF Bytes
    <2> QED
        BY <2>1 DEF Announces
<1>6. c \in 252 .. 253 => Announces(c, 5)
    <2>1. c \in 252 .. 253 => /\ Bit(c, 0) = 1 /\ Bit(c, 1) = 1 /\ Bit(c, 2) = 1 /\ Bit(c, 3) = 1
                              /\ Bit(c, 4) = 1 /\ Bit(c, 5) = 0
        BY BitValues, SMT DEF Bytes
    <2> QED
        BY <2>1 DEF Announces
<1>7. c \in 254 .. 255 => Announces(c, 6) \/ Announces(c, 7)
    <2>1. c \in 254 .. 255 => /\ Bit(c, 0) = 1 /\ Bit(c, 1) = 1 /\ Bit(c, 2) = 1 /\ Bit(c, 3) = 1
                              /\ Bit(c, 4) = 1 /\ Bit(c, 5) = 1 /\ Bit(c, 7) = 0
                              /\ (Bit(c, 6) = 1 \/ Bit(c, 6) = 0)
        BY BitValues, SMT DEF Bytes
    <2> QED
        BY <2>1 DEF Announces
<1>8. /\ c < 192 => Announced(c) = 0
      /\ c \in 192 .. 223 => Announced(c) = 1
      /\ c \in 224 .. 239 => Announced(c) = 2
      /\ c \in 240 .. 247 => Announced(c) = 3
      /\ c \in 248 .. 251 => Announced(c) = 4
      /\ c \in 252 .. 253 => Announced(c) = 5
      /\ c \in 254 .. 255 => Announced(c) \in {6, 7}
    <2>1. \A m : Announces(c, m) => Announced(c) = m
        BY AnnouncedIs, Zenon
    <2>2. c < 192 => Announced(c) = 0
        BY <1>1, <2>1, Zenon
    <2>3. c \in 192 .. 223 => Announced(c) = 1
        BY <1>2, <2>1, Zenon
    <2>4. c \in 224 .. 239 => Announced(c) = 2
        BY <1>3, <2>1, Zenon
    <2>5. c \in 240 .. 247 => Announced(c) = 3
        BY <1>4, <2>1, Zenon
    <2>6. c \in 248 .. 251 => Announced(c) = 4
        BY <1>5, <2>1, Zenon
    <2>7. c \in 252 .. 253 => Announced(c) = 5
        BY <1>6, <2>1, Zenon
    <2>8. c \in 254 .. 255 => Announced(c) \in {6, 7}
        BY <1>7, <2>1, SMT
    <2> QED
        BY <2>2, <2>3, <2>4, <2>5, <2>6, <2>7, <2>8, SMT
<1>9. \A n \in 1 .. 5 : Room(n) \in Nat /\ LeadOf(n, 0) \in Int /\ LeadOf(n, Room(n)) \in Int
    <2>1. \A n \in 1 .. 5 : n \in 0 .. 5 /\ n # 0
        OBVIOUS
    <2>2. \A n \in 1 .. 5 : Room(n) \in Nat
        BY <2>1, LeftType, Zenon
    <2> QED
        BY <2>2 DEF LeadOf
<1>10. ASSUME NEW n \in 1 .. 5, LeadOf(n, 0) <= c, c <= LeadOf(n, Room(n))
       PROVE  \E h \in 0 .. Room(n) : c = LeadOf(n, h)
    <2> DEFINE h == c - LeadOf(n, 0)
    <2>1. h \in 0 .. Room(n) /\ c = LeadOf(n, h)
        BY <1>9, <1>10, SMT DEF LeadOf, Bytes
    <2> QED
        BY <2>1
<1>11. /\ LeadOf(1, 0) = 192 /\ LeadOf(1, Room(1)) = 223
       /\ LeadOf(2, 0) = 224 /\ LeadOf(2, Room(2)) = 239
       /\ LeadOf(3, 0) = 240 /\ LeadOf(3, Room(3)) = 247
       /\ LeadOf(4, 0) = 248 /\ LeadOf(4, Room(4)) = 251
       /\ LeadOf(5, 0) = 252 /\ LeadOf(5, Room(5)) = 253
    BY SixBits, SMT DEF LeadOf
<1>12. c \in 128 .. 255
    BY SMT DEF Bytes
<1>13. \/ c < 192 \/ c \in 192 .. 223 \/ c \in 224 .. 239 \/ c \in 240 .. 247
       \/ c \in 248 .. 251 \/ c \in 252 .. 253 \/ c \in 254 .. 255
    BY <1>12
<1>14. CASE c < 192
    BY <1>8, <1>14
<1>15. CASE c \in 254 .. 255
    BY <1>8, <1>15
<1>16. ASSUME NEW n \in 1 .. 5, LeadOf(n, 0) <= c, c <= LeadOf(n, Room(n)), Announced(c) = n
       PROVE  \E m \in 1 .. 5 : Announced(c) = m /\ \E h \in 0 .. Room(m) : c = LeadOf(m, h)
    BY <1>10, <1>16, Zenon
<1>17. CASE c \in 192 .. 223
    BY <1>8, <1>11, <1>16, <1>17
<1>18. CASE c \in 224 .. 239
    BY <1>8, <1>11, <1>16, <1>18
<1>19. CASE c \in 240 .. 247
    BY <1>8, <1>11, <1>16, <1>19
<1>20. CASE c \in 248 .. 251
    BY <1>8, <1>11, <1>16, <1>20
<1>21. CASE c \in 252 .. 253
    BY <1>8, <1>11, <1>16, <1>21
<1> QED
    BY <1>13, <1>14, <1>15, <1>17, <1>18, <1>19, <1>20, <1>21, SMT

\* The bits of the first byte, moved to where they stand in the code point.
LEMMA FirstBits ==
    ASSUME NEW n \in 1 .. 5, NEW h \in 0 .. Room(n)
    PROVE  /\ ((LeadOf(n, h) * 2 ^ n) % 128) * 2 ^ (n * 5) = h * 2 ^ (6 * n)
           /\ LeadOf(n, h) % 2 ^ (7 - (n + 1)) = h
<1>1. CASE n = 1
    <2>1. h \in 0 .. 31 /\ LeadOf(1, h) = 192 + h
        BY <1>1, SixBits, SMT DEF LeadOf
    <2> QED
        BY <1>1, <2>1
<1>2. CASE n = 2
    <2>1. h \in 0 .. 15 /\ LeadOf(2, h) = 224 + h
        BY <1>2, SixBits, SMT DEF LeadOf
    <2> QED
        BY <1>2, <2>1
<1>3. CASE n = 3
    <2>1. h \in 0 .. 7 /\ LeadOf(3, h) = 240 + h
        BY <1>3, SixBits, SMT DEF LeadOf
    <2> QED
        BY <1>3, <2>1
<1>4. CASE n = 4
    <2>1. h \in 0 .. 3 /\ LeadOf(4, h) = 248 + h
        BY <1>4, SixBits, SMT DEF LeadOf
    <2> QED
        BY <1>4, <2>1
<1>5. CASE n = 5
    <2>1. h \in 0 .. 1 /\ LeadOf(5, h) = 252 + h
        BY <1>5, SixBits, SMT DEF LeadOf
    <2> QED
        BY <1>5, <2>1
<1> QED
    BY <1>1, <1>2, <1>3, <1>4, <1>5

LEMMA LastDigit ==
    ASSUME NEW x \in Nat, NEW d \in 0 .. 63
    PROVE  (x * 64 + d) \div 64 = x /\ (x * 64 + d) % 64 = d
OBVIOUS

LEMMA TimesShift ==
    ASSUME NEW a \in Nat, NEW b \in Nat
    PROVE  a * b \in Nat /\ (a * b) * 64 = a * (b * 64)
OBVIOUS

LEMMA DigitLast ==
    ASSUME NEW a \in Nat, NEW q \in Nat, NEW d \in Nat
    PROVE  (a + q) * 64 + d = (a * 64 + d) + q * 64
OBVIOUS

LEMMA LeftOneMore ==
    ASSUME NEW x \in Nat, NEW m \in 0 .. 4
    PROVE  Left(x, m + 1) = Left(x, m) \div 64
<1>1. CASE m = 0
    BY <1>1 DEF Left
<1>2. CASE m = 1
    BY <1>2 DEF Left
<1>3. CASE m = 2
    BY <1>3 DEF Left
<1>4. CASE m = 3
    BY <1>4 DEF Left
<1>5. CASE m = 4
    BY <1>5 DEF Left
<1> QED
    BY <1>1, <1>2, <1>3, <1>4, <1>5

LEMMA LeftAll ==
    ASSUME NEW x \in Nat
    PROVE  Left(x, 0) = x
BY DEF Left

DigitsAre(v, h, s, i, n) ==
    /\ Left(v, n) = h
    /\ \A k \in 1 .. n : Left(v, n - k) % 64 = Low(s, i + k)

LEMMA DigitsOf ==
    ASSUME NEW s \in Seq(Bytes), NEW i \in Nat, NEW n \in 1 .. 5, i + n < Len(s), NEW h \in Nat,
           NEW g, Digits(g, h, s, i, n)
    PROVE  DigitsAre(g[n], h, s, i, n)
<1>1. \A k \in 1 .. n : Low(s, i + k) \in 0 .. 63
    <2>1. \A k \in 1 .. n : i + k \in 0 .. Len(s) - 1
        OBVIOUS
    <2> QED
        BY <2>1, ByteOf, Zenon
<1>2. ASSUME NEW k \in 1 .. n
      PROVE  g[k] \in Nat /\ g[k - 1] \in Nat /\ g[k] \div 64 = g[k - 1] /\ g[k] % 64 = Low(s, i + k)
    <2>1. /\ g[k] \in Nat /\ g[k - 1] \in Nat /\ Low(s, i + k) \in 0 .. 63
          /\ g[k] = g[k - 1] * 64 + Low(s, i + k)
        BY <1>1 DEF Digits
    <2>2. /\ (g[k - 1] * 64 + Low(s, i + k)) \div 64 = g[k - 1]
          /\ (g[k - 1] * 64 + Low(s, i + k)) % 64 = Low(s, i + k)
        BY <2>1, LastDigit, Zenon
    <2> QED
        BY <2>1, <2>2, Zenon
<1>3. g[0] = h
    BY DEF Digits
<1>5. \A x \in Nat, m \in 0 .. 4 : Left(x, m + 1) = Left(x, m) \div 64
    BY LeftOneMore
<1>6. \A m \in 0 .. n : Left(g[n], m) = g[n - m]
    <2> DEFINE S == {m \in Nat : m <= n => Left(g[n], m) = g[n - m]}
    <2>1. 0 \in S
        <3>1. g[n] \in Nat /\ n - 0 = n /\ 0 <= n
            BY DEF Digits
        <3>2. Left(g[n], 0) = g[n]
            BY <3>1, LeftAll
        <3> QED
            BY <3>1, <3>2
    <2>2. ASSUME NEW m \in S
          PROVE  m + 1 \in S
        <3> SUFFICES ASSUME m + 1 <= n PROVE Left(g[n], m + 1) = g[n - (m + 1)]
            OBVIOUS
        <3>1. n - m \in 1 .. n /\ (n - m) - 1 = n - (m + 1) /\ m \in 0 .. 4
            OBVIOUS
        <3>3. g[n] \in Nat
            BY DEF Digits
        <3>2. Left(g[n], m) = g[n - m]
            OBVIOUS
        <3>4. g[n - m] \div 64 = g[n - (m + 1)]
            BY <1>2, <3>1, Zenon
        <3>5. Left(g[n], m + 1) = Left(g[n], m) \div 64
            BY <1>5, <3>1, <3>3, Zenon
        <3> QED
            BY <3>2, <3>4, <3>5, Zenon
    <2> HIDE DEF S
    <2>3. \A m \in Nat : m \in S
        BY <2>1, <2>2, SetInduction DEF S
    <2> QED
        BY <2>3 DEF S
<1>7. ASSUME NEW k \in 1 .. n
      PROVE  Left(g[n], n - k) % 64 = Low(s, i + k)
    <2>1. n - k \in 0 .. n /\ n - (n - k) = k
        OBVIOUS
    <2> QED
        BY <1>2, <1>6, <2>1, Zenon
<1>8. Left(g[n], n) = g[0]
    <2>1. n \in 0 .. n /\ n - n = 0
        OBVIOUS
    <2> QED
        BY <1>6, <2>1, Zenon
<1> QED
    BY <1>3, <1>7, <1>8, Zenon DEF DigitsAre

\* What utf8Decode makes of n + 1 bytes: their payload, and its bits.
CharacterAt(s, i, n, h, v) ==
    /\ v \in Nat /\ v = Payload(s, i, n + 1)
    /\ v = Appended(0, s, i, n) + ((Byte(s, i) * 2 ^ n) % 128) * 2 ^ (n * 5)
    /\ DigitsAre(v, h, s, i, n)

LEMMA Characters ==
    ASSUME NEW s \in Seq(Bytes), NEW i \in Nat, NEW n \in 1 .. 5, i + n < Len(s),
           NEW h \in 0 .. Room(n), Byte(s, i) = LeadOf(n, h)
    PROVE  CharacterAt(s, i, n, h, Payload(s, i, n + 1))
<1> DEFINE v == Payload(s, i, n + 1)
<1>1. h \in Nat /\ n \in Nat /\ n + 1 # 1 /\ (n + 1) - 1 = n /\ 0 \in Nat
    <2>1. n \in 0 .. 5 /\ n # 0
        OBVIOUS
    <2>2. Room(n) \in Nat
        BY <2>1, LeftType, Zenon
    <2> QED
        BY <2>2
<1>2. v = Appended(h, s, i, n)
    <2>1. Byte(s, i) % 2 ^ (7 - (n + 1)) = h
        BY FirstBits
    <2> QED
        BY <1>1, <2>1, Zenon DEF Payload
<1>3. PICK g : Digits(g, h, s, i, n) /\ Appended(h, s, i, n) = g[n]
    BY <1>1, AppendedTurns, Zenon
<1>4. PICK f : Digits(f, 0, s, i, n) /\ Appended(0, s, i, n) = f[n]
    BY <1>1, AppendedTurns, Zenon
<1>5. g[n] = f[n] + h * 2 ^ (6 * n)
    <2> DEFINE low(k) == Low(s, i + k)
    <2>1. \A k \in 1 .. n : low(k) \in Nat
        <3>1. \A k \in 1 .. n : i + k \in 0 .. Len(s) - 1
            OBVIOUS
        <3>2. \A x \in 0 .. 63 : x \in Nat
            OBVIOUS
        <3> QED
            BY <3>1, <3>2, ByteOf, Zenon
    <2>2. g[0] = h /\ f[0] = 0
        BY <1>3, <1>4 DEF Digits
    <2>3. \A k \in 1 .. n : /\ g[k] = g[k - 1] * 64 + low(k) /\ f[k] = f[k - 1] * 64 + low(k)
                           /\ g[k] \in Nat /\ f[k] \in Nat
        <3>1. \A k \in 1 .. n : g[k] = g[k - 1] * 64 + low(k) /\ f[k] = f[k - 1] * 64 + low(k)
            BY <1>3, <1>4, Zenon DEF Digits
        <3>2. \A k \in 1 .. n : g[k] \in Nat /\ f[k] \in Nat
            <4>1. g \in [0 .. n -> Nat] /\ f \in [0 .. n -> Nat]
                BY <1>3, <1>4 DEF Digits
            <4> QED
                BY <4>1
        <3> QED
            BY <3>1, <3>2, Zenon
    <2> HIDE DEF low
    <2>4. ASSUME NEW k \in 1 .. n, NEW p \in Nat, g[k - 1] = f[k - 1] + h * p, f[k - 1] \in Nat
          PROVE  g[k] = f[k] + h * (p * 64)
        <3>1. /\ g[k] = (f[k - 1] + h * p) * 64 + low(k) /\ f[k] = f[k - 1] * 64 + low(k)
              /\ low(k) \in Nat
            BY <2>1, <2>3, <2>4
        <3> DEFINE q == h * p
        <3>2. q \in Nat /\ q * 64 = h * (p * 64)
            BY <1>1, TimesShift, Zenon
        <3> HIDE DEF q
        <3>3. (f[k - 1] + q) * 64 + low(k) = (f[k - 1] * 64 + low(k)) + q * 64
            <4> DEFINE a == f[k - 1]
                       l == low(k)
            <4>1. a \in Nat /\ l \in Nat /\ q \in Nat
                BY <2>4, <3>1, <3>2, Zenon
            <4> HIDE DEF a, l
            <4>2. (a + q) * 64 + l = (a * 64 + l) + q * 64
                BY <4>1, SMT
            <4> QED
                BY <4>2, Zenon DEF a, l
        <3> QED
            BY <3>1, <3>2, <3>3 DEF q
    <2>5. \A k \in 0 .. n : g[k] = f[k] + h * 2 ^ (6 * k)
        <3> DEFINE T == {k \in Nat : k <= n => g[k] = f[k] + h * 2 ^ (6 * k)}
        <3>1. 0 \in T
            BY <1>1, <2>2
        <3>2. ASSUME NEW k \in T
              PROVE  k + 1 \in T
            <4> SUFFICES ASSUME k + 1 <= n PROVE g[k + 1] = f[k + 1] + h * 2 ^ (6 * (k + 1))
                OBVIOUS
            <4>1. k \in Nat /\ k + 1 \in 1 .. n /\ (k + 1) - 1 = k /\ g[k] = f[k] + h * 2 ^ (6 * k)
                OBVIOUS
            <4>2. f[k] \in Nat
                BY <1>4, <4>1 DEF Digits
            <4>3. 2 ^ (6 * k) \in Nat /\ 2 ^ (6 * k + 6) = 2 ^ (6 * k) * 2 ^ 6
                <5>1. 6 * k \in Nat /\ 6 \in Nat
                    BY <4>1
                <5> QED
                    BY <5>1, PowerOfTwo, PowerSum
            <4>4. 2 ^ 6 = 64 /\ 6 * (k + 1) = 6 * k + 6
                BY <4>1
            <4>5. g[k + 1] = f[k + 1] + h * (2 ^ (6 * k) * 64)
                BY <2>4, <4>1, <4>2, <4>3, Zenon
            <4> QED
                BY <4>3, <4>4, <4>5, Zenon
        <3> HIDE DEF T
        <3>3. \A k \in Nat : k \in T
            BY <3>1, <3>2, SetInduction DEF T
        <3> QED
            BY <3>3 DEF T
    <2> QED
        BY <1>1, <2>5
<1>6. ((Byte(s, i) * 2 ^ n) % 128) * 2 ^ (n * 5) = h * 2 ^ (6 * n)
    BY FirstBits
<1>7. v \in Nat /\ v = g[n]
    BY <1>2, <1>3 DEF Digits
<1> HIDE DEF v
<1>8. v = Appended(0, s, i, n) + ((Byte(s, i) * 2 ^ n) % 128) * 2 ^ (n * 5)
    BY <1>4, <1>5, <1>6, <1>7, Zenon
<1>9. DigitsAre(v, h, s, i, n)
    BY <1>1, <1>3, <1>7, DigitsOf, Zenon
<1> QED
    BY <1>7, <1>8, <1>9 DEF CharacterAt, v

LEMMA LeadRange ==
    ASSUME NEW n \in 1 .. 5, NEW h \in 0 .. Room(n)
    PROVE  /\ LeadOf(n, h) \in 192 .. 253
           /\ n = 1 <=> LeadOf(n, h) \in 192 .. 223
           /\ n = 2 <=> LeadOf(n, h) \in 224 .. 239
           /\ n = 3 <=> LeadOf(n, h) \in 240 .. 247
           /\ n = 4 <=> LeadOf(n, h) \in 248 .. 251
<1>1. n = 1 => h \in 0 .. 31 /\ LeadOf(n, h) = 192 + h
    BY SixBits, SMT DEF LeadOf
<1>2. n = 2 => h \in 0 .. 15 /\ LeadOf(n, h) = 224 + h
    BY SixBits, SMT DEF LeadOf
<1>3. n = 3 => h \in 0 .. 7 /\ LeadOf(n, h) = 240 + h
    BY SixBits, SMT DEF LeadOf
<1>4. n = 4 => h \in 0 .. 3 /\ LeadOf(n, h) = 248 + h
    BY SixBits, SMT DEF LeadOf
<1>5. n = 5 => h \in 0 .. 1 /\ LeadOf(n, h) = 252 + h
    BY SixBits, SMT DEF LeadOf
<1>6. n = 1 \/ n = 2 \/ n = 3 \/ n = 4 \/ n = 5
    OBVIOUS
<1> QED
    BY <1>1, <1>2, <1>3, <1>4, <1>5, <1>6

LEMMA LeadUnique ==
    ASSUME NEW n \in 1 .. 5, NEW h \in 0 .. Room(n), NEW m \in 1 .. 5, NEW l \in 0 .. Room(m),
           LeadOf(n, h) = LeadOf(m, l)
    PROVE  n = m
<1>1. /\ n = 1 <=> LeadOf(n, h) \in 192 .. 223
      /\ n = 2 <=> LeadOf(n, h) \in 224 .. 239
      /\ n = 3 <=> LeadOf(n, h) \in 240 .. 247
      /\ n = 4 <=> LeadOf(n, h) \in 248 .. 251
    BY LeadRange
<1>2. /\ m = 1 <=> LeadOf(m, l) \in 192 .. 223
      /\ m = 2 <=> LeadOf(m, l) \in 224 .. 239
      /\ m = 3 <=> LeadOf(m, l) \in 240 .. 247
      /\ m = 4 <=> LeadOf(m, l) \in 248 .. 251
    BY LeadRange
<1> QED
    BY <1>1, <1>2

\* The encoding of a code point that needs n continuation bytes.
EscOf(x, n) ==
    [k \in 1 .. n + 1 |-> IF k = 1 THEN LeadOf(n, Left(x, n)) ELSE 128 + (Left(x, n + 1 - k) % 64)]
Encoded(x, n) ==
    /\ n \in 1 .. 5 /\ Needs(x, n) /\ Left(x, n) \in 0 .. Room(n)
    /\ Utf8esc(x) = EscOf(x, n)

\* A first byte announces what it is the first byte of.
LEMMA LeadAnnounces ==
    ASSUME NEW n \in 1 .. 5, NEW h \in 0 .. Room(n)
    PROVE  Announced(LeadOf(n, h)) = n
<1> DEFINE c == LeadOf(n, h)
<1>1. c \in 192 .. 253
    BY LeadRange
<1> HIDE DEF c
<1>2. c \in Bytes /\ c >= 128 /\ ~ c < 192 /\ ~ c >= 254
    BY <1>1, SMT DEF Bytes
<1>3. PICK m \in 1 .. 5 : Announced(c) = m /\ \E l \in 0 .. Room(m) : c = LeadOf(m, l)
    BY <1>2, FirstBytes
<1>4. n = m
    BY <1>3, LeadUnique, Zenon DEF c
<1> QED
    BY <1>3, <1>4 DEF c

LEMMA EncodesAs ==
    ASSUME NEW x \in Nat, x >= 128, NEW n, Needs(x, n)
    PROVE  Encoded(x, n)
<1>1. Continued(x) = n /\ n \in 1 .. 5
    BY ContinuedIs DEF Needs
<1>2. ~ x < 128
    OBVIOUS
<1>3. Utf8esc(x) = EscOf(x, n)
    BY <1>1, <1>2, Zenon DEF Utf8esc, EscOf, LeadOf
<1>4. Left(x, n) \in 0 .. Room(n)
    <2>1. n \in 0 .. 5 /\ n # 0
        BY <1>1
    <2>2. Left(x, n) \in Nat /\ Room(n) \in Nat
        BY <2>1, LeftType, Zenon
    <2> QED
        BY <2>2 DEF Needs, Fits
<1> QED
    BY <1>1, <1>3, <1>4 DEF Encoded

LEMMA DigitFits ==
    ASSUME NEW x \in Nat, NEW p \in Nat, NEW d \in 0 .. 63, x + 1 <= p
    PROVE  (x * 64 + d) + 1 <= p * 64
OBVIOUS

\* A code point of k bytes has at most as many bits as they have room for.
LEMMA PayloadType ==
    ASSUME NEW s \in Seq(Bytes), NEW i \in Nat, NEW k \in 2 .. 6, i + k <= Len(s)
    PROVE  Payload(s, i, k) \in Nat /\ Payload(s, i, k) <= MaxUTF
<1> DEFINE n == k - 1
           F == 2 ^ (7 - k)
           h == Byte(s, i) % F
<1>1. n \in 1 .. 5 /\ n \in Nat /\ i + n < Len(s) /\ k # 1
    OBVIOUS
<1>2. F \in Nat /\ F >= 1
    <2>1. 7 - k \in Nat
        OBVIOUS
    <2> QED
        BY <2>1, PowerOfTwo
<1>3. h \in 0 .. F - 1
    <2>1. i \in 0 .. Len(s) - 1 /\ \A x \in Bytes : x \in Int
        BY SMT DEF Bytes
    <2>2. Byte(s, i) \in Int
        BY <2>1, ByteOf, Zenon
    <2> HIDE DEF F
    <2> QED
        BY <1>2, <2>2, DivMod
<1>4. h \in Nat
    BY <1>2, <1>3
<1>5. Payload(s, i, k) = Appended(h, s, i, n)
    BY <1>1, Zenon DEF Payload
<1>6. PICK g : Digits(g, h, s, i, n) /\ Appended(h, s, i, n) = g[n]
    BY <1>1, <1>4, AppendedTurns, Zenon
<1> HIDE DEF h, F, n
<1>7. \A m \in 1 .. n : Low(s, i + m) \in 0 .. 63
    <2>1. \A m \in 1 .. n : i + m \in 0 .. Len(s) - 1
        BY <1>1
    <2> QED
        BY <2>1, ByteOf, Zenon
<1>8. \A m \in 0 .. n : g[m] + 1 <= F * 2 ^ (6 * m)
    <2> DEFINE T == {m \in Nat : m <= n => g[m] + 1 <= F * 2 ^ (6 * m)}
    <2>1. 0 \in T
        <3>1. g[0] = h /\ 6 * 0 = 0 /\ 2 ^ 0 = 1
            BY <1>6 DEF Digits
        <3> QED
            BY <1>2, <1>3, <3>1
    <2>2. ASSUME NEW m \in T
          PROVE  m + 1 \in T
        <3> SUFFICES ASSUME m + 1 <= n PROVE g[m + 1] + 1 <= F * 2 ^ (6 * (m + 1))
            OBVIOUS
        <3>1. m \in Nat /\ m + 1 \in 1 .. n /\ (m + 1) - 1 = m /\ g[m] + 1 <= F * 2 ^ (6 * m)
            BY <1>1
        <3>2. 2 ^ (6 * m) \in Nat /\ 2 ^ (6 * m + 6) = 2 ^ (6 * m) * 2 ^ 6
            <4>1. 6 * m \in Nat /\ 6 \in Nat
                BY <3>1
            <4> QED
                BY <4>1, PowerOfTwo, PowerSum
        <3>3. 2 ^ 6 = 64 /\ 6 * (m + 1) = 6 * m + 6
            BY <3>1
        <3>4. 2 ^ (6 * (m + 1)) = 2 ^ (6 * m) * 64
            BY <3>2, <3>3, Zenon
        <3>5. g[m + 1] = g[m] * 64 + Low(s, i + (m + 1)) /\ g[m] \in Nat
            <4>1. g[m + 1] = g[m] * 64 + Low(s, i + (m + 1))
                BY <1>6, <3>1, Zenon DEF Digits
            <4>2. g \in [0 .. n -> Nat]
                BY <1>6, Zenon DEF Digits
            <4>3. m \in 0 .. n
                BY <1>1, <3>1
            <4> QED
                BY <4>1, <4>2, <4>3
        <3>6. Low(s, i + (m + 1)) \in 0 .. 63
            BY <1>7, <3>1, Zenon
        <3> DEFINE p == F * 2 ^ (6 * m)
        <3>7. p \in Nat /\ F * 2 ^ (6 * (m + 1)) = p * 64
            BY <1>2, <3>2, <3>4
        <3>8. g[m] + 1 <= p
            BY <3>1
        <3> HIDE DEF p
        <3>9. (g[m] * 64 + Low(s, i + (m + 1))) + 1 <= p * 64
            BY <3>5, <3>6, <3>7, <3>8, DigitFits, Zenon
        <3> QED
            BY <3>5, <3>7, <3>9, Zenon
    <2> HIDE DEF T
    <2>3. \A m \in Nat : m \in T
        BY <2>1, <2>2, SetInduction DEF T
    <2> QED
        BY <2>3 DEF T
<1>9. g[n] \in Nat /\ g[n] + 1 <= F * 2 ^ (6 * n)
    BY <1>1, <1>6, <1>8 DEF Digits
<1>10. F * 2 ^ (6 * n) <= MaxUTF + 1
    <2>1. CASE k = 2
        BY <2>1, SMT DEF F, n, MaxUTF
    <2>2. CASE k = 3
        BY <2>2, SMT DEF F, n, MaxUTF
    <2>3. CASE k = 4
        BY <2>3, SMT DEF F, n, MaxUTF
    <2>4. CASE k = 5
        BY <2>4, SMT DEF F, n, MaxUTF
    <2>5. CASE k = 6
        BY <2>5, SMT DEF F, n, MaxUTF
    <2> QED
        BY <2>1, <2>2, <2>3, <2>4, <2>5
<1>11. MaxUTF \in Nat /\ F * 2 ^ (6 * n) \in Nat
    <2>1. 6 * n \in Nat
        BY <1>1
    <2>2. 2 ^ (6 * n) \in Nat
        BY <2>1, PowerOfTwo
    <2> QED
        BY <1>2, <2>2, SMT DEF MaxUTF
<1> HIDE DEF F, n
<1> QED
    BY <1>5, <1>6, <1>9, <1>10, <1>11

\* What stands where an encoding of k bytes has been written.
Multibyte(s, i, k) ==
    LET n == k - 1
        v == Payload(s, i, k)
    IN /\ k \in 2 .. 6 /\ i + k <= Len(s)
       /\ \E h \in 0 .. Room(n) : Byte(s, i) = LeadOf(n, h)
       /\ \A m \in 1 .. n : IsCont(s, i + m)
       /\ v \in Nat /\ v >= 128 /\ Needs(v, n)

LEMMA WrittenSize ==
    ASSUME NEW s \in Seq(Bytes), NEW i \in 0 .. Len(s) - 1, NEW k
    PROVE  k \in Written(s, i) <=>
               /\ k \in 1 .. 6 /\ i + k <= Len(s)
               /\ Utf8esc(Payload(s, i, k)) = SubSeq(s, i + 1, i + k)
<1> DEFINE most == IF Len(s) - i < 6 THEN Len(s) - i ELSE 6
<1>1. k \in 1 .. most <=> k \in 1 .. 6 /\ i + k <= Len(s)
    OBVIOUS
<1> HIDE DEF most
<1>2. k \in Written(s, i) <=> k \in 1 .. most /\ Utf8esc(Payload(s, i, k)) = SubSeq(s, i + 1, i + k)
    BY Zenon DEF Written, most
<1> QED
    BY <1>1, <1>2

LEMMA Slice ==
    ASSUME NEW s \in Seq(Bytes), NEW i \in Nat, NEW k \in Nat, i + k <= Len(s)
    PROVE  /\ SubSeq(s, i + 1, i + k) = [m \in 1 .. k |-> Byte(s, i + m - 1)]
           /\ Len(SubSeq(s, i + 1, i + k)) = k
<1>1. SubSeq(s, i + 1, i + k) = [m \in 1 .. (i + k) - (i + 1) + 1 |-> s[(i + 1) + m - 1]]
    BY DEF SubSeq
<1>2. (i + k) - (i + 1) + 1 = k /\ \A m \in 1 .. k : (i + 1) + m - 1 = (i + m - 1) + 1
    OBVIOUS
<1>3. SubSeq(s, i + 1, i + k) = [m \in 1 .. k |-> Byte(s, i + m - 1)]
    BY <1>1, <1>2 DEF Byte
<1> QED
    BY <1>3

LEMMA WrittenIs ==
    ASSUME NEW s \in Seq(Bytes), NEW i \in 0 .. Len(s) - 1, NEW k \in Written(s, i)
    PROVE  (k = 1 /\ Byte(s, i) < 128) \/ Multibyte(s, i, k)
<1> DEFINE v == Payload(s, i, k)
           n == k - 1
<1>1. /\ k \in 1 .. 6 /\ i + k <= Len(s) /\ i \in Nat /\ k \in Nat
      /\ Utf8esc(v) = SubSeq(s, i + 1, i + k)
    BY WrittenSize
<1>2. /\ Utf8esc(v) = [m \in 1 .. k |-> Byte(s, i + m - 1)]
      /\ Len(Utf8esc(v)) = k
    <2>1. /\ SubSeq(s, i + 1, i + k) = [m \in 1 .. k |-> Byte(s, i + m - 1)]
          /\ Len(SubSeq(s, i + 1, i + k)) = k
        BY <1>1, Slice, Zenon
    <2> QED
        BY <1>1, <2>1, Zenon
<1>3. v \in Nat /\ v <= MaxUTF
    <2>1. CASE k = 1
        <3>1. v = Byte(s, i)
            BY <2>1 DEF Payload
        <3>2. \A x \in Bytes : x \in Nat /\ x <= MaxUTF
            BY SMT DEF Bytes, MaxUTF
        <3> QED
            BY <3>1, <3>2, ByteOf, Zenon
    <2>2. CASE k \in 2 .. 6
        BY <1>1, <2>2, PayloadType, Zenon
    <2> QED
        BY <1>1, <2>1, <2>2
<1>4. CASE v < 128
    <2>1. Utf8esc(v) = <<v>>
        BY <1>4, Zenon DEF Utf8esc
    <2>2. k = 1
        BY <1>2, <2>1
    <2>3. v = Byte(s, i)
        BY <2>2 DEF Payload
    <2> QED
        BY <1>4, <2>2, <2>3
<1>5. CASE v >= 128
    <2>1. Encoded(v, Continued(v))
        BY <1>3, <1>5, ContinuedExists, EncodesAs
    <2> DEFINE c == Continued(v)
    <2> HIDE DEF v, c
    <2>2. c \in 1 .. 5 /\ Needs(v, c) /\ Left(v, c) \in 0 .. Room(c) /\ Utf8esc(v) = EscOf(v, c)
        BY <2>1 DEF Encoded, c
    <2>3. Len(EscOf(v, c)) = c + 1
        BY <2>2 DEF EscOf
    <2>4. c = n /\ n \in 1 .. 5 /\ k \in 2 .. 6 /\ k = n + 1
        BY <1>1, <1>2, <2>2, <2>3
    <2>5. \A m \in 1 .. n + 1 : EscOf(v, n)[m] = Byte(s, i + m - 1)
        BY <1>2, <2>2, <2>4
    <2> HIDE DEF n
    <2>6. Byte(s, i) = LeadOf(n, Left(v, n))
        <3>1. EscOf(v, n)[1] = LeadOf(n, Left(v, n)) /\ 1 \in 1 .. n + 1 /\ i + 1 - 1 = i
            BY <2>4 DEF EscOf
        <3> QED
            BY <2>5, <3>1, Zenon
    <2>7. ASSUME NEW m \in 1 .. n
          PROVE  IsCont(s, i + m)
        <3> DEFINE x == Left(v, n - m)
        <3>1. m + 1 \in 1 .. n + 1 /\ m + 1 # 1 /\ n + 1 - (m + 1) = n - m /\ i + (m + 1) - 1 = i + m
              /\ n - m \in 0 .. 5 /\ i + m < Len(s)
            BY <1>1, <2>4
        <3>2. EscOf(v, n)[m + 1] = 128 + (x % 64)
            BY <3>1, Zenon DEF EscOf
        <3>3. x \in Nat
            BY <1>3, <3>1, LeftType, Zenon
        <3> HIDE DEF x
        <3>4. Byte(s, i + m) = 128 + (x % 64)
            BY <2>5, <3>1, <3>2, Zenon
        <3>5. (128 + (x % 64)) \div 64 = 2
            BY <3>3
        <3> QED
            BY <3>1, <3>4, <3>5, Zenon DEF IsCont
    <2> QED
        BY <1>1, <1>3, <1>5, <2>2, <2>4, <2>6, <2>7, Zenon DEF Multibyte, v, n
<1> QED
    BY <1>3, <1>4, <1>5

LEMMA WrittenWhen ==
    ASSUME NEW s \in Seq(Bytes), NEW i \in 0 .. Len(s) - 1, NEW k, Multibyte(s, i, k)
    PROVE  k \in Written(s, i)
<1> DEFINE v == Payload(s, i, k)
           n == k - 1
<1>1. /\ k \in 2 .. 6 /\ i + k <= Len(s)
      /\ \E h \in 0 .. Room(n) : Byte(s, i) = LeadOf(n, h)
      /\ \A m \in 1 .. n : IsCont(s, i + m)
      /\ v \in Nat /\ v >= 128 /\ Needs(v, n)
    BY Zenon DEF Multibyte
<1>2. PICK h \in 0 .. Room(n) : Byte(s, i) = LeadOf(n, h)
    BY <1>1
<1>3. n \in 1 .. 5 /\ i \in Nat /\ k \in Nat /\ i + n < Len(s) /\ k = n + 1 /\ k \in 1 .. 6
    BY <1>1
<1>4. DigitsAre(v, h, s, i, n)
    <2>1. CharacterAt(s, i, n, h, Payload(s, i, n + 1))
        BY <1>2, <1>3, Characters, Zenon
    <2> QED
        BY <1>3, <2>1, Zenon DEF CharacterAt
<1>5. Utf8esc(v) = EscOf(v, n)
    BY <1>1, EncodesAs, Zenon DEF Encoded
<1> HIDE DEF v, n
<1>6. ASSUME NEW m \in 1 .. k
      PROVE  EscOf(v, n)[m] = Byte(s, i + m - 1)
    <2>1. CASE m = 1
        <3>1. EscOf(v, n)[1] = LeadOf(n, Left(v, n))
            BY <1>3 DEF EscOf
        <3>2. Left(v, n) = h /\ i + 1 - 1 = i
            BY <1>3, <1>4 DEF DigitsAre
        <3> QED
            BY <1>2, <2>1, <3>1, <3>2, Zenon
    <2>2. CASE m # 1
        <3> DEFINE j == m - 1
                   b == Byte(s, i + j)
        <3>1. j \in 1 .. n /\ m \in 1 .. n + 1 /\ n + 1 - m = n - j /\ i + m - 1 = i + j
              /\ i + j \in 0 .. Len(s) - 1
            BY <1>1, <1>3, <2>2
        <3>2. EscOf(v, n)[m] = 128 + (Left(v, n - j) % 64)
            BY <2>2, <3>1, Zenon DEF EscOf
        <3>3. Left(v, n - j) % 64 = b % 64
            BY <1>4, <3>1, Zenon DEF DigitsAre, Low
        <3>4. b \div 64 = 2 /\ b \in Bytes
            BY <1>1, <3>1, ByteOf, Zenon DEF IsCont
        <3> HIDE DEF b
        <3>5. b = 128 + (b % 64)
            BY <3>4, SMT DEF Bytes
        <3> QED
            BY <3>1, <3>2, <3>3, <3>5, Zenon DEF b
    <2> QED
        BY <2>1, <2>2
<1>7. EscOf(v, n) = [m \in 1 .. k |-> Byte(s, i + m - 1)]
    <2>1. EscOf(v, n) = [m \in 1 .. k |-> EscOf(v, n)[m]]
        BY <1>3 DEF EscOf
    <2> QED
        BY <1>6, <2>1, Zenon
<1>8. SubSeq(s, i + 1, i + k) = [m \in 1 .. k |-> Byte(s, i + m - 1)]
    BY <1>1, <1>3, Slice, Zenon
<1> QED
    BY <1>1, <1>3, <1>5, <1>7, <1>8, WrittenSize, Zenon DEF v

Valid(s, i, strict) == {k \in Written(s, i) : strict => Strictly(Payload(s, i, k))}
Decodes(s, i, strict, d) ==
    /\ d.ok <=> Valid(s, i, strict) # {}
    /\ d.ok => \E k \in Valid(s, i, strict) : d.next = i + k /\ d.val = Payload(s, i, k)

LEMMA AsciiStrictly ==
    ASSUME NEW x \in Nat, x < 128
    PROVE  Strictly(x)
<1>1. x <= MaxUnicode
    BY SMT DEF MaxUnicode
<1>2. x \notin Surrogates
    <2>1. ~ 55296 <= x
        BY SMT
    <2> QED
        BY <2>1, SMT DEF Surrogates
<1> QED
    BY <1>1, <1>2, Zenon DEF Strictly

\* utf8Decode and utf8esc agree on every sequence of bytes.
LEMMA DecodesAlways ==
    ASSUME NEW s \in Seq(Bytes), NEW i \in 0 .. Len(s) - 1, NEW strict \in BOOLEAN
    PROVE  DecodesWritten(s, i, strict)
<1> DEFINE d == Utf8Decode(s, i, strict)
           c == Byte(s, i)
           count == Announced(c)
           res == Appended(0, s, i, count) + ((c * 2 ^ count) % 128) * 2 ^ (count * 5)
           wrong == \/ \E k \in 1 .. count : ~ IsCont(s, i + k)
                    \/ count > 5
                    \/ TooLong(count, res)
                    \/ strict /\ ~ Strictly(res)
<1>1. d = IF c < 128 THEN [ok |-> TRUE, val |-> c, next |-> i + 1]
          ELSE IF wrong THEN Undecodable
          ELSE [ok |-> TRUE, val |-> res, next |-> i + count + 1]
    BY Zenon DEF Utf8Decode
<1>2. DecodesWritten(s, i, strict) <=> Decodes(s, i, strict, d)
    BY Zenon DEF DecodesWritten, Decodes, Valid
<1> HIDE DEF d, wrong
<1>3. c \in Bytes /\ c \in Int /\ c \in Nat /\ i \in Nat
    <2>1. \A x \in Bytes : x \in Int /\ x \in Nat
        BY SMT DEF Bytes
    <2>2. c \in Bytes
        BY ByteOf, Zenon
    <2> QED
        BY <2>1, <2>2
<1>4. CASE c < 128
    <2>1. d.ok /\ d.val = c /\ d.next = i + 1
        BY <1>1, <1>4
    <2>2. Payload(s, i, 1) = c
        BY DEF Payload
    <2>3. 1 \in Written(s, i)
        <3>1. Utf8esc(c) = <<c>>
            BY <1>4, Zenon DEF Utf8esc
        <3>2. i + 1 <= Len(s) /\ 1 \in Nat /\ 1 \in 1 .. 6
            OBVIOUS
        <3>3. SubSeq(s, i + 1, i + 1) = [m \in 1 .. 1 |-> Byte(s, i + m - 1)]
            BY <1>3, <3>2, Slice, Zenon
        <3>4. [m \in 1 .. 1 |-> Byte(s, i + m - 1)] = <<c>>
            BY <1>3
        <3> QED
            BY <2>2, <3>1, <3>2, <3>3, <3>4, WrittenSize, Zenon
    <2>4. Strictly(c)
        BY <1>3, <1>4, AsciiStrictly, Zenon
    <2>5. 1 \in Valid(s, i, strict)
        BY <2>2, <2>3, <2>4 DEF Valid
    <2> QED
        BY <1>2, <2>1, <2>2, <2>5 DEF Decodes
<1>5. CASE c >= 128
    <2> DEFINE Is(n) == n \in 1 .. 5 /\ \E h \in 0 .. Room(n) : c = LeadOf(n, h)
    <2>1. \A k \in Written(s, i) : Multibyte(s, i, k)
        <3>1. ~ c < 128
            BY <1>3, <1>5
        <3> QED
            BY <3>1, WrittenIs, Zenon
    <2>2. ~ c < 128
        BY <1>3, <1>5
    <2>3. CASE ~ \E n : Is(n)
        <3>1. Written(s, i) = {}
            <4>1. \A k \in Written(s, i) : k - 1 \in 1 .. 5 /\ Is(k - 1)
                <5>1. \A k \in 2 .. 6 : k - 1 \in 1 .. 5
                    OBVIOUS
                <5> QED
                    BY <2>1, <5>1, Zenon DEF Multibyte
            <4> QED
                BY <2>3, <4>1
        <3>2. wrong
            <4>1. count = 0 \/ count \in {6, 7}
                BY <1>3, <1>5, <2>3, FirstBytes
            <4>2. count = 0 => TooLong(count, res)
                BY DEF TooLong
            <4>3. count \in {6, 7} => count > 5
                OBVIOUS
            <4> QED
                BY <4>1, <4>2, <4>3, Zenon DEF wrong
        <3>3. d.ok = FALSE
            BY <1>1, <2>2, <3>2 DEF Undecodable
        <3> QED
            BY <1>2, <3>1, <3>3 DEF Decodes, Valid
    <2>4. ASSUME NEW n, Is(n), count = n
          PROVE  Decodes(s, i, strict, d)
        <3> DEFINE v == Payload(s, i, n + 1)
        <3>1. n \in 1 .. 5 /\ n \in Nat /\ (n + 1) - 1 = n /\ ~ count > 5 /\ count # 0
              /\ i + (n + 1) = i + count + 1 /\ n + 1 \in 2 .. 6
            BY <1>3, <2>4
        <3>2. \A k \in Written(s, i) : k = n + 1
            <4> SUFFICES ASSUME NEW k \in Written(s, i) PROVE k = n + 1
                OBVIOUS
            <4>1. k \in 2 .. 6 /\ \E h \in 0 .. Room(k - 1) : c = LeadOf(k - 1, h)
                BY <2>1, Zenon DEF Multibyte
            <4>2. k - 1 \in 1 .. 5
                BY <4>1
            <4>3. k - 1 = n
                BY <2>4, <4>1, <4>2, LeadUnique, Zenon
            <4> QED
                BY <4>1, <4>3
        <3>3. CASE \E k \in 1 .. n : ~ IsCont(s, i + k)
            <4>1. Written(s, i) = {}
                <5>1. \A k \in Written(s, i) : \A m \in 1 .. n : IsCont(s, i + m)
                    BY <2>1, <3>1, <3>2, Zenon DEF Multibyte
                <5> QED
                    BY <3>3, <5>1
            <4>2. wrong
                BY <2>4, <3>3, Zenon DEF wrong
            <4>3. d.ok = FALSE
                BY <1>1, <2>2, <4>2 DEF Undecodable
            <4> QED
                BY <4>1, <4>3 DEF Decodes, Valid
        <3>4. CASE \A k \in 1 .. n : IsCont(s, i + k)
            <4>1. i + n < Len(s) /\ i + (n + 1) <= Len(s)
                <5>1. IsCont(s, i + n)
                    BY <3>1, <3>4
                <5> QED
                    BY <1>3, <3>1, <5>1 DEF IsCont
            <4>2. PICK h \in 0 .. Room(n) : c = LeadOf(n, h)
                BY <2>4
            <4>3. CharacterAt(s, i, n, h, v)
                BY <1>3, <3>1, <4>1, <4>2, Characters, Zenon
            <4>4. v \in Nat /\ res = v /\ Left(v, n) = h
                BY <2>4, <4>3, Zenon DEF CharacterAt, DigitsAre
            <4> HIDE DEF v, res
            <4>5. Fits(v, n)
                <5>1. n \in 0 .. 5 /\ n # 0
                    BY <3>1
                <5>2. Room(n) \in Nat
                    BY <5>1, LeftType, Zenon
                <5> QED
                    BY <4>2, <4>4, <5>2 DEF Fits
            <4>6. TooLong(count, res) <=> ~ (v >= 128 /\ Needs(v, n))
                <5>1. (v >= 128 /\ Needs(v, n)) <=> v >= Utf8limits[n]
                    BY <3>1, <4>4, <4>5, LimitsTell
                <5>2. Utf8limits[n] \in Nat
                    BY <3>1, SMT DEF Utf8limits
                <5> QED
                    BY <2>4, <3>1, <4>4, <5>1, <5>2 DEF TooLong
            <4>7. n + 1 \in Written(s, i) <=> v >= 128 /\ Needs(v, n)
                <5>1. n + 1 \in Written(s, i) => v >= 128 /\ Needs(v, n)
                    BY <2>1, <3>1, Zenon DEF Multibyte, v
                <5>2. v >= 128 /\ Needs(v, n) => Multibyte(s, i, n + 1)
                    BY <3>1, <3>4, <4>1, <4>2, <4>4, Zenon DEF Multibyte, v
                <5> QED
                    BY <5>1, <5>2, WrittenWhen, Zenon
            <4>8. wrong <=> ((n + 1 \notin Written(s, i)) \/ (strict /\ ~ Strictly(v)))
                BY <2>4, <3>1, <3>4, <4>4, <4>6, <4>7, Zenon DEF wrong
            <4>9. CASE wrong
                <5>1. d.ok = FALSE
                    BY <1>1, <2>2, <4>9 DEF Undecodable
                <5>2. Valid(s, i, strict) = {}
                    BY <3>2, <4>8, <4>9 DEF Valid, v
                <5> QED
                    BY <5>1, <5>2 DEF Decodes
            <4>10. CASE ~ wrong
                <5>1. d.ok /\ d.val = v /\ d.next = i + (n + 1)
                    BY <1>1, <2>2, <3>1, <4>4, <4>10
                <5>2. n + 1 \in Valid(s, i, strict)
                    BY <4>8, <4>10, Zenon DEF Valid, v
                <5> QED
                    BY <5>1, <5>2 DEF Decodes, v
            <4> QED
                BY <4>9, <4>10
        <3> QED
            BY <3>3, <3>4
    <2>5. (\E n : Is(n)) => \E n : Is(n) /\ count = n
        <3> SUFFICES ASSUME NEW n, Is(n) PROVE count = n
            OBVIOUS
        <3> QED
            BY LeadAnnounces
    <2> QED
        BY <1>2, <2>3, <2>4, <2>5
<1> QED
    BY <1>3, <1>4, <1>5

-----------------------------------------------------------------------------
(* Encoding, and decoding what is encoded. *)

Codes == {x \in Nat : x <= MaxUTF}

\* The first byte of an encoding of several bytes.
LEMMA LeadBetween ==
    ASSUME NEW n \in 1 .. 5, NEW h \in 0 .. Room(n)
    PROVE  LeadOf(n, h) \in 192 .. 253 /\ ~ LeadOf(n, h) < 128
<1>1. LeadOf(n, h) \in 192 .. 253
    BY LeadRange
<1>2. \A c \in 192 .. 253 : ~ c < 128
    OBVIOUS
<1> QED
    BY <1>1, <1>2, Zenon

\* Numbers with the same digits are the same.
LEMMA SameDigits ==
    ASSUME NEW v \in Nat, NEW x \in Nat, NEW n \in 1 .. 5, Left(v, n) = Left(x, n),
           \A k \in 0 .. n - 1 : Left(v, k) % 64 = Left(x, k) % 64
    PROVE  v = x
<1> DEFINE S == {m \in Nat : m <= n => Left(v, n - m) = Left(x, n - m)}
<1>1. 0 \in S
    OBVIOUS
<1>2. ASSUME NEW m \in S
      PROVE  m + 1 \in S
    <2> SUFFICES ASSUME m + 1 <= n PROVE Left(v, n - (m + 1)) = Left(x, n - (m + 1))
        OBVIOUS
    <2> DEFINE k == n - (m + 1)
    <2>1. k \in 0 .. n - 1 /\ k \in 0 .. 4 /\ k \in 0 .. 5 /\ n - m = k + 1
        OBVIOUS
    <2>2. Left(v, k + 1) = Left(x, k + 1)
        BY <2>1
    <2> HIDE DEF k
    <2>3. \A y \in Nat : Left(y, k) \in Nat /\ Left(y, k + 1) = Left(y, k) \div 64
        BY <2>1, LeftType, LeftOneMore, Zenon
    <2> DEFINE p == Left(v, k)
               q == Left(x, k)
    <2>4. p % 64 = q % 64
        BY <2>1, Zenon
    <2>5. p \in Nat /\ q \in Nat /\ p \div 64 = q \div 64
        BY <2>2, <2>3, Zenon
    <2> HIDE DEF p, q
    <2>6. p = q
        BY <2>4, <2>5
    <2> QED
        BY <2>6 DEF k, p, q
<1> HIDE DEF S
<1>3. \A m \in Nat : m \in S
    BY <1>1, <1>2, SetInduction DEF S
<1>4. Left(v, 0) = Left(x, 0)
    <2>1. n \in S /\ n - n = 0 /\ n <= n
        BY <1>3
    <2> QED
        BY <2>1 DEF S
<1> QED
    BY <1>4, LeftAll, Zenon

\* The bytes of an encoded code point: one that no encoding continues with,
\* and up to five that continue it.
EscIs(e, x) ==
    /\ e \in Seq(Bytes) /\ Len(e) \in 1 .. 6
    /\ e[1] \div 64 # 2
    /\ \A k \in 2 .. Len(e) : e[k] \div 64 = 2

LEMMA EscType ==
    ASSUME NEW x \in Codes
    PROVE  EscIs(Utf8esc(x), x)
<1>type. x \in Nat /\ x <= MaxUTF
    BY DEF Codes
<1>1. CASE x < 128
    <2>1. Utf8esc(x) = <<x>>
        BY <1>1, Zenon DEF Utf8esc
    <2> QED
        BY <1>type, <1>1, <2>1, SMT DEF EscIs, Bytes
<1>2. CASE x >= 128
    <2> DEFINE n == Continued(x)
               e == EscOf(x, n)
    <2>1. Encoded(x, n)
        BY <1>type, <1>2, ContinuedExists, EncodesAs
    <2> HIDE DEF n
    <2>2. n \in 1 .. 5 /\ Left(x, n) \in 0 .. Room(n) /\ Utf8esc(x) = e
        BY <2>1 DEF Encoded
    <2>3. LeadOf(n, Left(x, n)) \in 192 .. 253
        BY <2>2, LeadBetween, Zenon
    <2>4. ASSUME NEW k \in 2 .. n + 1
          PROVE  e[k] \in 128 .. 191
        <3>1. n + 1 - k \in 0 .. 5 /\ k # 1 /\ k \in 1 .. n + 1
            BY <2>2
        <3>2. Left(x, n + 1 - k) \in Nat
            BY <1>type, <3>1, LeftType, Zenon
        <3>3. \A y \in Nat : 128 + (y % 64) \in 128 .. 191
            OBVIOUS
        <3>4. e[k] = 128 + (Left(x, n + 1 - k) % 64)
            BY <3>1, Zenon DEF EscOf
        <3> QED
            BY <3>2, <3>3, <3>4, Zenon
    <2>5. e[1] \in 192 .. 253
        BY <2>2, <2>3 DEF EscOf
    <2>6. e \in Seq(Bytes) /\ Len(e) = n + 1
        <3>1. \A k \in 1 .. n + 1 : e[k] \in Bytes
            BY <2>2, <2>4, <2>5, SMT DEF Bytes
        <3>2. e = [k \in 1 .. n + 1 |-> e[k]]
            BY DEF EscOf
        <3> HIDE DEF e
        <3>3. n + 1 \in Nat
            BY <2>2
        <3> QED
            BY <3>1, <3>2, <3>3
    <2> HIDE DEF e
    <2>7. Len(e) \in 1 .. 6
        BY <2>2, <2>6
    <2>8. e[1] \div 64 # 2
        BY <2>5
    <2>9. ASSUME NEW k \in 2 .. Len(e)
          PROVE  e[k] \div 64 = 2
        <3>1. e[k] \in 128 .. 191
            BY <2>4, <2>6, <2>9
        <3>2. \A c \in 128 .. 191 : c \div 64 = 2
            OBVIOUS
        <3> QED
            BY <3>1, <3>2, Zenon
    <2> QED
        BY <2>2, <2>6, <2>7, <2>8, <2>9, Zenon DEF EscIs
<1> QED
    BY <1>type, <1>1, <1>2

\* No two encodings of different lengths stand at one place.
LEMMA WrittenUnique ==
    ASSUME NEW s \in Seq(Bytes), NEW i \in 0 .. Len(s) - 1,
           NEW k \in Written(s, i), NEW m \in Written(s, i)
    PROVE  k = m
<1>1. \A j \in Written(s, i) :
          \/ j = 1 /\ Byte(s, i) < 128
          \/ /\ j \in 2 .. 6 /\ j - 1 \in 1 .. 5
             /\ \E h \in 0 .. Room(j - 1) : Byte(s, i) = LeadOf(j - 1, h)
             /\ ~ Byte(s, i) < 128
    <2> SUFFICES ASSUME NEW j \in Written(s, i), Multibyte(s, i, j)
                 PROVE  /\ j \in 2 .. 6 /\ j - 1 \in 1 .. 5
                        /\ \E h \in 0 .. Room(j - 1) : Byte(s, i) = LeadOf(j - 1, h)
                        /\ ~ Byte(s, i) < 128
        BY WrittenIs, Zenon
    <2>1. j \in 2 .. 6
        BY Zenon DEF Multibyte
    <2>2. PICK h \in 0 .. Room(j - 1) : Byte(s, i) = LeadOf(j - 1, h)
        BY Zenon DEF Multibyte
    <2>3. j - 1 \in 1 .. 5
        BY <2>1
    <2>5. ~ Byte(s, i) < 128
        BY <2>2, <2>3, LeadBetween, Zenon
    <2> QED
        BY <2>1, <2>2, <2>3, <2>5
<1>2. CASE Byte(s, i) < 128
    BY <1>1, <1>2, Zenon
<1>3. CASE ~ Byte(s, i) < 128
    <2>1. k - 1 = m - 1
        BY <1>1, <1>3, LeadUnique, Zenon
    <2> QED
        BY <1>1, <1>3, <2>1
<1> QED
    BY <1>2, <1>3

StandsAt(s, i, e) == i + Len(e) <= Len(s) /\ \A m \in 1 .. Len(e) : Byte(s, i + m - 1) = e[m]

\* Where an encoded code point stands, its payload is the code point.
LEMMA WrittenBack ==
    ASSUME NEW s \in Seq(Bytes), NEW i \in 0 .. Len(s) - 1, NEW x \in Codes,
           StandsAt(s, i, Utf8esc(x))
    PROVE  LET k == Len(Utf8esc(x)) IN k \in Written(s, i) /\ Payload(s, i, k) = x
<1> DEFINE e == Utf8esc(x)
           k == Len(e)
<1>type. /\ x \in Nat /\ x <= MaxUTF /\ i \in Nat /\ e \in Seq(Bytes) /\ k \in 1 .. 6 /\ k \in Nat
         /\ i + k <= Len(s)
    <2>1. e \in Seq(Bytes) /\ k \in 1 .. 6
        BY EscType, Zenon DEF EscIs
    <2> QED
        BY <2>1 DEF Codes, StandsAt
<1>1. \A m \in 1 .. k : Byte(s, i + m - 1) = e[m]
    BY Zenon DEF StandsAt
<1>2. Payload(s, i, k) = x
    <2>1. CASE x < 128
        <3>1. e = <<x>>
            BY <2>1, Zenon DEF Utf8esc
        <3>2. k = 1 /\ e[1] = x /\ 1 \in 1 .. k /\ i + 1 - 1 = i
            BY <1>type, <3>1
        <3> QED
            BY <1>1, <3>2, Zenon DEF Payload
    <2>2. CASE x >= 128
        <3> DEFINE n == Continued(x)
                   v == Payload(s, i, n + 1)
                   h == Left(x, n)
        <3>1. Encoded(x, n)
            BY <1>type, <2>2, ContinuedExists, EncodesAs
        <3> HIDE DEF n
        <3>2. n \in 1 .. 5 /\ h \in 0 .. Room(n) /\ e = EscOf(x, n)
            BY <3>1 DEF Encoded
        <3>3. k = n + 1
            BY <3>2 DEF EscOf
        <3> HIDE DEF k, e, h
        <3>4. Byte(s, i) = LeadOf(n, h)
            <4>1. e[1] = LeadOf(n, h) /\ 1 \in 1 .. k /\ i + 1 - 1 = i
                BY <1>type, <3>2 DEF EscOf, h
            <4> QED
                BY <1>1, <4>1, Zenon
        <3>5. CharacterAt(s, i, n, h, v)
            <4>1. i + n < Len(s)
                BY <1>type, <3>2, <3>3
            <4> QED
                BY <1>type, <3>2, <3>4, <4>1, Characters, Zenon
        <3>6. v \in Nat /\ Left(v, n) = h /\ \A j \in 1 .. n : Left(v, n - j) % 64 = Low(s, i + j)
            BY <3>5, Zenon DEF CharacterAt, DigitsAre
        <3>7. ASSUME NEW j \in 1 .. n
              PROVE  Low(s, i + j) = Left(x, n - j) % 64
            <4>1. j + 1 \in 1 .. n + 1 /\ j + 1 # 1 /\ n + 1 - (j + 1) = n - j /\ i + (j + 1) - 1 = i + j
                  /\ n - j \in 0 .. 5
                BY <1>type, <3>2
            <4> DEFINE y == Left(x, n - j)
            <4>2. e[j + 1] = 128 + (y % 64)
                BY <3>2, <4>1, Zenon DEF EscOf
            <4>3. y \in Nat
                BY <1>type, <4>1, LeftType, Zenon
            <4> HIDE DEF y
            <4>4. (128 + (y % 64)) % 64 = y % 64
                BY <4>3
            <4>5. Byte(s, i + j) = e[j + 1]
                BY <1>1, <3>3, <4>1, Zenon
            <4> QED
                BY <4>2, <4>4, <4>5, Zenon DEF Low, y
        <3>8. ASSUME NEW m \in 0 .. n - 1
              PROVE  Left(v, m) % 64 = Left(x, m) % 64
            <4>1. n - m \in 1 .. n /\ n - (n - m) = m
                BY <3>2
            <4> QED
                BY <3>6, <3>7, <4>1, Zenon
        <3>9. v = x
            BY <1>type, <3>2, <3>6, <3>8, SameDigits, Zenon DEF h
        <3> QED
            BY <3>3, <3>9
    <2> QED
        BY <1>type, <2>1, <2>2
<1>3. e = [m \in 1 .. k |-> e[m]]
    BY <1>type
<1> HIDE DEF e, k
<1>4. SubSeq(s, i + 1, i + k) = e
    <2>1. SubSeq(s, i + 1, i + k) = [m \in 1 .. k |-> Byte(s, i + m - 1)]
        BY <1>type, Slice, Zenon
    <2> QED
        BY <1>1, <1>3, <2>1, Zenon
<1>5. k \in Written(s, i)
    BY <1>type, <1>2, <1>4, WrittenSize, Zenon DEF e
<1> QED
    BY <1>2, <1>5, Zenon DEF e, k

\* Decoding where an encoded code point stands.
DecodesTo(s, i, x, end) ==
    \A strict \in BOOLEAN :
        LET d == Utf8Decode(s, i, strict)
        IN /\ d.ok <=> (strict => Strictly(x))
           /\ d.ok => d.val = x /\ d.next = end

LEMMA DecodesBack ==
    ASSUME NEW s \in Seq(Bytes), NEW i \in 0 .. Len(s) - 1, NEW x \in Codes,
           StandsAt(s, i, Utf8esc(x))
    PROVE  DecodesTo(s, i, x, i + Len(Utf8esc(x)))
<1> DEFINE k == Len(Utf8esc(x))
<1>1. k \in Written(s, i) /\ Payload(s, i, k) = x
    BY WrittenBack, Zenon
<1> HIDE DEF k
<1> SUFFICES ASSUME NEW strict \in BOOLEAN
             PROVE  LET d == Utf8Decode(s, i, strict)
                    IN /\ d.ok <=> (strict => Strictly(x))
                       /\ d.ok => d.val = x /\ d.next = i + k
    BY Zenon DEF DecodesTo, k
<1> DEFINE d == Utf8Decode(s, i, strict)
<1>2. Decodes(s, i, strict, d)
    BY DecodesAlways, Zenon DEF DecodesWritten, Decodes, Valid
<1> HIDE DEF d
<1>3. \A m \in Written(s, i) : m = k
    BY <1>1, WrittenUnique, Zenon
<1>4. Valid(s, i, strict) = IF strict => Strictly(x) THEN {k} ELSE {}
    BY <1>1, <1>3 DEF Valid
<1> QED
    BY <1>1, <1>2, <1>4 DEF Decodes, d

-----------------------------------------------------------------------------
(* A text: the encodings of its code points, one after the other. *)

\* The texts that char builds up.
TextTurns(t, codes, n) ==
    [k \in 0 .. n |-> IF k = 0 THEN <<>> ELSE t[k - 1] \o Utf8esc(codes[k])]
TextOf(t, codes, n) == t \in [0 .. n -> Seq(Bytes)] /\ t = TextTurns(t, codes, n)

LEMMA CharIs ==
    ASSUME NEW codes \in Seq(Codes), NEW t, TextOf(t, codes, Len(codes))
    PROVE  Char(codes) = t[Len(codes)]
<1> DEFINE n == Len(codes)
           r == CHOOSE r : r = TextTurns(r, codes, n)
<1>0. n \in Nat
    OBVIOUS
<1> HIDE DEF n
<1>1. Char(codes) = r[n]
    BY Zenon DEF Char, TextTurns, n
<1>2. t = TextTurns(t, codes, n)
    BY Zenon DEF TextOf, n
<1>3. r = TextTurns(r, codes, n)
    BY <1>2, Zenon
<1> HIDE DEF r
<1>4. \A k \in 0 .. n : /\ t[k] = IF k = 0 THEN <<>> ELSE t[k - 1] \o Utf8esc(codes[k])
                        /\ r[k] = IF k = 0 THEN <<>> ELSE r[k - 1] \o Utf8esc(codes[k])
    BY <1>2, <1>3, Zenon DEF TextTurns
<1>5. \A k \in 0 .. n : Alike(r, t, k)
    <2>1. Alike(r, t, 0)
        <3>1. 0 \in 0 .. n
            BY <1>0
        <3> QED
            BY <1>4, <3>1, Zenon DEF Alike
    <2>2. ASSUME NEW k \in 1 .. n, Alike(r, t, k - 1)
          PROVE  Alike(r, t, k)
        <3>1. k \in 0 .. n /\ k # 0
            BY <1>0
        <3> QED
            BY <1>4, <2>2, <3>1, Zenon DEF Alike
    <2> QED
        BY <1>0, <2>1, <2>2, LoopsAlike, Zenon
<1>6. n \in 0 .. n
    BY <1>0
<1> QED
    BY <1>1, <1>5, <1>6, Zenon DEF Alike, n

LEMMA TextExists ==
    ASSUME NEW codes \in Seq(Codes)
    PROVE  \E t : TextOf(t, codes, Len(codes))
<1> DEFINE n == Len(codes)
           A == Seq(Bytes)
           step == [p \in (1 .. n) \X A |-> p[2] \o Utf8esc(codes[p[1]])]
<1>0. n \in Nat /\ \A k \in 1 .. n : codes[k] \in Codes
    OBVIOUS
<1> HIDE DEF n
<1>1. \A k \in 1 .. n : Utf8esc(codes[k]) \in A
    BY <1>0, EscType, Zenon DEF EscIs
<1>2. \A x, y \in A : x \o y \in A
    OBVIOUS
<1>3. <<>> \in A
    OBVIOUS
<1> HIDE DEF A
<1>4. \A p \in (1 .. n) \X A : p[1] \in 1 .. n /\ p[2] \in A
    OBVIOUS
<1>5. step \in [(1 .. n) \X A -> A]
    BY <1>1, <1>2, <1>4, Zenon
<1>6. \A k \in 1 .. n, x \in A : step[k, x] = x \o Utf8esc(codes[k])
    OBVIOUS
<1> HIDE DEF step
<1>7. PICK t : LoopOf(t, <<>>, step, n, A)
    BY <1>0, <1>3, <1>5, TurnsExist, Zenon
<1>8. t \in [0 .. n -> A] /\ t = Turning(t, <<>>, step, n)
    BY <1>7, Zenon DEF LoopOf
<1>9. \A k \in 0 .. n : t[k] = IF k = 0 THEN <<>> ELSE t[k - 1] \o Utf8esc(codes[k])
    <2> SUFFICES ASSUME NEW k \in 0 .. n
                 PROVE  t[k] = IF k = 0 THEN <<>> ELSE t[k - 1] \o Utf8esc(codes[k])
        OBVIOUS
    <2>1. t[k] = IF k = 0 THEN <<>> ELSE step[k, t[k - 1]]
        BY <1>8, Zenon DEF Turning
    <2>2. k # 0 => k \in 1 .. n /\ k - 1 \in 0 .. n
        BY <1>0
    <2>3. k # 0 => t[k - 1] \in A
        BY <1>8, <2>2, Zenon
    <2> QED
        BY <1>6, <2>1, <2>2, <2>3, Zenon
<1>10. t = [k \in 0 .. n |-> t[k]]
    BY <1>8, Zenon
<1>11. t = TextTurns(t, codes, n)
    BY <1>9, <1>10, Zenon DEF TextTurns
<1> QED
    BY <1>8, <1>11, Zenon DEF TextOf, n, A

LEMMA TextsSoFar ==
    ASSUME NEW codes \in Seq(Codes), NEW t, TextOf(t, codes, Len(codes)), NEW k \in 0 .. Len(codes)
    PROVE  Char(SubSeq(codes, 1, k)) = t[k]
<1> DEFINE u == [j \in 0 .. k |-> t[j]]
           c == SubSeq(codes, 1, k)
<1>1. c \in Seq(Codes) /\ Len(c) = k /\ \A j \in 1 .. k : c[j] = codes[j]
    OBVIOUS
<1> HIDE DEF c
<1>2. t \in [0 .. Len(codes) -> Seq(Bytes)] /\ t = TextTurns(t, codes, Len(codes))
    BY Zenon DEF TextOf
<1>3. \A j \in 0 .. k : j \in 0 .. Len(codes) /\ (j # 0 => j \in 1 .. k /\ j - 1 \in 0 .. k)
    OBVIOUS
<1>4. u \in [0 .. k -> Seq(Bytes)]
    BY <1>2, <1>3, Zenon
<1>5. \A j \in 0 .. k : u[j] = t[j]
    OBVIOUS
<1> HIDE DEF u
<1>6. \A j \in 0 .. k : u[j] = IF j = 0 THEN <<>> ELSE u[j - 1] \o Utf8esc(c[j])
    <2> SUFFICES ASSUME NEW j \in 0 .. k
                 PROVE  u[j] = IF j = 0 THEN <<>> ELSE u[j - 1] \o Utf8esc(c[j])
        OBVIOUS
    <2>1. t[j] = IF j = 0 THEN <<>> ELSE t[j - 1] \o Utf8esc(codes[j])
        BY <1>2, <1>3, Zenon DEF TextTurns
    <2> QED
        BY <1>1, <1>3, <1>5, <2>1, Zenon
<1>7. u = [j \in 0 .. k |-> u[j]]
    BY <1>4, Zenon
<1>8. u = TextTurns(u, c, k)
    BY <1>6, <1>7, Zenon DEF TextTurns
<1>9. TextOf(u, c, Len(c))
    BY <1>1, <1>4, <1>8, Zenon DEF TextOf
<1>10. Char(c) = u[k]
    BY <1>1, <1>9, CharIs, Zenon
<1>11. k \in 0 .. k
    OBVIOUS
<1> QED
    BY <1>5, <1>10, <1>11, Zenon DEF c

StartsWith(b, a) == Len(a) <= Len(b) /\ \A j \in 1 .. Len(a) : b[j] = a[j]

LEMMA Extended ==
    ASSUME NEW a \in Seq(Bytes), NEW e \in Seq(Bytes)
    PROVE  /\ Len(a \o e) = Len(a) + Len(e) /\ StartsWith(a \o e, a)
           /\ \A m \in 1 .. Len(e) : (a \o e)[Len(a) + m] = e[m]
BY DEF StartsWith

LEMMA StartsFurther ==
    ASSUME NEW a \in Seq(Bytes), NEW b \in Seq(Bytes), NEW c \in Seq(Bytes),
           StartsWith(b, a), StartsWith(c, b)
    PROVE  StartsWith(c, a)
<1>1. Len(a) <= Len(b) /\ Len(b) <= Len(c) /\ \A j \in 1 .. Len(a) : j \in 1 .. Len(b)
    BY DEF StartsWith
<1> QED
    BY <1>1 DEF StartsWith

LEMMA TextGrows ==
    ASSUME NEW n \in Nat, NEW codes, \A k \in 1 .. n : codes[k] \in Codes,
           NEW t, TextOf(t, codes, n), NEW k \in 0 .. n
    PROVE  StartsWith(t[n], t[k])
<1> DEFINE S == {m \in Nat : m <= n - k => StartsWith(t[n], t[n - m])}
<1>type. t \in [0 .. n -> Seq(Bytes)]
    BY DEF TextOf
<1>1. 0 \in S
    <2>1. t[n] \in Seq(Bytes) /\ n - 0 = n
        BY <1>type
    <2> QED
        BY <2>1 DEF StartsWith
<1>2. ASSUME NEW m \in S
      PROVE  m + 1 \in S
    <2> SUFFICES ASSUME m + 1 <= n - k PROVE StartsWith(t[n], t[n - (m + 1)])
        OBVIOUS
    <2> DEFINE j == n - m
    <2>1. j \in 1 .. n /\ j \in 0 .. n /\ j - 1 \in 0 .. n /\ j # 0 /\ n - (m + 1) = j - 1
          /\ StartsWith(t[n], t[j]) /\ n \in 0 .. n
        OBVIOUS
    <2> HIDE DEF j
    <2>2. t[j] = t[j - 1] \o Utf8esc(codes[j])
        BY <2>1, Zenon DEF TextOf, TextTurns
    <2>3. t[j - 1] \in Seq(Bytes) /\ t[j] \in Seq(Bytes) /\ t[n] \in Seq(Bytes)
          /\ Utf8esc(codes[j]) \in Seq(Bytes)
        BY <1>type, <2>1, EscType, Zenon DEF EscIs
    <2>4. StartsWith(t[j], t[j - 1])
        BY <2>2, <2>3, Extended, Zenon
    <2>5. StartsWith(t[n], t[j - 1])
        BY <2>1, <2>3, <2>4, StartsFurther, Zenon
    <2> QED
        BY <2>1, <2>5
<1> HIDE DEF S
<1>3. \A m \in Nat : m \in S
    BY <1>1, <1>2, SetInduction DEF S
<1>4. n - k \in S /\ n - (n - k) = k /\ n - k <= n - k
    BY <1>3
<1> QED
    BY <1>4 DEF S

\* A text of characters: where each ends, and what it decodes to.
CharacterStands(P, s, codes, k) ==
    /\ P[k - 1] < P[k] /\ P[k] <= Len(s)
    /\ ~ IsCont(s, P[k - 1])
    /\ \A q \in P[k - 1] + 1 .. P[k] - 1 : IsCont(s, q)
    /\ DecodesTo(s, P[k - 1], codes[k], P[k])
Laid(P, s, codes, n) ==
    /\ n \in Nat /\ P \in [0 .. n -> Nat] /\ P[0] = 0 /\ P[n] = Len(s)
    /\ \A k \in 1 .. n : CharacterStands(P, s, codes, k)

LEMMA OneStands ==
    ASSUME NEW n \in Nat, NEW codes, \A k \in 1 .. n : codes[k] \in Codes,
           NEW t, TextOf(t, codes, n), NEW k \in 1 .. n
    PROVE  CharacterStands([j \in 0 .. n |-> Len(t[j])], t[n], codes, k)
<1> DEFINE P == [j \in 0 .. n |-> Len(t[j])]
           s == t[n]
           e == Utf8esc(codes[k])
           i == P[k - 1]
<1>type. t \in [0 .. n -> Seq(Bytes)]
    BY DEF TextOf
<1>1. k \in 0 .. n /\ k - 1 \in 0 .. n /\ k # 0 /\ n \in 0 .. n
    OBVIOUS
<1>2. t[k - 1] \in Seq(Bytes) /\ t[k] \in Seq(Bytes) /\ s \in Seq(Bytes)
    BY <1>type, <1>1, Zenon
<1>3. i = Len(t[k - 1]) /\ P[k] = Len(t[k])
    BY <1>1, Zenon
<1>4. t[k] = t[k - 1] \o e
    BY <1>1, Zenon DEF TextOf, TextTurns
<1>5. EscIs(e, codes[k]) /\ codes[k] \in Codes
    BY EscType, Zenon
<1>6. StartsWith(s, t[k])
    BY <1>1, TextGrows, Zenon
<1> HIDE DEF s, P, i, e
<1>7. e \in Seq(Bytes) /\ Len(e) \in 1 .. 6 /\ e[1] \div 64 # 2 /\ \A m \in 2 .. Len(e) : e[m] \div 64 = 2
    BY <1>5 DEF EscIs
<1>8. /\ P[k] = i + Len(e) /\ i \in Nat /\ P[k] \in Nat /\ P[k] <= Len(s)
      /\ Len(e) \in Nat /\ Len(s) \in Nat
    <2>1. Len(t[k - 1] \o e) = Len(t[k - 1]) + Len(e)
        BY <1>2, <1>7, Extended, Zenon
    <2> QED
        BY <1>2, <1>3, <1>4, <1>6, <1>7, <2>1 DEF StartsWith
<1>9. ASSUME NEW m \in 1 .. Len(e)
      PROVE  Byte(s, i + m - 1) = e[m] /\ i + m - 1 < Len(s)
    <2>1. i + m \in 1 .. Len(t[k]) /\ (i + m - 1) + 1 = i + m /\ i + m - 1 < Len(s)
        BY <1>3, <1>8
    <2>2. t[k][i + m] = e[m]
        <3>1. (t[k - 1] \o e)[Len(t[k - 1]) + m] = e[m]
            BY <1>2, <1>7, Extended, Zenon
        <3> QED
            BY <1>3, <1>4, <3>1
    <2>3. s[i + m] = t[k][i + m]
        BY <1>6, <2>1, Zenon DEF StartsWith
    <2> QED
        BY <2>1, <2>2, <2>3, Zenon DEF Byte
<1>10. StandsAt(s, i, e)
    BY <1>8, <1>9, Zenon DEF StandsAt
<1>11. i \in 0 .. Len(s) - 1 /\ i < P[k]
    BY <1>7, <1>8
<1>12. DecodesTo(s, i, codes[k], P[k])
    BY <1>2, <1>5, <1>8, <1>10, <1>11, DecodesBack, Zenon DEF e
<1>13. ~ IsCont(s, i)
    <2>1. 1 \in 1 .. Len(e) /\ i + 1 - 1 = i
        BY <1>7, <1>8
    <2> QED
        BY <1>7, <1>9, <2>1, Zenon DEF IsCont
<1>14. ASSUME NEW q \in i + 1 .. P[k] - 1
       PROVE  IsCont(s, q)
    <2> DEFINE m == q - i + 1
    <2>1. m \in 1 .. Len(e) /\ m \in 2 .. Len(e) /\ i + m - 1 = q
        BY <1>8
    <2> HIDE DEF m
    <2> QED
        BY <1>7, <1>9, <2>1, Zenon DEF IsCont
<1> QED
    BY <1>8, <1>11, <1>12, <1>13, <1>14, Zenon DEF CharacterStands, P, s, i

\* Char lays its code points out one after the other.
LEMMA CharLaid ==
    ASSUME NEW codes \in Seq(Codes)
    PROVE  \E P : /\ Laid(P, Char(codes), codes, Len(codes))
                  /\ \A k \in 1 .. Len(codes) + 1 : StartOf(codes, k) = P[k - 1] + 1
<1> DEFINE n == Len(codes)
<1>1. PICK t : TextOf(t, codes, n)
    BY TextExists
<1> DEFINE P == [j \in 0 .. n |-> Len(t[j])]
<1>2. n \in Nat /\ n \in 0 .. n /\ \A k \in 1 .. n : codes[k] \in Codes
    OBVIOUS
<1>3. t \in [0 .. n -> Seq(Bytes)] /\ t = TextTurns(t, codes, n)
    BY <1>1 DEF TextOf
<1>4. Char(codes) = t[n]
    BY <1>1, CharIs, Zenon
<1>5. \A k \in 0 .. n : Char(SubSeq(codes, 1, k)) = t[k]
    BY <1>1, TextsSoFar, Zenon
<1> HIDE DEF n
<1>6. \A k \in 1 .. n : CharacterStands(P, t[n], codes, k)
    BY <1>1, <1>2, OneStands, Zenon
<1>7. \A k \in 0 .. n : P[k] = Len(t[k]) /\ t[k] \in Seq(Bytes)
    BY <1>3, Zenon
<1>8. P \in [0 .. n -> Nat]
    <2>1. \A x \in Seq(Bytes) : Len(x) \in Nat
        OBVIOUS
    <2> QED
        BY <1>7, <2>1, Zenon
<1>9. P[0] = 0
    <2>1. 0 \in 0 .. n
        BY <1>2
    <2>2. t[0] = <<>>
        BY <1>3, <2>1, Zenon DEF TextTurns
    <2>3. Len(<<>>) = 0
        OBVIOUS
    <2> QED
        BY <1>7, <2>1, <2>2, <2>3, Zenon
<1>10. \A k \in 1 .. n + 1 : k - 1 \in 0 .. n
    BY <1>2
<1> HIDE DEF P
<1>11. \A k \in 1 .. n + 1 : StartOf(codes, k) = P[k - 1] + 1
    BY <1>5, <1>7, <1>10, Zenon DEF StartOf
<1>12. Laid(P, Char(codes), codes, n)
    BY <1>2, <1>4, <1>6, <1>7, <1>8, <1>9, Zenon DEF Laid
<1> QED
    BY <1>11, <1>12 DEF n

-----------------------------------------------------------------------------
(* Where the characters of a text are. *)

LEMMA LaidIs ==
    ASSUME NEW s \in Seq(Bytes), NEW codes, NEW n, NEW P, Laid(P, s, codes, n), NEW k \in 1 .. n
    PROVE  /\ n \in Nat /\ Len(s) \in Nat /\ k \in 0 .. n /\ k - 1 \in 0 .. n
           /\ P[k] \in Nat /\ P[k - 1] \in Nat
           /\ P[k - 1] < P[k] /\ P[k] <= Len(s)
<1>1. n \in Nat /\ k \in 0 .. n /\ k - 1 \in 0 .. n
    BY DEF Laid
<1>2. P[k] \in Nat /\ P[k - 1] \in Nat
    BY <1>1 DEF Laid
<1> QED
    BY <1>1, <1>2 DEF Laid, CharacterStands

\* The characters of a text end in their order, and take a byte at least.
LEMMA LaidInOrder ==
    ASSUME NEW s \in Seq(Bytes), NEW codes, NEW n, NEW P, Laid(P, s, codes, n),
           NEW a \in 0 .. n, NEW b \in 0 .. n, a <= b
    PROVE  P[b] - P[a] >= b - a
<1>1. n \in Nat /\ P \in [0 .. n -> Nat]
    BY DEF Laid
<1> DEFINE S == {m \in Nat : a + m <= n => P[a + m] - P[a] >= m}
<1>2. 0 \in S
    BY <1>1
<1>3. ASSUME NEW m \in S
      PROVE  m + 1 \in S
    <2> SUFFICES ASSUME a + (m + 1) <= n PROVE P[a + (m + 1)] - P[a] >= m + 1
        BY <1>1
    <2> DEFINE k == a + (m + 1)
    <2>1. k \in 1 .. n /\ a + m = k - 1 /\ a + m <= n
        BY <1>1
    <2>2. P[k - 1] - P[a] >= m
        BY <2>1
    <2> HIDE DEF k
    <2>3. P[k] \in Nat /\ P[k - 1] \in Nat /\ P[k - 1] < P[k]
        BY <2>1, LaidIs, Zenon
    <2>4. P[a] \in Nat
        BY <1>1
    <2>5. P[k] - P[a] >= m + 1
        BY <2>2, <2>3, <2>4
    <2> QED
        BY <2>5 DEF k
<1> HIDE DEF S
<1>4. \A m \in Nat : m \in S
    BY <1>2, <1>3, SetInduction DEF S
<1>5. b - a \in S /\ a + (b - a) = b /\ b <= n
    BY <1>1, <1>4
<1> QED
    BY <1>5 DEF S

LEMMA LaidLength ==
    ASSUME NEW s \in Seq(Bytes), NEW codes, NEW n, NEW P, Laid(P, s, codes, n)
    PROVE  n <= Len(s) /\ \A k \in 0 .. n : P[k] \in 0 .. Len(s) /\ (k # n => P[k] < Len(s))
<1>1. n \in Nat /\ P \in [0 .. n -> Nat] /\ P[0] = 0 /\ P[n] = Len(s) /\ Len(s) \in Nat
    BY DEF Laid
<1>2. 0 \in 0 .. n /\ n \in 0 .. n /\ 0 <= n
    BY <1>1
<1>3. P[n] - P[0] >= n - 0
    BY <1>2, LaidInOrder, Zenon
<1>4. ASSUME NEW k \in 0 .. n
      PROVE  P[k] \in 0 .. Len(s) /\ (k # n => P[k] < Len(s))
    <2>1. k <= n
        BY <1>1
    <2>2. P[n] - P[k] >= n - k
        BY <1>2, <2>1, LaidInOrder, Zenon
    <2>3. P[k] \in Nat
        BY <1>1
    <2> QED
        BY <1>1, <2>1, <2>2, <2>3
<1> QED
    BY <1>1, <1>3, <1>4

\* No byte after the end.
LEMMA NoneStands ==
    ASSUME NEW s, Len(s) \in Nat
    PROVE  ~ IsCont(s, Len(s))
BY DEF IsCont

LEMMA StartOfNext ==
    ASSUME NEW s \in Seq(Bytes), NEW codes, NEW n, NEW P, Laid(P, s, codes, n), NEW k \in 0 .. n
    PROVE  ~ IsCont(s, P[k])
<1>1. n \in Nat /\ P[n] = Len(s) /\ Len(s) \in Nat
    BY DEF Laid
<1>2. CASE k = n
    BY <1>1, <1>2, NoneStands
<1>3. CASE k # n
    <2>1. k + 1 \in 1 .. n /\ (k + 1) - 1 = k
        BY <1>1, <1>3
    <2>2. ~ IsCont(s, P[(k + 1) - 1])
        BY <2>1, Zenon DEF Laid, CharacterStands
    <2> QED
        BY <2>1, <2>2
<1> QED
    BY <1>2, <1>3

\* From within a character, its end and its start are found.
LEMMA FindsEnd ==
    ASSUME NEW s \in Seq(Bytes), NEW codes, NEW n, NEW P, Laid(P, s, codes, n), NEW k \in 1 .. n
    PROVE  SkipForward(s, P[k - 1] + 1) = P[k]
<1> DEFINE pos == P[k - 1] + 1
           Ends(p) == ~ IsCont(s, p) /\ \A q \in pos .. p - 1 : IsCont(s, q)
<1>1. /\ P[k] \in Nat /\ P[k - 1] \in Nat /\ P[k - 1] < P[k] /\ P[k] <= Len(s) /\ Len(s) \in Nat
      /\ k \in 0 .. n
    BY LaidIs
<1>2. Ends(P[k])
    <2>1. ~ IsCont(s, P[k])
        BY <1>1, StartOfNext, Zenon
    <2>2. \A q \in P[k - 1] + 1 .. P[k] - 1 : IsCont(s, q)
        BY Zenon DEF Laid, CharacterStands
    <2> QED
        BY <2>1, <2>2
<1>3. P[k] \in pos .. Len(s) /\ pos \in Nat
    BY <1>1
<1>4. ASSUME NEW p \in pos .. Len(s), Ends(p)
      PROVE  p = P[k]
    <2>1. p \in Nat /\ (p < P[k] => p \in pos .. P[k] - 1) /\ (p > P[k] => P[k] \in pos .. p - 1)
        BY <1>1, <1>3
    <2> QED
        BY <1>1, <1>2, <1>4, <2>1
<1>5. SkipForward(s, pos) = CHOOSE p \in pos .. Len(s) : Ends(p)
    BY Zenon DEF SkipForward
<1> HIDE DEF pos, Ends
<1>6. SkipForward(s, pos) = P[k]
    BY <1>2, <1>3, <1>4, <1>5, Zenon
<1> QED
    BY <1>6 DEF pos

LEMMA FindsStart ==
    ASSUME NEW s \in Seq(Bytes), NEW codes, NEW n, NEW P, Laid(P, s, codes, n), NEW k \in 1 .. n,
           NEW pos \in P[k - 1] .. P[k] - 1
    PROVE  SkipBack(s, pos) = P[k - 1]
<1> DEFINE i == P[k - 1]
           Starts(p) == (p = 0 \/ ~ IsCont(s, p)) /\ \A q \in p + 1 .. pos : IsCont(s, q)
<1>1. /\ P[k] \in Nat /\ i \in Nat /\ i < P[k] /\ P[k] <= Len(s) /\ Len(s) \in Nat
      /\ k - 1 \in 0 .. n
    BY LaidIs
<1>2. ~ IsCont(s, i) /\ \A q \in i + 1 .. P[k] - 1 : IsCont(s, q)
    BY Zenon DEF Laid, CharacterStands
<1>type. pos \in Nat /\ i <= pos
    BY <1>1
<1>3. Starts(i)
    BY <1>1, <1>2, <1>type
<1>4. i \in 0 .. pos
    BY <1>1, <1>type
<1>5. ASSUME NEW p \in 0 .. pos, Starts(p)
      PROVE  p = i
    <2>1. p \in Nat /\ (p < i => i \in p + 1 .. pos) /\ (p > i => p \in i + 1 .. P[k] - 1 /\ p # 0)
        BY <1>1, <1>type
    <2> QED
        BY <1>1, <1>2, <1>5, <2>1
<1>6. SkipBack(s, pos) = CHOOSE p \in 0 .. pos : Starts(p)
    BY Zenon DEF SkipBack
<1> HIDE DEF Starts, i
<1>7. SkipBack(s, pos) = i
    BY <1>3, <1>4, <1>5, <1>6, Zenon
<1> QED
    BY <1>7 DEF i

\* Steps over whole characters: after the last one there is none.
ForwardTurns(at, s, m, pos) ==
    [k \in 0 .. m |->
        IF k = 0 THEN pos
        ELSE IF at[k - 1] \in 0 .. Len(s) - 1 THEN SkipForward(s, at[k - 1] + 1) ELSE -1]
BackTurns(at, s, m, pos) ==
    [k \in 0 .. m |->
        IF k = 0 THEN pos ELSE IF at[k - 1] > 0 THEN SkipBack(s, at[k - 1] - 1) ELSE -1]

LEMMA GoesForward ==
    ASSUME NEW s \in Seq(Bytes), NEW codes, NEW n, NEW P, Laid(P, s, codes, n), NEW m \in 0 .. n + 1
    PROVE  Forward(s, m, 0) = IF m <= n THEN P[m] + 1 ELSE 0
<1> DEFINE g == [k \in 0 .. m |-> IF k <= n THEN P[k] ELSE -1]
           r == CHOOSE r : r = ForwardTurns(r, s, m, 0)
<1>type. n \in Nat /\ m \in Nat /\ Len(s) \in Nat /\ P[0] = 0 /\ P[n] = Len(s)
    BY DEF Laid
<1>steps. \A k \in 1 .. n : SkipForward(s, P[k - 1] + 1) = P[k]
    BY FindsEnd
<1>within. \A k \in 0 .. n : P[k] \in 0 .. Len(s) /\ (k # n => P[k] < Len(s))
    BY LaidLength
<1>1. ASSUME NEW k \in 0 .. m
      PROVE  g[k] = IF k = 0 THEN 0
                    ELSE IF g[k - 1] \in 0 .. Len(s) - 1 THEN SkipForward(s, g[k - 1] + 1) ELSE -1
    <2>0. g[k] = IF k <= n THEN P[k] ELSE -1
        OBVIOUS
    <2>1. CASE k = 0
        BY <1>type, <2>0, <2>1
    <2>2. CASE k # 0 /\ k <= n
        <3>1. k \in 1 .. n /\ k - 1 \in 0 .. m /\ k - 1 <= n /\ k - 1 \in 0 .. n /\ k - 1 # n
            BY <1>type, <2>2
        <3>2. g[k - 1] = P[k - 1]
            BY <3>1
        <3>3. P[k - 1] \in 0 .. Len(s) - 1
            <4>1. P[k - 1] \in 0 .. Len(s) /\ P[k - 1] < Len(s)
                BY <1>within, <3>1, Zenon
            <4> QED
                BY <1>type, <4>1
        <3>4. SkipForward(s, P[k - 1] + 1) = P[k]
            BY <1>steps, <3>1, Zenon
        <3> HIDE DEF g
        <3> QED
            BY <2>0, <2>2, <3>2, <3>3, <3>4, Zenon
    <2>3. CASE k # 0 /\ ~ k <= n
        <3>1. k - 1 = n /\ k - 1 \in 0 .. m /\ k - 1 <= n
            BY <1>type, <2>3
        <3>2. g[k - 1] = Len(s)
            BY <1>type, <3>1
        <3>3. Len(s) \notin 0 .. Len(s) - 1
            BY <1>type
        <3> HIDE DEF g
        <3> QED
            BY <2>0, <2>3, <3>2, <3>3, Zenon
    <2> HIDE DEF g
    <2> QED
        BY <2>1, <2>2, <2>3, Zenon
<1>2. g = [k \in 0 .. m |-> g[k]]
    OBVIOUS
<1>3. g[m] = IF m <= n THEN P[m] ELSE -1
    BY <1>type
<1> HIDE DEF g
<1>4. g = ForwardTurns(g, s, m, 0)
    BY <1>1, <1>2, Zenon DEF ForwardTurns
<1>5. r = ForwardTurns(r, s, m, 0)
    BY <1>4, Zenon
<1>6. Forward(s, m, 0) = r[m] + 1
    BY Zenon DEF Forward, ForwardTurns
<1> HIDE DEF r
<1>7. \A k \in 0 .. m :
          r[k] = IF k = 0 THEN 0
                 ELSE IF r[k - 1] \in 0 .. Len(s) - 1 THEN SkipForward(s, r[k - 1] + 1) ELSE -1
    BY <1>5, Zenon DEF ForwardTurns
<1>8. \A k \in 0 .. m : Alike(r, g, k)
    <2>1. 0 \in 0 .. m /\ \A k \in 1 .. m : k \in 0 .. m /\ k # 0
        BY <1>type
    <2>2. Alike(r, g, 0)
        BY <1>1, <1>7, <2>1, Zenon DEF Alike
    <2>3. \A k \in 1 .. m : Alike(r, g, k - 1) => Alike(r, g, k)
        BY <1>1, <1>7, <2>1, Zenon DEF Alike
    <2> QED
        BY <1>type, <2>2, <2>3, LoopsAlike, Zenon
<1>9. r[m] = g[m]
    <2>1. m \in 0 .. m
        BY <1>type
    <2> QED
        BY <1>8, <2>1, Zenon DEF Alike
<1>10. m <= n => P[m] \in Nat
    BY <1>type DEF Laid
<1> QED
    BY <1>3, <1>6, <1>9, <1>10

LEMMA GoesBack ==
    ASSUME NEW s \in Seq(Bytes), NEW codes, NEW n, NEW P, Laid(P, s, codes, n), NEW m \in 0 .. n + 1
    PROVE  Back(s, m, Len(s)) = IF m <= n THEN P[n - m] + 1 ELSE 0
<1> DEFINE g == [k \in 0 .. m |-> IF k <= n THEN P[n - k] ELSE -1]
           r == CHOOSE r : r = BackTurns(r, s, m, Len(s))
<1>type. n \in Nat /\ m \in Nat /\ Len(s) \in Nat /\ P[0] = 0 /\ P[n] = Len(s)
    BY DEF Laid
<1>steps. \A j \in 1 .. n : \A pos \in P[j - 1] .. P[j] - 1 : SkipBack(s, pos) = P[j - 1]
    BY FindsStart
<1>1. ASSUME NEW k \in 0 .. m
      PROVE  g[k] = IF k = 0 THEN Len(s)
                    ELSE IF g[k - 1] > 0 THEN SkipBack(s, g[k - 1] - 1) ELSE -1
    <2>0. g[k] = IF k <= n THEN P[n - k] ELSE -1
        OBVIOUS
    <2>1. CASE k = 0
        <3>1. n - 0 = n /\ 0 <= n
            BY <1>type
        <3> QED
            BY <1>type, <2>0, <2>1, <3>1
    <2>2. CASE k # 0 /\ k <= n
        <3> DEFINE j == n - (k - 1)
        <3>1. j \in 1 .. n /\ k - 1 \in 0 .. m /\ k - 1 <= n /\ j - 1 = n - k
            BY <1>type, <2>2
        <3>2. g[k - 1] = P[j]
            BY <3>1
        <3> HIDE DEF g, j
        <3>3. P[j] \in Nat /\ P[j - 1] \in Nat /\ P[j - 1] < P[j]
            BY <3>1, LaidIs, Zenon
        <3>4. P[j] > 0 /\ P[j] - 1 \in P[j - 1] .. P[j] - 1
            BY <3>3
        <3>5. SkipBack(s, P[j] - 1) = P[j - 1]
            BY <1>steps, <3>1, <3>4, Zenon
        <3> QED
            BY <2>0, <2>2, <3>1, <3>2, <3>4, <3>5, Zenon
    <2>3. CASE k # 0 /\ ~ k <= n
        <3>1. k - 1 = n /\ k - 1 \in 0 .. m /\ k - 1 <= n /\ n - (k - 1) = 0
            BY <1>type, <2>3
        <3>2. g[k - 1] = P[n - (k - 1)]
            BY <3>1
        <3>3. g[k - 1] = 0 /\ ~ 0 > 0
            BY <1>type, <3>1, <3>2
        <3> HIDE DEF g
        <3> QED
            BY <2>0, <2>3, <3>3, Zenon
    <2> HIDE DEF g
    <2> QED
        BY <2>1, <2>2, <2>3, Zenon
<1>2. g = [k \in 0 .. m |-> g[k]]
    OBVIOUS
<1>3. g[m] = IF m <= n THEN P[n - m] ELSE -1
    BY <1>type
<1> HIDE DEF g
<1>4. g = BackTurns(g, s, m, Len(s))
    BY <1>1, <1>2, Zenon DEF BackTurns
<1>5. r = BackTurns(r, s, m, Len(s))
    BY <1>4, Zenon
<1>6. Back(s, m, Len(s)) = r[m] + 1
    BY Zenon DEF Back, BackTurns
<1> HIDE DEF r
<1>7. \A k \in 0 .. m :
          r[k] = IF k = 0 THEN Len(s)
                 ELSE IF r[k - 1] > 0 THEN SkipBack(s, r[k - 1] - 1) ELSE -1
    BY <1>5, Zenon DEF BackTurns
<1>8. \A k \in 0 .. m : Alike(r, g, k)
    <2>1. 0 \in 0 .. m /\ \A k \in 1 .. m : k \in 0 .. m /\ k # 0
        BY <1>type
    <2>2. Alike(r, g, 0)
        BY <1>1, <1>7, <2>1, Zenon DEF Alike
    <2>3. \A k \in 1 .. m : Alike(r, g, k - 1) => Alike(r, g, k)
        BY <1>1, <1>7, <2>1, Zenon DEF Alike
    <2> QED
        BY <1>type, <2>2, <2>3, LoopsAlike, Zenon
<1>9. r[m] = g[m]
    <2>1. m \in 0 .. m
        BY <1>type
    <2> QED
        BY <1>8, <2>1, Zenon DEF Alike
<1>10. m <= n => P[n - m] \in Nat
    <2>1. m <= n => n - m \in 0 .. n
        BY <1>type
    <2> QED
        BY <2>1 DEF Laid
<1> QED
    BY <1>3, <1>6, <1>9, <1>10

-----------------------------------------------------------------------------
(* codepoint, len and codes. *)

\* The state of codepoint and len after k characters, and at a bad one.
Taken(P, codes, k) == [at |-> P[k], bad |-> 0, codes |-> SubSeq(codes, 1, k)]
Rejected(P, codes, k) == [at |-> P[k], bad |-> P[k] + 1, codes |-> SubSeq(codes, 1, k)]
Accepted(codes, k, strict) == strict => Strictly(codes[k])

LEMMA NextCode ==
    ASSUME NEW s \in Seq(Bytes), NEW codes \in Seq(Codes), NEW P, Laid(P, s, codes, Len(codes)),
           NEW strict \in BOOLEAN, NEW k \in 1 .. Len(codes)
    PROVE  OneCode(s, Len(s), strict, Taken(P, codes, k - 1)) =
               IF Accepted(codes, k, strict) THEN Taken(P, codes, k) ELSE Rejected(P, codes, k - 1)
<1> DEFINE r == Taken(P, codes, k - 1)
           d == Utf8Decode(s, P[k - 1], strict)
<1>1. /\ P[k] \in Nat /\ P[k - 1] \in Nat /\ P[k - 1] < P[k] /\ P[k] <= Len(s) /\ Len(s) \in Nat
    BY LaidIs
<1>2. /\ d.ok <=> Accepted(codes, k, strict)
      /\ d.ok => d.val = codes[k] /\ d.next = P[k]
    BY Zenon DEF Laid, CharacterStands, DecodesTo, Accepted
<1>3. r.at = P[k - 1] /\ r.bad = 0 /\ r.codes = SubSeq(codes, 1, k - 1)
    BY DEF Taken
<1>4. ~ (r.at >= Len(s) \/ r.bad > 0)
    BY <1>1, <1>3
<1>5. SubSeq(codes, 1, k) = Append(SubSeq(codes, 1, k - 1), codes[k])
    OBVIOUS
<1> HIDE DEF r
<1>6. OneCode(s, Len(s), strict, r) =
          IF d.ok THEN [at |-> d.next, bad |-> 0, codes |-> Append(r.codes, d.val)]
          ELSE [at |-> r.at, bad |-> r.at + 1, codes |-> r.codes]
    BY <1>3, <1>4, Zenon DEF OneCode
<1> HIDE DEF d
<1>7. OneCode(s, Len(s), strict, r) =
          IF d.ok THEN Taken(P, codes, k) ELSE Rejected(P, codes, k - 1)
    BY <1>2, <1>3, <1>5, <1>6, Zenon DEF Taken, Rejected
<1> QED
    BY <1>2, <1>7, Zenon DEF r

LEMMA NoMoreCodes ==
    ASSUME NEW s, NEW strict, NEW r, NEW j, r.at >= j \/ r.bad > 0
    PROVE  OneCode(s, j, strict, r) = r
BY Zenon DEF OneCode

CodeTurns(turn, s, pos, j, strict) ==
    [k \in 0 .. Len(s) |->
        IF k = 0 THEN [at |-> pos, bad |-> 0, codes |-> <<>>]
        ELSE OneCode(s, j, strict, turn[k - 1])]

\* The first code point that is not accepted, if there is one, ends the loop.
LEMMA CodesRead ==
    ASSUME NEW s \in Seq(Bytes), NEW codes \in Seq(Codes), NEW P, Laid(P, s, codes, Len(codes)),
           NEW strict \in BOOLEAN, NEW last \in 0 .. Len(codes),
           \A k \in 1 .. last : Accepted(codes, k, strict),
           last # Len(codes) => ~ Accepted(codes, last + 1, strict)
    PROVE  CodesFrom(s, 0, Len(s), strict) =
               IF last = Len(codes) THEN Taken(P, codes, last) ELSE Rejected(P, codes, last)
<1> DEFINE n == Len(codes)
           ended == IF last = n THEN Taken(P, codes, last) ELSE Rejected(P, codes, last)
           g == [k \in 0 .. Len(s) |-> IF k <= last THEN Taken(P, codes, k) ELSE ended]
           r == CHOOSE r : r = CodeTurns(r, s, 0, Len(s), strict)
<1>type. /\ n \in Nat /\ last \in Nat /\ Len(s) \in Nat /\ P[0] = 0 /\ P[n] = Len(s)
         /\ P \in [0 .. n -> Nat] /\ n <= Len(s) /\ last <= n
    BY LaidLength DEF Laid
<1>steps. \A k \in 1 .. n : OneCode(s, Len(s), strict, Taken(P, codes, k - 1)) =
               IF Accepted(codes, k, strict) THEN Taken(P, codes, k) ELSE Rejected(P, codes, k - 1)
    BY NextCode
<1>stays. ended.at >= Len(s) \/ ended.bad > 0
    <2>1. CASE last = n
        <3>1. ended.at = Len(s)
            BY <1>type, <2>1 DEF Taken
        <3> QED
            BY <1>type, <3>1
    <2>2. CASE last # n
        <3>1. ended.bad = P[last] + 1
            BY <2>2 DEF Rejected
        <3>2. P[last] \in Nat
            BY <1>type
        <3> QED
            BY <3>1, <3>2
    <2> QED
        BY <2>1, <2>2
<1>again. OneCode(s, Len(s), strict, ended) = ended
    BY <1>stays, NoMoreCodes, Zenon
<1>start. Taken(P, codes, 0) = [at |-> 0, bad |-> 0, codes |-> <<>>]
    BY <1>type DEF Taken
<1>last. last = n => ended = Taken(P, codes, last)
    OBVIOUS
<1>bad. last # n => ended = Rejected(P, codes, last)
    OBVIOUS
<1> HIDE DEF ended, n
<1>1. ASSUME NEW k \in 0 .. Len(s)
      PROVE  g[k] = IF k = 0 THEN [at |-> 0, bad |-> 0, codes |-> <<>>]
                    ELSE OneCode(s, Len(s), strict, g[k - 1])
    <2>0. g[k] = IF k <= last THEN Taken(P, codes, k) ELSE ended
        OBVIOUS
    <2>1. CASE k = 0
        <3>1. 0 <= last
            BY <1>type
        <3> QED
            BY <1>start, <2>0, <2>1, <3>1
    <2>2. CASE k # 0 /\ k <= last
        <3>1. k \in 1 .. n /\ k \in 1 .. last /\ k - 1 \in 0 .. Len(s) /\ k - 1 <= last
            BY <1>type, <2>2
        <3>2. g[k - 1] = Taken(P, codes, k - 1)
            BY <3>1
        <3> HIDE DEF g
        <3>3. OneCode(s, Len(s), strict, g[k - 1]) = Taken(P, codes, k)
            BY <1>steps, <3>1, <3>2, Zenon
        <3> QED
            BY <2>0, <2>2, <3>3, Zenon
    <2>3. CASE k = last + 1
        <3>1. k # 0 /\ ~ k <= last /\ k - 1 = last /\ last \in 0 .. Len(s) /\ last <= last
            BY <1>type, <2>3
        <3>2. g[k - 1] = Taken(P, codes, last)
            BY <3>1
        <3> HIDE DEF g
        <3>3. OneCode(s, Len(s), strict, Taken(P, codes, last)) = ended
            <4>1. CASE last = n
                BY <1>again, <1>last, <4>1, Zenon
            <4>2. CASE last # n
                <5>1. last + 1 \in 1 .. n /\ (last + 1) - 1 = last
                    BY <1>type, <4>2
                <5>2. ~ Accepted(codes, last + 1, strict)
                    BY <4>2, Zenon DEF n
                <5> QED
                    BY <1>bad, <1>steps, <4>2, <5>1, <5>2
            <4> QED
                BY <4>1, <4>2
        <3> QED
            BY <2>0, <3>1, <3>2, <3>3, Zenon
    <2>4. CASE k > last + 1
        <3>1. k # 0 /\ ~ k <= last /\ k - 1 \in 0 .. Len(s) /\ ~ k - 1 <= last
            BY <1>type, <2>4
        <3>2. g[k - 1] = ended
            BY <3>1
        <3> HIDE DEF g
        <3> QED
            BY <1>again, <2>0, <3>1, <3>2, Zenon
    <2>5. k = 0 \/ (k # 0 /\ k <= last) \/ k = last + 1 \/ k > last + 1
        BY <1>type
    <2> HIDE DEF g
    <2> QED
        BY <2>1, <2>2, <2>3, <2>4, <2>5, Zenon
<1>2. g = [k \in 0 .. Len(s) |-> g[k]]
    OBVIOUS
<1>3. g[Len(s)] = ended
    <2>1. g[Len(s)] = IF Len(s) <= last THEN Taken(P, codes, Len(s)) ELSE ended
        BY <1>type
    <2>2. Len(s) <= last => last = n /\ Len(s) = last
        BY <1>type
    <2> QED
        BY <1>last, <2>1, <2>2
<1> HIDE DEF g
<1>4. g = CodeTurns(g, s, 0, Len(s), strict)
    BY <1>1, <1>2, Zenon DEF CodeTurns
<1>5. r = CodeTurns(r, s, 0, Len(s), strict)
    BY <1>4, Zenon
<1>6. CodesFrom(s, 0, Len(s), strict) = r[Len(s)]
    BY Zenon DEF CodesFrom, CodeTurns
<1> HIDE DEF r
<1>7. \A k \in 0 .. Len(s) :
          r[k] = IF k = 0 THEN [at |-> 0, bad |-> 0, codes |-> <<>>]
                 ELSE OneCode(s, Len(s), strict, r[k - 1])
    BY <1>5, Zenon DEF CodeTurns
<1>8. \A k \in 0 .. Len(s) : Alike(r, g, k)
    <2>1. 0 \in 0 .. Len(s) /\ \A k \in 1 .. Len(s) : k \in 0 .. Len(s) /\ k # 0
        BY <1>type
    <2>2. Alike(r, g, 0)
        BY <1>1, <1>7, <2>1, Zenon DEF Alike
    <2>3. \A k \in 1 .. Len(s) : Alike(r, g, k - 1) => Alike(r, g, k)
        BY <1>1, <1>7, <2>1, Zenon DEF Alike
    <2> QED
        BY <1>type, <2>2, <2>3, LoopsAlike, Zenon
<1>9. r[Len(s)] = g[Len(s)]
    <2>1. Len(s) \in 0 .. Len(s)
        BY <1>type
    <2> QED
        BY <1>8, <2>1, Zenon DEF Alike
<1> QED
    BY <1>3, <1>6, <1>9, Zenon DEF ended, n

\* The state of the iteration after k characters.
ControlAfter(P, k) == IF k = 0 THEN 0 ELSE P[k - 1] + 1
PairsOf(P, codes, k) == [m \in 1 .. k |-> <<P[m - 1] + 1, codes[m]>>]
Iterated(P, codes, k) ==
    [control |-> ControlAfter(P, k), bad |-> FALSE, pairs |-> PairsOf(P, codes, k)]

LEMMA FindsNext ==
    ASSUME NEW s \in Seq(Bytes), NEW codes, NEW n, NEW P, Laid(P, s, codes, n), NEW k \in 0 .. n
    PROVE  SkipForward(s, ControlAfter(P, k)) = P[k]
<1>type. n \in Nat /\ P[0] = 0 /\ Len(s) \in Nat
    BY DEF Laid
<1>1. CASE k # 0
    <2>1. k \in 1 .. n
        BY <1>type, <1>1
    <2> QED
        BY <1>1, <2>1, FindsEnd DEF ControlAfter
<1>2. CASE k = 0
    <2>1. 0 \in 0 .. n /\ 0 \in 0 .. Len(s) /\ \A q \in 0 .. 0 - 1 : IsCont(s, q)
        BY <1>type
    <2>2. ~ IsCont(s, 0)
        BY <1>type, <2>1, StartOfNext
    <2>3. ASSUME NEW p \in 0 .. Len(s), \A q \in 0 .. p - 1 : IsCont(s, q)
          PROVE  p = 0
        <3>1. p # 0 => 0 \in 0 .. p - 1
            BY <1>type
        <3> QED
            BY <2>2, <2>3, <3>1
    <2>4. SkipForward(s, 0) = 0
        BY <2>1, <2>2, <2>3, Zenon DEF SkipForward
    <2> QED
        BY <1>type, <1>2, <2>4 DEF ControlAfter
<1> QED
    BY <1>1, <1>2

LEMMA MorePairs ==
    ASSUME NEW P, NEW codes, NEW k \in Nat, k # 0
    PROVE  Append(PairsOf(P, codes, k - 1), <<P[k - 1] + 1, codes[k]>>) = PairsOf(P, codes, k)
<1> DEFINE x == <<P[k - 1] + 1, codes[k]>>
           f == PairsOf(P, codes, k - 1)
<1>1. f = [m \in 1 .. k - 1 |-> <<P[m - 1] + 1, codes[m]>>] /\ k - 1 \in Nat
    BY DEF PairsOf
<1> HIDE DEF f
<1>2. Len(f) = k - 1 /\ \A m \in 1 .. k - 1 : f[m] = <<P[m - 1] + 1, codes[m]>>
    BY <1>1
<1>3. Append(f, x) = [m \in 1 .. Len(f) + 1 |-> IF m <= Len(f) THEN f[m] ELSE x]
    BY <1>1, <1>2 DEF Append
<1>4. Len(f) + 1 = k
    BY <1>2
<1>5. ASSUME NEW m \in 1 .. k
      PROVE  (IF m <= Len(f) THEN f[m] ELSE x) = <<P[m - 1] + 1, codes[m]>>
    <2>1. CASE m <= Len(f)
        <3>1. m \in 1 .. k - 1
            BY <1>2, <2>1
        <3> QED
            BY <1>2, <2>1, <3>1, Zenon
    <2>2. CASE ~ m <= Len(f)
        <3>1. m = k
            BY <1>2, <2>2
        <3> QED
            BY <2>2, <3>1, Zenon
    <2> QED
        BY <2>1, <2>2
<1> HIDE DEF x
<1>6. Append(f, x) = [m \in 1 .. k |-> <<P[m - 1] + 1, codes[m]>>]
    BY <1>3, <1>4, <1>5, Zenon
<1> QED
    BY <1>6, Zenon DEF f, x, PairsOf

LEMMA NextPair ==
    ASSUME NEW s \in Seq(Bytes), NEW codes \in Seq(Codes), NEW P, Laid(P, s, codes, Len(codes)),
           NEW k \in 1 .. Len(codes)
    PROVE  OnePair(s, FALSE, Iterated(P, codes, k - 1)) = Iterated(P, codes, k)
<1> DEFINE r == Iterated(P, codes, k - 1)
           d == Utf8Decode(s, P[k - 1], FALSE)
           x == <<P[k - 1] + 1, codes[k]>>
<1>1. /\ P[k] \in Nat /\ P[k - 1] \in Nat /\ P[k - 1] < P[k] /\ P[k] <= Len(s) /\ Len(s) \in Nat
      /\ k \in 0 .. Len(codes) /\ k - 1 \in 0 .. Len(codes) /\ k # 0 /\ k \in Nat
    BY LaidIs
<1>2. d.ok /\ d.val = codes[k] /\ d.next = P[k]
    BY Zenon DEF Laid, CharacterStands, DecodesTo
<1>3. /\ r.control = ControlAfter(P, k - 1) /\ r.bad = FALSE
      /\ r.pairs = PairsOf(P, codes, k - 1)
    BY DEF Iterated
<1>4. SkipForward(s, r.control) = P[k - 1]
    BY <1>1, <1>3, FindsNext
<1>5. ~ IsCont(s, P[k])
    BY <1>1, StartOfNext
<1>6. ~ P[k - 1] >= Len(s)
    BY <1>1
<1> HIDE DEF r, d
<1>7. OnePair(s, FALSE, r) =
          [control |-> P[k - 1] + 1, bad |-> FALSE,
           pairs |-> Append(r.pairs, <<P[k - 1] + 1, d.val>>)]
    BY <1>2, <1>3, <1>4, <1>5, <1>6, Zenon DEF OnePair, d
<1>8. Append(r.pairs, x) = PairsOf(P, codes, k)
    BY <1>1, <1>3, MorePairs, Zenon
<1>9. ControlAfter(P, k) = P[k - 1] + 1
    BY <1>1 DEF ControlAfter
<1> QED
    BY <1>2, <1>7, <1>8, <1>9, Zenon DEF r, Iterated

PairTurns(turn, s, strict) ==
    [k \in 0 .. Len(s) |->
        IF k = 0 THEN [control |-> 0, bad |-> FALSE, pairs |-> <<>>]
        ELSE OnePair(s, strict, turn[k - 1])]

\* codes goes over every character of a text.
LEMMA CodesIterated ==
    ASSUME NEW s \in Seq(Bytes), NEW codes \in Seq(Codes), NEW P, Laid(P, s, codes, Len(codes))
    PROVE  Utf8Codes(s, FALSE) = PairsOf(P, codes, Len(codes))
<1> DEFINE n == Len(codes)
           ended == Iterated(P, codes, n)
           g == [k \in 0 .. Len(s) |-> IF k <= n THEN Iterated(P, codes, k) ELSE ended]
           r == CHOOSE r : r = PairTurns(r, s, FALSE)
<1>type. /\ n \in Nat /\ Len(s) \in Nat /\ P[0] = 0 /\ P[n] = Len(s) /\ n <= Len(s)
    BY LaidLength DEF Laid
<1>steps. \A k \in 1 .. n : OnePair(s, FALSE, Iterated(P, codes, k - 1)) = Iterated(P, codes, k)
    BY NextPair
<1>start. Iterated(P, codes, 0) = [control |-> 0, bad |-> FALSE, pairs |-> <<>>]
    BY <1>type DEF Iterated, ControlAfter, PairsOf
<1>again. OnePair(s, FALSE, ended) = ended
    <2>1. ended.control = ControlAfter(P, n)
        BY DEF Iterated
    <2>2. SkipForward(s, ended.control) = P[n]
        <3>1. n \in 0 .. n
            BY <1>type
        <3> QED
            BY <2>1, <3>1, FindsNext
    <2>3. P[n] >= Len(s)
        BY <1>type
    <2> HIDE DEF ended
    <2> QED
        BY <2>2, <2>3, Zenon DEF OnePair
<1>end. ended.bad = FALSE /\ ended.pairs = PairsOf(P, codes, n)
    BY DEF Iterated
<1>starts. ~ IsCont(s, 0)
    <2>1. 0 \in 0 .. n
        BY <1>type
    <2>2. ~ IsCont(s, P[0])
        BY <2>1, StartOfNext
    <2> QED
        BY <1>type, <2>2
<1>same. ended = Iterated(P, codes, n)
    OBVIOUS
<1> HIDE DEF ended, n
<1>1. ASSUME NEW k \in 0 .. Len(s)
      PROVE  g[k] = IF k = 0 THEN [control |-> 0, bad |-> FALSE, pairs |-> <<>>]
                    ELSE OnePair(s, FALSE, g[k - 1])
    <2>0. g[k] = IF k <= n THEN Iterated(P, codes, k) ELSE ended
        OBVIOUS
    <2>1. CASE k = 0
        <3>1. 0 <= n
            BY <1>type
        <3> QED
            BY <1>start, <2>0, <2>1, <3>1
    <2>2. CASE k # 0 /\ k <= n
        <3>1. k \in 1 .. n /\ k - 1 \in 0 .. Len(s) /\ k - 1 <= n
            BY <1>type, <2>2
        <3>2. g[k - 1] = Iterated(P, codes, k - 1)
            BY <3>1
        <3> HIDE DEF g
        <3>3. OnePair(s, FALSE, g[k - 1]) = Iterated(P, codes, k)
            BY <1>steps, <3>1, <3>2, Zenon
        <3> QED
            BY <2>0, <2>2, <3>3, Zenon
    <2>3. CASE k # 0 /\ ~ k <= n
        <3>1. k - 1 \in 0 .. Len(s) /\ (k - 1 <= n => k - 1 = n)
            BY <1>type, <2>3
        <3>2. g[k - 1] = ended
            BY <1>same, <3>1
        <3> HIDE DEF g
        <3> QED
            BY <1>again, <2>0, <2>3, <3>2, Zenon
    <2> HIDE DEF g
    <2> QED
        BY <2>1, <2>2, <2>3, Zenon
<1>2. g = [k \in 0 .. Len(s) |-> g[k]]
    OBVIOUS
<1>3. g[Len(s)] = ended
    <2>1. g[Len(s)] = IF Len(s) <= n THEN Iterated(P, codes, Len(s)) ELSE ended
        BY <1>type
    <2>2. Len(s) <= n => Len(s) = n
        BY <1>type
    <2> QED
        BY <1>same, <2>1, <2>2
<1> HIDE DEF g
<1>4. g = PairTurns(g, s, FALSE)
    BY <1>1, <1>2, Zenon DEF PairTurns
<1>5. r = PairTurns(r, s, FALSE)
    BY <1>4, Zenon
<1>6. Utf8Codes(s, FALSE) =
          IF IsCont(s, 0) \/ r[Len(s)].bad THEN <<"error">> ELSE r[Len(s)].pairs
    BY Zenon DEF Utf8Codes, PairTurns
<1> HIDE DEF r
<1>7. \A k \in 0 .. Len(s) :
          r[k] = IF k = 0 THEN [control |-> 0, bad |-> FALSE, pairs |-> <<>>]
                 ELSE OnePair(s, FALSE, r[k - 1])
    BY <1>5, Zenon DEF PairTurns
<1>8. \A k \in 0 .. Len(s) : Alike(r, g, k)
    <2>1. 0 \in 0 .. Len(s) /\ \A k \in 1 .. Len(s) : k \in 0 .. Len(s) /\ k # 0
        BY <1>type
    <2>2. Alike(r, g, 0)
        BY <1>1, <1>7, <2>1, Zenon DEF Alike
    <2>3. \A k \in 1 .. Len(s) : Alike(r, g, k - 1) => Alike(r, g, k)
        BY <1>1, <1>7, <2>1, Zenon DEF Alike
    <2> QED
        BY <1>type, <2>2, <2>3, LoopsAlike, Zenon
<1>9. r[Len(s)] = g[Len(s)]
    <2>1. Len(s) \in 0 .. Len(s)
        BY <1>type
    <2> QED
        BY <1>8, <2>1, Zenon DEF Alike
<1> QED
    BY <1>3, <1>6, <1>9, <1>end, <1>starts, Zenon DEF n

-----------------------------------------------------------------------------
(* The functions of the library on a text. *)

LEMMA Least ==
    ASSUME NEW n \in Nat, NEW A \in SUBSET (1 .. n), A # {}
    PROVE  \E x \in A : \A y \in A : x <= y
<1> DEFINE S == {k \in Nat : \A B \in SUBSET (1 .. k) :
                                 B # {} => \E x \in B : \A y \in B : x <= y}
<1>1. 0 \in S
    <2>1. \A B \in SUBSET (1 .. 0) : B = {}
        OBVIOUS
    <2> QED
        BY <2>1, Zenon
<1>2. ASSUME NEW k \in S
      PROVE  k + 1 \in S
    <2> SUFFICES ASSUME NEW B \in SUBSET (1 .. k + 1), B # {}
                 PROVE  \E x \in B : \A y \in B : x <= y
        OBVIOUS
    <2> DEFINE C == B \cap (1 .. k)
    <2>1. CASE C = {}
        <3>1. \A x \in B : x = k + 1
            BY <2>1
        <3> QED
            BY <3>1
    <2>2. CASE C # {}
        <3>1. PICK x \in C : \A y \in C : x <= y
            BY <2>2
        <3>2. \A y \in B : y \in C \/ y = k + 1
            OBVIOUS
        <3>3. x \in B /\ x <= k + 1
            BY <3>1
        <3> QED
            BY <3>1, <3>2, <3>3
    <2> QED
        BY <2>1, <2>2
<1> HIDE DEF S
<1>3. n \in S
    BY <1>1, <1>2, SetInduction DEF S
<1> QED
    BY <1>3 DEF S

LEMMA LenWhenRead ==
    ASSUME NEW s \in Seq(Bytes), NEW codes \in Seq(Codes), NEW P, Laid(P, s, codes, Len(codes)),
           NEW strict \in BOOLEAN, \A k \in 1 .. Len(codes) : Accepted(codes, k, strict)
    PROVE  /\ CodesFrom(s, 0, Len(s), strict).codes = codes
           /\ Utf8Len(s, strict) = [count |-> Len(codes)]
<1> DEFINE n == Len(codes)
           r == CodesFrom(s, 0, Len(s), strict)
<1>1. n \in 0 .. n /\ SubSeq(codes, 1, n) = codes
    OBVIOUS
<1>2. r = Taken(P, codes, n)
    BY <1>1, CodesRead
<1>3. r.bad = 0 /\ r.codes = codes
    BY <1>1, <1>2 DEF Taken
<1> QED
    BY <1>3, Zenon DEF Utf8Len

LEMMA LenWhenRefused ==
    ASSUME NEW s \in Seq(Bytes), NEW codes \in Seq(Codes), NEW P, Laid(P, s, codes, Len(codes)),
           NEW strict \in BOOLEAN, \E k \in 1 .. Len(codes) : ~ Accepted(codes, k, strict)
    PROVE  Utf8Len(s, strict) # [count |-> Len(codes)]
<1> DEFINE n == Len(codes)
           A == {k \in 1 .. n : ~ Accepted(codes, k, strict)}
           r == CodesFrom(s, 0, Len(s), strict)
<1>1. n \in Nat /\ A \in SUBSET (1 .. n) /\ A # {}
    OBVIOUS
<1>2. PICK x \in A : \A y \in A : x <= y
    <2> HIDE DEF n, A
    <2> QED
        BY <1>1, Least
<1> DEFINE last == x - 1
<1>3. last \in 0 .. n /\ last # n /\ last + 1 = x
    BY <1>1, <1>2
<1>4. \A k \in 1 .. last : Accepted(codes, k, strict)
    BY <1>1, <1>2
<1>5. ~ Accepted(codes, last + 1, strict)
    BY <1>2, <1>3
<1>6. P[last] \in Nat
    BY <1>3 DEF Laid
<1> HIDE DEF last
<1>7. r = Rejected(P, codes, last)
    BY <1>3, <1>4, <1>5, CodesRead
<1>8. r.bad = P[last] + 1
    BY <1>7 DEF Rejected
<1>9. r.bad # 0
    BY <1>6, <1>8
<1>10. Utf8Len(s, strict) = [badAt |-> r.bad]
    BY <1>9, Zenon DEF Utf8Len
<1>11. [badAt |-> r.bad] # [count |-> n]
    <2>1. "badAt" \in DOMAIN [badAt |-> r.bad] /\ "badAt" \notin DOMAIN [count |-> n]
        OBVIOUS
    <2> QED
        BY <2>1, Zenon
<1> QED
    BY <1>10, <1>11

\* Every offset lies in one character.
HoldsByte(P, k, i) == P[k - 1] + 1 <= i /\ i < P[k] + 1

LEMMA OneHolds ==
    ASSUME NEW s \in Seq(Bytes), NEW codes, NEW n, NEW P, Laid(P, s, codes, n),
           NEW i \in 1 .. Len(s)
    PROVE  \E k \in 1 .. n : HoldsByte(P, k, i) /\ \A m \in 1 .. n : HoldsByte(P, m, i) => m = k
<1> DEFINE A == {k \in 1 .. n : i < P[k] + 1}
<1>type. n \in Nat /\ P \in [0 .. n -> Nat] /\ P[0] = 0 /\ P[n] = Len(s) /\ Len(s) \in Nat
    BY DEF Laid
<1>1. A \in SUBSET (1 .. n) /\ A # {}
    <2>1. n # 0 /\ i < P[n] + 1
        BY <1>type
    <2>2. n \in A
        BY <1>type, <2>1
    <2> QED
        BY <2>2
<1>2. PICK k \in A : \A m \in A : k <= m
    <2> HIDE DEF A
    <2> QED
        BY <1>type, <1>1, Least
<1>3. HoldsByte(P, k, i)
    <2>1. CASE k = 1
        BY <1>type, <1>2, <2>1 DEF HoldsByte
    <2>2. CASE k # 1
        <3>1. k - 1 \in 1 .. n /\ ~ k <= k - 1 /\ k - 1 \in 0 .. n
            BY <1>type, <2>2
        <3>2. k - 1 \notin A
            BY <1>2, <3>1
        <3>3. ~ i < P[k - 1] + 1 /\ P[k - 1] \in Nat
            BY <1>type, <3>1, <3>2
        <3> QED
            BY <1>2, <3>3 DEF HoldsByte
    <2> QED
        BY <2>1, <2>2
<1>4. ASSUME NEW m \in 1 .. n, HoldsByte(P, m, i)
      PROVE  m = k
    <2>1. m \in A
        BY <1>4 DEF HoldsByte
    <2>2. k <= m /\ k \in 1 .. n
        BY <1>2, <2>1
    <2>3. CASE k <= m - 1
        <3>1. k \in 0 .. n /\ m - 1 \in 0 .. n
            BY <1>type, <2>2
        <3>2. P[m - 1] - P[k] >= (m - 1) - k
            BY <2>3, <3>1, LaidInOrder
        <3>3. P[k] \in Nat /\ P[m - 1] \in Nat
            BY <1>type, <3>1
        <3>4. i < P[k] + 1 /\ P[m - 1] + 1 <= i
            BY <1>2, <1>4 DEF HoldsByte
        <3> QED
            BY <2>2, <2>3, <3>2, <3>3, <3>4
    <2> QED
        BY <1>type, <2>2, <2>3
<1> QED
    BY <1>2, <1>3, <1>4

LEMMA Offsets ==
    ASSUME NEW s \in Seq(Bytes), NEW codes, NEW n, NEW P, Laid(P, s, codes, n)
    PROVE  /\ \A k \in 1 .. n + 1 : Utf8Offset(s, k, 1) = P[k - 1] + 1
           /\ \A k \in 1 .. n : Utf8Offset(s, k - n - 1, Len(s) + 1) = P[k - 1] + 1
           /\ Utf8Offset(s, n + 2, 1) = 0
           /\ Utf8Offset(s, -n - 1, Len(s) + 1) = 0
<1>type. n \in Nat /\ P[0] = 0 /\ P[n] = Len(s) /\ Len(s) \in Nat
    BY DEF Laid
<1>1. ~ IsCont(s, 0) /\ ~ IsCont(s, Len(s))
    <2>1. 0 \in 0 .. n /\ n \in 0 .. n
        BY <1>type
    <2>2. ~ IsCont(s, P[0]) /\ ~ IsCont(s, P[n])
        BY <2>1, StartOfNext
    <2> QED
        BY <1>type, <2>2
<1>2. ASSUME NEW k \in 1 .. n + 2
      PROVE  Utf8Offset(s, k, 1) = IF k - 1 <= n THEN P[k - 1] + 1 ELSE 0
    <2>1. k # 0 /\ k > 0 /\ 1 - 1 = 0 /\ k - 1 \in 0 .. n + 1
        BY <1>type
    <2>2. Utf8Offset(s, k, 1) = Forward(s, k - 1, 0)
        BY <1>1, <2>1 DEF Utf8Offset
    <2> QED
        BY <2>1, <2>2, GoesForward
<1>3. ASSUME NEW m \in 1 .. n + 1
      PROVE  Utf8Offset(s, -m, Len(s) + 1) = IF m <= n THEN P[n - m] + 1 ELSE 0
    <2>1. -m # 0 /\ ~ -m > 0 /\ (Len(s) + 1) - 1 = Len(s) /\ m \in 0 .. n + 1 /\ -(-m) = m
        BY <1>type
    <2>2. Utf8Offset(s, -m, Len(s) + 1) = Back(s, m, Len(s))
        BY <1>1, <2>1 DEF Utf8Offset
    <2> QED
        BY <2>1, <2>2, GoesBack
<1>4. ASSUME NEW k \in 1 .. n
      PROVE  Utf8Offset(s, k - n - 1, Len(s) + 1) = P[k - 1] + 1
    <2> DEFINE m == n + 1 - k
    <2>1. m \in 1 .. n + 1 /\ m <= n /\ n - m = k - 1 /\ -m = k - n - 1
        BY <1>type
    <2> QED
        BY <1>3, <2>1
<1>5. \A k \in 1 .. n + 1 : k \in 1 .. n + 2 /\ k - 1 <= n
    BY <1>type
<1>6. n + 2 \in 1 .. n + 2 /\ ~ (n + 2) - 1 <= n /\ n + 1 \in 1 .. n + 1 /\ -(n + 1) = -n - 1
      /\ ~ n + 1 <= n
    BY <1>type
<1>7. Utf8Offset(s, -n - 1, Len(s) + 1) = 0
    BY <1>3, <1>6
<1> QED
    BY <1>2, <1>4, <1>5, <1>6, <1>7

LEMMA OffsetOf ==
    ASSUME NEW s \in Seq(Bytes), NEW codes, NEW n, NEW P, Laid(P, s, codes, n),
           NEW i \in 1 .. Len(s), NEW k \in 1 .. n, HoldsByte(P, k, i)
    PROVE  Utf8Offset(s, 0, i) = P[k - 1] + 1
<1>1. Utf8Offset(s, 0, i) = SkipBack(s, i - 1) + 1
    BY DEF Utf8Offset
<1>2. P[k] \in Nat /\ P[k - 1] \in Nat
    BY LaidIs
<1>3. i - 1 \in P[k - 1] .. P[k] - 1
    BY <1>2 DEF HoldsByte
<1>4. SkipBack(s, i - 1) = P[k - 1]
    BY <1>3, FindsStart
<1> QED
    BY <1>1, <1>4

\* The bytes of a text are bytes.
LEMMA CharType ==
    ASSUME NEW codes \in Seq(Codes)
    PROVE  Char(codes) \in Seq(Bytes)
<1>1. PICK t : TextOf(t, codes, Len(codes))
    BY TextExists
<1>2. t[Len(codes)] \in Seq(Bytes)
    BY <1>1 DEF TextOf
<1> QED
    BY <1>1, <1>2, CharIs

\* The functions of the library agree on every encoded text.
LEMMA TextAlways ==
    ASSUME NEW codes \in Seq(Codes)
    PROVE  TextAgrees(codes)
<1> DEFINE s == Char(codes)
           n == Len(codes)
           start(k) == StartOf(codes, k)
           plain == \A k \in 1 .. n : Strictly(codes[k])
           one(i) == CHOOSE k \in 1 .. n : start(k) <= i /\ i < start(k + 1)
<1>1. PICK P : Laid(P, s, codes, n) /\ \A k \in 1 .. n + 1 : start(k) = P[k - 1] + 1
    BY CharLaid
<1>type. s \in Seq(Bytes) /\ n \in Nat /\ FALSE \in BOOLEAN /\ TRUE \in BOOLEAN
    BY CharType
<1> HIDE DEF s, start
<1>2. /\ CodesFrom(s, 0, Len(s), FALSE).codes = codes
      /\ Utf8Len(s, FALSE) = [count |-> n]
    <2>1. \A k \in 1 .. n : Accepted(codes, k, FALSE)
        BY DEF Accepted
    <2> QED
        BY <1>1, <1>type, <2>1, LenWhenRead
<1>3. plain <=> Utf8Len(s, TRUE) = [count |-> n]
    <2>1. \A k \in 1 .. n : Accepted(codes, k, TRUE) <=> Strictly(codes[k])
        BY DEF Accepted
    <2>2. CASE plain
        <3>1. \A k \in 1 .. n : Accepted(codes, k, TRUE)
            BY <2>1, <2>2
        <3>2. Utf8Len(s, TRUE) = [count |-> n]
            BY <1>1, <1>type, <3>1, LenWhenRead
        <3> QED
            BY <2>2, <3>2
    <2>3. CASE ~ plain
        <3>1. \E k \in 1 .. n : ~ Accepted(codes, k, TRUE)
            BY <2>1, <2>3
        <3>2. Utf8Len(s, TRUE) # [count |-> n]
            BY <1>1, <1>type, <3>1, LenWhenRefused
        <3> QED
            BY <2>3, <3>2
    <2> QED
        BY <2>2, <2>3
<1>4. Utf8Codepoint(s, 1, Len(s), FALSE).codes = codes
    <2>1. 1 - 1 = 0
        OBVIOUS
    <2> QED
        BY <1>2, <2>1 DEF Utf8Codepoint
<1>5. \A k \in 1 .. n : k \in 1 .. n + 1 /\ k + 1 \in 1 .. n + 1 /\ (k + 1) - 1 = k
    BY <1>type
<1>6. Utf8Codes(s, FALSE) = [k \in 1 .. n |-> <<start(k), codes[k]>>]
    <2>1. Utf8Codes(s, FALSE) = PairsOf(P, codes, n)
        BY <1>1, <1>type, CodesIterated
    <2>2. \A k \in 1 .. n : start(k) = P[k - 1] + 1
        BY <1>1, <1>5
    <2> QED
        BY <2>1, <2>2, Zenon DEF PairsOf
<1>7. /\ \A k \in 1 .. n + 1 : Utf8Offset(s, k, 1) = P[k - 1] + 1
      /\ \A k \in 1 .. n : Utf8Offset(s, k - n - 1, Len(s) + 1) = P[k - 1] + 1
      /\ Utf8Offset(s, n + 2, 1) = 0
      /\ Utf8Offset(s, -n - 1, Len(s) + 1) = 0
    BY <1>1, <1>type, Offsets
<1>8. /\ \A k \in 1 .. n + 1 : Utf8Offset(s, k, 1) = start(k)
      /\ \A k \in 1 .. n : Utf8Offset(s, k - n - 1, Len(s) + 1) = start(k)
    BY <1>1, <1>5, <1>7, Zenon
<1>9. ASSUME NEW i \in 1 .. Len(s)
      PROVE  Utf8Offset(s, 0, i) = start(one(i))
    <2>1. PICK k \in 1 .. n : HoldsByte(P, k, i) /\ \A m \in 1 .. n : HoldsByte(P, m, i) => m = k
        BY <1>1, <1>type, OneHolds
    <2>2. \A m \in 1 .. n : HoldsByte(P, m, i) <=> start(m) <= i /\ i < start(m + 1)
        BY <1>1, <1>5, Zenon DEF HoldsByte
    <2>3. one(i) = k
        BY <2>1, <2>2, Zenon
    <2>4. Utf8Offset(s, 0, i) = P[k - 1] + 1
        BY <1>1, <1>type, <2>1, OffsetOf
    <2>5. start(k) = P[k - 1] + 1
        BY <1>1, <1>5, Zenon
    <2> QED
        BY <2>3, <2>4, <2>5
<1> QED
    BY <1>2, <1>3, <1>4, <1>6, <1>7, <1>8, <1>9, Zenon DEF TextAgrees, s, start

-----------------------------------------------------------------------------
(* The theorems. *)

\* The calls that are made.
Called ==
    \/ call \in DivisionCalls \/ call \in ShiftCalls \/ call \in ForCalls
    \/ call \in InsertCalls \/ call \in RemoveCalls \/ call \in MoveCalls
    \/ call \in ConcatCalls \/ call \in UnpackCalls
    \/ call \in BytesCalls \/ call \in TextCalls

LEMMA Utf8Calls ==
    /\ \A c \in BytesCalls : c.fn = "codes" /\ c.bytes \in Seq(Bytes) /\ c.strict \in BOOLEAN
    /\ \A c \in TextCalls : c.fn = "char" /\ c.codes \in Seq(Codes)
<1>1. 0 .. MaxUTF = Codes /\ 0 .. 255 = Bytes
    <2>1. MaxUTF \in Nat
        BY SMT DEF MaxUTF
    <2> QED
        BY <2>1, SMT DEF Codes, Bytes
<1> QED
    BY <1>1, CallAssumption

LEMMA CalledAlways == Spec => []Called
<1>1. Init => Called
    BY DEF Init, Called
<1>2. Called /\ [Next]_vars => Called'
    <2> SUFFICES ASSUME Called, [Next]_vars PROVE Called'
        OBVIOUS
    <2>1. call' = call
        BY DEF Next, Return, vars
    <2> QED
        BY <2>1 DEF Called
<1> QED
    BY <1>1, <1>2, PTL DEF Spec

\* The integer operators of lvm_arith.go:137-187 are exact for words of any
\* size: intIDiv and intMod round down for operands of any signs, the least word
\* divided by -1 included, and shiftL shifts an unsigned number by any word.
THEOREM ArithmeticForAllWords == Spec => []ArithmeticIsExact
<1>1. Called => ArithmeticIsExact
    <2> SUFFICES ASSUME Called PROVE ArithmeticIsExact
        OBVIOUS
    <2>1. CASE call \in DivisionCalls
        BY <2>1, Divisions DEF ArithmeticIsExact, DivisionCalls
    <2>2. CASE call \in ShiftCalls
        BY <2>2, Shifts DEF ArithmeticIsExact, ShiftCalls
    <2>3. CASE call.fn \notin {"idiv", "mod", "shl", "shr"}
        BY <2>3 DEF ArithmeticIsExact
    <2>4. CASE call \in BytesCalls \/ call \in TextCalls
        BY <2>4, Utf8Calls DEF ArithmeticIsExact
    <2> QED
        BY <2>1, <2>2, <2>3, <2>4 DEF Called, ForCalls, InsertCalls, RemoveCalls, MoveCalls,
                                      ConcatCalls, UnpackCalls
<1> QED
    BY <1>1, CalledAlways, PTL

\* The loops over words are exact for words of any size: the numeric for loop
\* (forlimit, forprep and forloop in lvm.go:411-463 and lvm_execute.go) takes the
\* values up to its limit, and table.insert, remove, move, concat and unpack
\* (ltablib.go) read every item as it was and refuse what would leave the words.
THEOREM RangesForAllWords == Spec => []RangesAreExact
<1>1. Called => RangesAreExact
    <2> SUFFICES ASSUME Called PROVE RangesAreExact
        OBVIOUS
    <2>1. CASE call \in ForCalls
        BY <2>1, ForsAreExact DEF RangesAreExact, ForCalls
    <2>2. CASE call \in InsertCalls
        BY <2>2, Inserts DEF RangesAreExact, InsertCalls
    <2>3. CASE call \in RemoveCalls
        BY <2>3, Removes DEF RangesAreExact, RemoveCalls
    <2>4. CASE call \in MoveCalls
        BY <2>4, Moves DEF RangesAreExact, MoveCalls
    <2>5. CASE call \in ConcatCalls
        BY <2>5, Concats DEF RangesAreExact, ConcatCalls
    <2>6. CASE call \in UnpackCalls
        BY <2>6, Unpacks DEF RangesAreExact, UnpackCalls
    <2>7. CASE call \in DivisionCalls \/ call \in ShiftCalls
        BY <2>7 DEF RangesAreExact, DivisionCalls, ShiftCalls
    <2>8. CASE call \in BytesCalls \/ call \in TextCalls
        BY <2>8, Utf8Calls DEF RangesAreExact
    <2> QED
        BY <2>1, <2>2, <2>3, <2>4, <2>5, <2>6, <2>7, <2>8 DEF Called
<1> QED
    BY <1>1, CalledAlways, PTL

\* Calls with words (lvm_arith.go, lvm.go and ltablib.go) compute what numbers of
\* any size would, for words of any size: 64 bits are an instance.
THEOREM CallsForAllWords == Spec => []CallsAreExact
<1>1. ArithmeticIsExact /\ RangesAreExact => CallsAreExact
    BY DEF CallsAreExact
<1> QED
    BY <1>1, ArithmeticForAllWords, RangesForAllWords, PTL

\* utf8Decode (lutf8lib.go:54-85) accepts at every offset of every sequence of
\* bytes exactly what utf8esc (28-48) writes, with its code point, in strict and
\* in lax mode; and char, len, codepoint, codes and offset (91-255) take every
\* sequence of code points up to 2^31 - 1 apart in the same way.
THEOREM Utf8ForAllTexts == Spec => []Utf8Agrees
<1>1. Called => Utf8Agrees
    <2> SUFFICES ASSUME Called PROVE Utf8Agrees
        OBVIOUS
    <2>1. CASE call \in BytesCalls
        <3>1. call.fn = "codes" /\ call.bytes \in Seq(Bytes) /\ call.strict \in BOOLEAN
            BY <2>1, Utf8Calls
        <3>2. \A i \in 0 .. Len(call.bytes) - 1 : DecodesWritten(call.bytes, i, call.strict)
            BY <3>1, DecodesAlways
        <3> QED
            BY <3>1, <3>2 DEF Utf8Agrees
    <2>2. CASE call \in TextCalls
        <3>1. call.fn = "char" /\ call.codes \in Seq(Codes)
            BY <2>2, Utf8Calls
        <3>2. TextAgrees(call.codes)
            BY <3>1, TextAlways
        <3> QED
            BY <3>1, <3>2 DEF Utf8Agrees
    <2>3. CASE call.fn \notin {"codes", "char"}
        BY <2>3 DEF Utf8Agrees
    <2> QED
        BY <2>1, <2>2, <2>3 DEF Called, DivisionCalls, ShiftCalls, ForCalls, InsertCalls,
                                RemoveCalls, MoveCalls, ConcatCalls, UnpackCalls
<1> QED
    BY <1>1, CalledAlways, PTL
=============================================================================
