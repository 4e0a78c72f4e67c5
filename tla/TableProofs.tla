---------------------------- MODULE TableProofs ----------------------------
(***************************************************************************)
(* Proofs about Table, for every set of keys, objects and values: its      *)
(* representation invariant, the border that length() finds, and that it   *)
(* implements LuaTable.                                                    *)
(***************************************************************************)
EXTENDS Table, SequenceTheorems, FiniteSetTheorems, WellFoundedInduction, TLAPS

-----------------------------------------------------------------------------
(* Slots and places. *)

Readable == {Nil} \cup Values

\* A set of places has a first one.
LEMMA MinPlace ==
    ASSUME NEW S \in SUBSET Nat, S # {}
    PROVE  Min(S) \in S /\ \A i \in S : Min(S) <= i
<1> DEFINE R == OpToRel(<, Nat)
<1>1. IsWellFoundedOn(R, Nat)
    BY NatLessThanWellFounded
<1>2. \A x, y \in S : <<y, x>> \notin R => x <= y
    BY DEF OpToRel
<1> HIDE DEF R
<1>3. \E x \in S : \A y \in S : <<y, x>> \notin R
    BY <1>1, WFMin
<1> QED
    BY <1>2, <1>3 DEF Min

\* Wrapping gives a slot, reading one gives a value, and an empty slot stays
\* empty under both.
LEMMA SlotTypes ==
    ASSUME NEW v \in Slots, NEW wv \in BOOLEAN
    PROVE  /\ MkWeak(v) \in Slots
           /\ Deref(v) \in Readable
           /\ WrapVal(v) \in Slots
           /\ Converted(v, wv) \in Slots
           /\ MkWeak(Deref(v)) \in Slots
<1>1. Readable \subseteq Slots
    BY DEF Readable, Slots
<1>2. \A x \in Slots : MkWeak(x) \in Slots
    BY DEF MkWeak, Slots, Cells
<1>3. Deref(v) \in Readable
    BY DEF Deref, Slots, Cells, Readable, Values
<1> QED
    BY <1>1, <1>2, <1>3 DEF WrapVal, Converted

LEMMA NilSlot ==
    ASSUME NEW wv \in BOOLEAN
    PROVE  /\ Nil \in Slots
           /\ MkWeak(Nil) = Nil /\ Deref(Nil) = Nil
           /\ WrapVal(Nil) = Nil /\ Converted(Nil, wv) = Nil
<1>1. Nil \notin Objects /\ Nil \notin Cells
    BY NilAssumption, CellAssumption DEF Values
<1> QED
    BY <1>1 DEF MkWeak, Deref, WrapVal, Converted, Slots

\* The parts of the table, as functions on places.
LEMMA PartTypes ==
    ASSUME TypeOK
    PROVE  /\ Len(arr) \in Nat /\ DOMAIN arr = 1 .. Len(arr)
           /\ \A i \in DOMAIN arr : arr[i] \in Slots
           /\ \A k \in DOMAIN hash : k \in Keys /\ hash[k] \in Slots
           /\ \A k : HashVal(k) \in Slots
           /\ Len(keys) \in Nat /\ DOMAIN keys = 1 .. Len(keys)
           /\ \A i \in DOMAIN keys : keys[i] \in Keys
           /\ Len(weakKeys) \in Nat /\ DOMAIN weakKeys = 1 .. Len(weakKeys)
           /\ \A i \in DOMAIN weakKeys :
                 /\ weakKeys[i].key \in Objects \cup {Nil}
                 /\ weakKeys[i].val \in Slots
<1>1. arr \in Seq(Slots) /\ keys \in Seq(Keys) /\ weakKeys \in Seq(Entries)
    BY DEF TypeOK
<1>2. Len(arr) \in Nat /\ DOMAIN arr = 1 .. Len(arr)
      /\ \A i \in DOMAIN arr : arr[i] \in Slots
    BY <1>1, LenProperties, ElementOfSeq
<1>3. Len(keys) \in Nat /\ DOMAIN keys = 1 .. Len(keys)
      /\ \A i \in DOMAIN keys : keys[i] \in Keys
    BY <1>1, LenProperties, ElementOfSeq
<1>4. Len(weakKeys) \in Nat /\ DOMAIN weakKeys = 1 .. Len(weakKeys)
      /\ \A i \in DOMAIN weakKeys : weakKeys[i] \in Entries
    BY <1>1, LenProperties, ElementOfSeq
<1>5. \A k \in DOMAIN hash : k \in Keys /\ hash[k] \in Slots
    BY DEF TypeOK
<1>6. \A k : HashVal(k) \in Slots
    BY <1>5 DEF HashVal, Slots
<1> QED
    BY <1>2, <1>3, <1>4, <1>5, <1>6 DEF Entries

\* What reading a key gives.
LEMMA ReadTypes ==
    ASSUME TypeOK
    PROVE  /\ \A k : WeakSlots(k) # {} => WeakIndex(k) \in WeakSlots(k)
           /\ \A k : RawGet(k) \in Readable
<1>1. ASSUME NEW k, WeakSlots(k) # {}
      PROVE  WeakIndex(k) \in WeakSlots(k)
    <2>1. WeakSlots(k) \in SUBSET Nat
        BY PartTypes DEF WeakSlots
    <2> QED
        BY <1>1, <2>1, MinPlace DEF WeakIndex
<1>2. ASSUME NEW k
      PROVE  WeakKeyGet(k) \in Readable
    <2>1. CASE WeakSlots(k) = {}
        BY <2>1 DEF WeakKeyGet, Readable
    <2>2. CASE WeakSlots(k) # {}
        <3>1. WeakIndex(k) \in DOMAIN weakKeys
            BY <1>1, <2>2 DEF WeakSlots
        <3>2. weakKeys[WeakIndex(k)].val \in Slots
            BY <3>1, PartTypes
        <3> QED
            BY <2>2, <3>2, SlotTypes DEF WeakKeyGet
    <2> QED
        BY <2>1, <2>2
<1>3. ASSUME NEW k
      PROVE  RawGet(k) \in Readable
    <2>1. HashVal(k) \in Slots /\ (k \in DOMAIN arr => arr[k] \in Slots)
        BY PartTypes
    <2> QED
        BY <1>2, <2>1, SlotTypes DEF RawGet
<1> QED
    BY <1>1, <1>3

-----------------------------------------------------------------------------
(* Type correctness, one lemma per operation. *)

\* Keys as the table stores them.
LEMMA NormKeyType == \A w \in Keys \cup Floats : NormKey(w) \in Keys
BY KeyAssumption DEF NormKey, Keys

LEMMA IntegerKeys == \A k \in Keys : k \in Int => k \in Indexes
BY KeyAssumption DEF Keys

\* A function on 1 .. n is a sequence.
LEMMA FunctionIsSeq ==
    ASSUME NEW n \in Nat, NEW S, NEW f \in [1 .. n -> S]
    PROVE  f \in Seq(S) /\ Len(f) = n /\ DOMAIN f = 1 .. n
OBVIOUS

\* s lists the positions I, each once.
Lists(s, I) ==
    /\ s \in Seq(I) /\ Len(s) \in Nat /\ DOMAIN s = 1 .. Len(s)
    /\ \A i \in 1 .. Len(s) : s[i] \in I
    /\ \A i, j \in 1 .. Len(s) : s[i] = s[j] => i = j
    /\ \A x \in I : \E i \in 1 .. Len(s) : s[i] = x

LEMMA SortedLists ==
    ASSUME NEW I, IsFiniteSet(I), \A x \in I : x \in Int, NEW s \in Sorted(I)
    PROVE  Lists(s, I)
<1>1. Cardinality(I) \in Nat
    BY FS_CardinalityType
<1>2. s \in [1 .. Cardinality(I) -> I]
    BY DEF Sorted
<1>3. s \in Seq(I) /\ Len(s) = Cardinality(I) /\ DOMAIN s = 1 .. Cardinality(I)
    BY <1>1, <1>2, FunctionIsSeq
<1>4. ASSUME NEW i \in 1 .. Len(s), NEW j \in 1 .. Len(s), i # j
      PROVE  s[i] # s[j]
    <2>1. s[i] \in I /\ s[j] \in I
        BY <1>2, <1>3
    <2>2. s[i] \in Int /\ s[j] \in Int
        BY <2>1
    <2>3. i \in Int /\ j \in Int
        BY <1>1, <1>3
    <2>4. i < j => s[i] < s[j]
        BY <1>3 DEF Sorted
    <2>5. j < i => s[j] < s[i]
        BY <1>3 DEF Sorted
    <2> QED
        BY <1>4, <2>2, <2>3, <2>4, <2>5
<1>5. \A x \in I : \E i \in 1 .. Len(s) : s[i] = x
    BY <1>3 DEF Sorted
<1> QED
    BY <1>1, <1>2, <1>3, <1>4, <1>5 DEF Lists

\* Places in a sequence are finitely many.
LEMMA PlacesFinite ==
    ASSUME NEW n \in Nat, NEW I, I \subseteq 1 .. n
    PROVE  IsFiniteSet(I) /\ \A x \in I : x \in Nat
<1>1. IsFiniteSet(1 .. n)
    BY FS_Interval
<1>2. IsFiniteSet(I)
    BY <1>1, FS_Subset
<1> QED
    BY <1>2

LEMMA GetType ==
    ASSUME TypeOK, NEW w \in Keys \cup Floats, Get(w)
    PROVE  TypeOK'
<1> DEFINE k == NormKey(w)
<1>1. k \in Keys /\ RawGet(k) \in Readable
    BY NormKeyType, ReadTypes
<1>2. Nil \in Slots
    BY DEF Slots
<1>3. arr' \in Seq(Slots) /\ DOMAIN arr' \subseteq Indexes
    <2>1. CASE arr' = arr
        BY <2>1 DEF TypeOK
    <2>2. CASE k \in DOMAIN arr /\ arr' = [arr EXCEPT ![k] = Nil]
        <3>1. arr \in Seq(Slots) /\ k \in 1 .. Len(arr)
            BY <2>2, PartTypes DEF TypeOK
        <3>2. arr' \in Seq(Slots)
            BY <1>2, <2>2, <3>1, ExceptSeq
        <3> QED
            BY <2>2, <3>2 DEF TypeOK
    <2> QED
        BY <2>1, <2>2 DEF Get
<1>4. DOMAIN hash' \subseteq Keys /\ hash' \in [DOMAIN hash' -> Slots]
    <2>1. hash' = hash \/ hash' = [hash EXCEPT ![k] = Nil]
        BY DEF Get
    <2> QED
        BY <1>2, <2>1 DEF TypeOK
<1>5. held' \subseteq Objects
    BY DEF Get, TypeOK
<1> QED
    BY <1>3, <1>4, <1>5 DEF Get, TypeOK, loop

\* What every assignment does to the history of a loop.
LEMMA AssignedType ==
    ASSUME TypeOK, NEW k \in Keys, NEW v \in Readable, Assigned(k, v)
    PROVE  /\ weakk' \in BOOLEAN /\ weakv' \in BOOLEAN
           /\ held' \subseteq Objects /\ alive' \subseteq Objects
           /\ cursor' \in Keys \cup {Nil}
           /\ seen' \subseteq Keys /\ due' \subseteq Keys
           /\ search' \in [lo : Nat, hi : Nat]
           /\ v \in Slots /\ WrapVal(v) \in Slots
<1>1. v \in Slots
    BY DEF Readable, Slots
<1>2. WrapVal(v) \in Slots
    BY <1>1, SlotTypes
<1>3. cursor' \in Keys \cup {Nil} /\ seen' \subseteq Keys /\ due' \subseteq Keys
    BY DEF Assigned, LoopForgotten, TypeOK
<1> QED
    BY <1>1, <1>2, <1>3 DEF Assigned, TypeOK

LEMMA SetArrayType ==
    ASSUME TypeOK, NEW k \in Keys, NEW v \in Readable, SetArray(k, v)
    PROVE  TypeOK'
<1>1. Assigned(k, v) /\ k \in 1 .. Len(arr) /\ arr \in Seq(Slots)
    BY PartTypes DEF SetArray, TypeOK
<1>2. WrapVal(v) \in Slots
    BY <1>1, AssignedType
<1>3. arr' \in Seq(Slots)
    BY <1>1, <1>2, ExceptSeq DEF SetArray
<1>4. DOMAIN arr' = DOMAIN arr
    BY DEF SetArray
<1>5. UNCHANGED <<hash, keys, weakKeys>>
    BY DEF SetArray
<1> QED
    BY <1>1, <1>3, <1>4, <1>5, AssignedType DEF TypeOK

LEMMA HashDelType ==
    ASSUME TypeOK, NEW S
    PROVE  /\ DOMAIN HashDel(hash, S) = DOMAIN hash
           /\ HashDel(hash, S) \in [DOMAIN hash -> Slots]
BY DEF HashDel, TypeOK, Slots

\* The array part after an append.
LEMMA AppendShape ==
    ASSUME TypeOK, NEW k \in Keys, NEW v \in Readable, NEW m \in Indexes,
           AppendArray(k, v, m)
    PROVE  /\ k = Len(arr) + 1 /\ k \in Indexes /\ m \in Nat /\ m >= k
           /\ \A j \in k + 1 .. m : j \in DOMAIN hash /\ j \in Indexes
           /\ arr' \in Seq(Slots) /\ Len(arr') = m /\ DOMAIN arr' = 1 .. m
           /\ \A i \in 1 .. m :
                 arr'[i] = IF i < k THEN arr[i]
                           ELSE IF i = k THEN WrapVal(v) ELSE hash[i]
<1>1. k = Len(arr) + 1 /\ Len(arr) \in Nat /\ DOMAIN arr = 1 .. Len(arr)
    BY PartTypes DEF AppendArray
<1>2. m \in Nat /\ m >= k
    BY <1>1, KeyAssumption DEF AppendArray, Absorbs
<1>3. k \in Indexes
    BY <1>1, IntegerKeys
<1>4. \A j \in k + 1 .. m : j \in DOMAIN hash
    BY DEF AppendArray, Absorbs, HashVal
<1>5. \A j \in k + 1 .. m : j \in Indexes
    BY <1>1, <1>2, <1>4, IntegerKeys DEF TypeOK
<1>6. WrapVal(v) \in Slots
    BY AssignedType DEF AppendArray
<1>7. \A i \in 1 .. m : i < k => arr[i] \in Slots
    BY <1>1, <1>2, PartTypes
<1>8. \A i \in 1 .. m : i > k => hash[i] \in Slots
    BY <1>1, <1>2, <1>4, PartTypes
<1>9. arr' = [i \in 1 .. m |-> IF i < k THEN arr[i]
                               ELSE IF i = k THEN WrapVal(v) ELSE hash[i]]
    BY DEF AppendArray
<1>10. arr' \in [1 .. m -> Slots]
    BY <1>1, <1>2, <1>6, <1>7, <1>8, <1>9
<1>11. arr' \in Seq(Slots) /\ Len(arr') = m /\ DOMAIN arr' = 1 .. m
    BY <1>2, <1>10, FunctionIsSeq
<1> QED
    BY <1>1, <1>2, <1>3, <1>4, <1>5, <1>9, <1>11

LEMMA AppendArrayType ==
    ASSUME TypeOK, NEW k \in Keys, NEW v \in Readable, NEW m \in Indexes,
           AppendArray(k, v, m)
    PROVE  TypeOK'
<1>1. /\ k = Len(arr) + 1 /\ k \in Indexes /\ m \in Nat /\ m >= k
      /\ \A j \in k + 1 .. m : j \in Indexes
      /\ arr' \in Seq(Slots) /\ DOMAIN arr' = 1 .. m
    BY AppendShape
<1>2. Len(arr) \in Nat /\ 1 .. Len(arr) \subseteq Indexes
    BY PartTypes DEF TypeOK
<1>3. DOMAIN arr' \subseteq Indexes
    BY <1>1, <1>2
<1>4. DOMAIN hash' \subseteq Keys /\ hash' \in [DOMAIN hash' -> Slots]
    BY HashDelType DEF AppendArray, TypeOK
<1>5. Assigned(k, v) /\ UNCHANGED <<keys, weakKeys>>
    BY DEF AppendArray
<1> QED
    BY <1>1, <1>3, <1>4, <1>5, AssignedType DEF TypeOK

LEMMA SetHashType ==
    ASSUME TypeOK, NEW k \in Keys, NEW v \in Readable, SetHash(k, v)
    PROVE  TypeOK'
<1>1. Assigned(k, v) /\ UNCHANGED <<arr, weakKeys>>
    BY DEF SetHash
<1>2. WrapVal(v) \in Slots
    BY <1>1, AssignedType
<1>3. DOMAIN hash' \subseteq Keys /\ hash' \in [DOMAIN hash' -> Slots]
    <2>1. CASE v = Nil
        BY <2>1, HashDelType DEF SetHash, TypeOK
    <2>2. CASE v # Nil
        <3>1. hash' = [j \in DOMAIN hash \cup {k} |->
                           IF j = k THEN WrapVal(v) ELSE hash[j]]
            BY <2>2 DEF SetHash
        <3> QED
            BY <1>2, <3>1, PartTypes
    <2> QED
        BY <2>1, <2>2
<1>4. keys' \in Seq(Keys)
    <2>1. keys' = keys \/ keys' = Append(keys, k)
        BY DEF SetHash, AddKey
    <2>2. keys \in Seq(Keys)
        BY DEF TypeOK
    <2> QED
        BY <2>1, <2>2, AppendProperties
<1> QED
    BY <1>1, <1>3, <1>4, AssignedType DEF TypeOK

LEMMA SetWeakKeyType ==
    ASSUME TypeOK, NEW k \in Keys, NEW v \in Readable, SetWeakKey(k, v)
    PROVE  TypeOK'
<1>1. Assigned(k, v) /\ UNCHANGED <<arr, hash, keys>> /\ k \in Objects
    BY DEF SetWeakKey, InWeakList
<1>2. WrapVal(v) \in Slots
    BY <1>1, AssignedType
<1>3. weakKeys' \in Seq(Entries)
    <2> DEFINE e == [key |-> IF v = Nil THEN Nil ELSE k, val |-> WrapVal(v)]
    <2>1. weakKeys \in Seq(Entries)
        BY DEF TypeOK
    <2>2. e \in Entries /\ [key |-> k, val |-> WrapVal(v)] \in Entries
        BY <1>1, <1>2 DEF Entries
    <2>3. CASE WeakSlots(k) # {}
        <3>1. WeakIndex(k) \in 1 .. Len(weakKeys)
            BY <2>3, ReadTypes, PartTypes DEF WeakSlots
        <3>2. weakKeys' = [weakKeys EXCEPT ![WeakIndex(k)] = e]
            BY <2>3 DEF SetWeakKey
        <3> HIDE DEF e
        <3> QED
            BY <2>1, <2>2, <3>1, <3>2, ExceptSeq
    <2>4. CASE WeakSlots(k) = {}
        <3>1. \/ weakKeys' = weakKeys
              \/ weakKeys' = Append(weakKeys, [key |-> k, val |-> WrapVal(v)])
            BY <2>4 DEF SetWeakKey
        <3> QED
            BY <2>1, <2>2, <3>1, AppendProperties
    <2> QED
        BY <2>3, <2>4
<1> QED
    BY <1>1, <1>3, AssignedType DEF TypeOK

\* Every slot under the new mode is a slot.
LEMMA ConvertedTypes ==
    ASSUME TypeOK, NEW wv \in BOOLEAN
    PROVE  /\ \A i \in DOMAIN arr : Converted(arr[i], wv) \in Slots
           /\ \A k \in DOMAIN hash : Converted(hash[k], wv) \in Slots
BY PartTypes, SlotTypes

\* The entries that move to the weak list.
Moved(h) == {i \in DOMAIN keys : keys[i] \in Objects /\ h[keys[i]] # Nil}
MovedEntries(h, s) ==
    [i \in 1 .. Len(s) |-> [key |-> keys[s[i]], val |-> h[keys[s[i]]]]]

LEMMA ToWeakShape ==
    ASSUME TypeOK, DOMAIN hash = {keys[i] : i \in DOMAIN keys},
           NEW h \in [DOMAIN hash -> Slots], ToWeak(h)
    PROVE  \E s : /\ Lists(s, Moved(h))
                  /\ MovedEntries(h, s) \in Seq(Entries)
                  /\ Len(MovedEntries(h, s)) = Len(s)
                  /\ weakKeys' = weakKeys \o MovedEntries(h, s)
<1>1. PICK s \in Sorted(Moved(h)) : weakKeys' = weakKeys \o MovedEntries(h, s)
    BY DEF ToWeak, Moved, MovedEntries
<1>2. Len(keys) \in Nat /\ Moved(h) \subseteq 1 .. Len(keys)
    BY PartTypes DEF Moved
<1>3. IsFiniteSet(Moved(h)) /\ \A x \in Moved(h) : x \in Int
    BY <1>2, PlacesFinite
<1>4. Lists(s, Moved(h))
    BY <1>3, SortedLists
<1>5. \A i \in 1 .. Len(s) : [key |-> keys[s[i]], val |-> h[keys[s[i]]]] \in Entries
    <2>1. \A x \in Moved(h) : keys[x] \in Objects /\ keys[x] \in DOMAIN hash
        BY DEF Moved
    <2>2. \A i \in 1 .. Len(s) : s[i] \in Moved(h)
        BY <1>4 DEF Lists
    <2> QED
        BY <2>1, <2>2 DEF Entries
<1>6. MovedEntries(h, s) \in [1 .. Len(s) -> Entries] /\ Len(s) \in Nat
    BY <1>4, <1>5 DEF MovedEntries, Lists
<1>7. MovedEntries(h, s) \in Seq(Entries) /\ Len(MovedEntries(h, s)) = Len(s)
    BY <1>6, FunctionIsSeq
<1> QED
    BY <1>1, <1>4, <1>7

\* The entries that move back to the hash part.
Back(i) == weakKeys[i].key \in alive /\ Deref(weakKeys[i].val) # Nil
New(h) == {i \in DOMAIN weakKeys : Back(i) /\ weakKeys[i].key \notin DOMAIN h}
NewKeys(s) == [i \in 1 .. Len(s) |-> weakKeys[s[i]].key]

\* An entry that stays in the hash part, and one that returns to it.
Kept(h, k) ==
    /\ k \in DOMAIN hash /\ hash'[k] = h[k]
    /\ \A i \in DOMAIN weakKeys : Back(i) => weakKeys[i].key # k
Stored(wv, i) ==
    IF wv THEN MkWeak(Deref(weakKeys[i].val)) ELSE Deref(weakKeys[i].val)
Returned(wv, k) ==
    \E i \in DOMAIN weakKeys :
        Back(i) /\ weakKeys[i].key = k /\ hash'[k] = Stored(wv, i)

LEMMA ToStrongShape ==
    ASSUME TypeOK, NEW h \in [DOMAIN hash -> Slots], NEW wv \in BOOLEAN,
           ToStrong(h, wv)
    PROVE  /\ \E s : /\ Lists(s, New(h))
                     /\ NewKeys(s) \in Seq(Keys) /\ Len(NewKeys(s)) = Len(s)
                     /\ keys' = keys \o NewKeys(s)
           /\ DOMAIN hash' = DOMAIN hash \cup {weakKeys[i].key : i \in New(h)}
           /\ \A k \in DOMAIN hash' : Kept(h, k) \/ Returned(wv, k)
           /\ weakKeys' = <<>>
<1>1. PICK s \in Sorted(New(h)) : keys' = keys \o NewKeys(s)
    BY DEF ToStrong, New, Back, NewKeys
<1>2. Len(weakKeys) \in Nat /\ New(h) \subseteq 1 .. Len(weakKeys)
    BY PartTypes DEF New
<1>3. IsFiniteSet(New(h)) /\ \A x \in New(h) : x \in Int
    BY <1>2, PlacesFinite
<1>4. Lists(s, New(h))
    BY <1>3, SortedLists
<1>5. \A x \in New(h) : weakKeys[x].key \in Keys
    BY DEF New, Back, TypeOK, Keys
<1>6. NewKeys(s) \in [1 .. Len(s) -> Keys] /\ Len(s) \in Nat
    BY <1>4, <1>5 DEF NewKeys, Lists
<1>7. NewKeys(s) \in Seq(Keys) /\ Len(NewKeys(s)) = Len(s)
    BY <1>6, FunctionIsSeq
<1> DEFINE live == {i \in DOMAIN weakKeys : Back(i)}
           from(k) == {i \in live : weakKeys[i].key = k}
<1>8. hash' = [k \in DOMAIN h \cup {weakKeys[i].key : i \in New(h)} |->
                   IF from(k) = {} THEN h[k] ELSE Stored(wv, Min(from(k)))]
    BY DEF ToStrong, New, Back, Stored
<1>9. DOMAIN hash' = DOMAIN hash \cup {weakKeys[i].key : i \in New(h)}
    BY <1>8
<1>10. ASSUME NEW k \in DOMAIN hash', from(k) = {}
       PROVE  Kept(h, k)
    BY <1>8, <1>9, <1>10 DEF New, Kept
<1>11. ASSUME NEW k \in DOMAIN hash', from(k) # {}
       PROVE  Returned(wv, k)
    <2>1. from(k) \in SUBSET Nat
        BY <1>2, PartTypes
    <2>2. Min(from(k)) \in from(k)
        BY <1>11, <2>1, MinPlace
    <2>3. hash'[k] = Stored(wv, Min(from(k)))
        BY <1>8, <1>9, <1>11
    <2> QED
        BY <2>2, <2>3 DEF Returned
<1>12. weakKeys' = <<>>
    BY DEF ToStrong
<1> QED
    BY <1>1, <1>4, <1>7, <1>9, <1>10, <1>11, <1>12

\* The parts of the table under a new mode.
NewHash(wv) == [k \in DOMAIN hash |-> Converted(hash[k], wv)]

LEMMA SetModeParts ==
    ASSUME TypeOK, NEW wk \in BOOLEAN, NEW wv \in BOOLEAN, SetMode(wk, wv)
    PROVE  /\ NewHash(wv) \in [DOMAIN hash -> Slots]
           /\ \/ wk = weakk /\ hash' = NewHash(wv) /\ UNCHANGED <<keys, weakKeys>>
              \/ wk /\ ~weakk /\ ToWeak(NewHash(wv))
              \/ ~wk /\ weakk /\ ToStrong(NewHash(wv), wv)
           /\ arr' \in Seq(Slots) /\ DOMAIN arr' = DOMAIN arr /\ Len(arr') = Len(arr)
           /\ \A i \in DOMAIN arr : arr'[i] = Converted(arr[i], wv)
           /\ weakk' = wk /\ weakv' = wv
<1>1. \A i \in DOMAIN arr : Converted(arr[i], wv) \in Slots
    BY ConvertedTypes
<1>2. NewHash(wv) \in [DOMAIN hash -> Slots]
    BY ConvertedTypes DEF NewHash
<1>3. arr' = [i \in DOMAIN arr |-> Converted(arr[i], wv)]
    BY DEF SetMode
<1>4. Len(arr) \in Nat /\ DOMAIN arr = 1 .. Len(arr)
    BY PartTypes
<1>5. arr' \in [1 .. Len(arr) -> Slots]
    BY <1>1, <1>3, <1>4
<1>6. arr' \in Seq(Slots) /\ Len(arr') = Len(arr) /\ DOMAIN arr' = 1 .. Len(arr)
    BY <1>4, <1>5, FunctionIsSeq
<1>7. \/ wk = weakk /\ hash' = NewHash(wv) /\ UNCHANGED <<keys, weakKeys>>
      \/ wk /\ ~weakk /\ ToWeak(NewHash(wv))
      \/ ~wk /\ weakk /\ ToStrong(NewHash(wv), wv)
    BY DEF SetMode, NewHash
<1> QED
    BY <1>2, <1>3, <1>4, <1>6, <1>7 DEF SetMode

LEMMA SetModeType ==
    ASSUME TypeOK, OneSlotPerKey,
           NEW wk \in BOOLEAN, NEW wv \in BOOLEAN, SetMode(wk, wv)
    PROVE  TypeOK'
<1> DEFINE h == NewHash(wv)
<1>1. /\ h \in [DOMAIN hash -> Slots]
      /\ \/ wk = weakk /\ hash' = h /\ UNCHANGED <<keys, weakKeys>>
         \/ wk /\ ~weakk /\ ToWeak(h)
         \/ ~wk /\ weakk /\ ToStrong(h, wv)
      /\ arr' \in Seq(Slots) /\ DOMAIN arr' = DOMAIN arr
    BY SetModeParts
<1> HIDE DEF h
<1>2. /\ DOMAIN hash' \subseteq Keys /\ hash' \in [DOMAIN hash' -> Slots]
      /\ keys' \in Seq(Keys) /\ weakKeys' \in Seq(Entries)
    <2>1. CASE hash' = h /\ UNCHANGED <<keys, weakKeys>>
        BY <1>1, <2>1 DEF TypeOK
    <2>2. CASE ToWeak(h)
        <3>1. weakKeys' \in Seq(Entries)
            <4>1. DOMAIN hash = {keys[i] : i \in DOMAIN keys}
                BY SMTT(30) DEF OneSlotPerKey, KeysListHash
            <4>2. PICK s : /\ MovedEntries(h, s) \in Seq(Entries)
                           /\ weakKeys' = weakKeys \o MovedEntries(h, s)
                BY <1>1, <2>2, <4>1, ToWeakShape, SMTT(30)
            <4> QED
                BY <4>2, ConcatProperties DEF TypeOK
        <3>2. DOMAIN hash' = DOMAIN hash /\ hash' \in [DOMAIN hash -> Slots]
            BY <1>1, <2>2 DEF ToWeak, DropMigrated, HashDel, Slots
        <3> QED
            BY <2>2, <3>1, <3>2 DEF TypeOK, ToWeak
    <2>3. CASE ToStrong(h, wv)
        <3>1. PICK s : /\ NewKeys(s) \in Seq(Keys)
                       /\ keys' = keys \o NewKeys(s)
            BY <1>1, <2>3, ToStrongShape
        <3>2. keys' \in Seq(Keys)
            BY <3>1, ConcatProperties DEF TypeOK
        <3>3. weakKeys' \in Seq(Entries)
            BY <1>1, <2>3, ToStrongShape, EmptySeq
        <3>4. DOMAIN hash' = DOMAIN hash \cup {weakKeys[i].key : i \in New(h)}
            BY <1>1, <2>3, ToStrongShape
        <3>5. DOMAIN hash' \subseteq Keys
            BY <3>4 DEF New, Back, TypeOK, Keys
        <3>6. \A i \in DOMAIN weakKeys : /\ Deref(weakKeys[i].val) \in Slots
                                         /\ MkWeak(Deref(weakKeys[i].val)) \in Slots
            BY PartTypes, SlotTypes DEF Readable, Slots
        <3>7. \A k \in DOMAIN hash' : hash'[k] \in Slots
            <4> TAKE k \in DOMAIN hash'
            <4>1. Kept(h, k) \/ Returned(wv, k)
                BY <1>1, <2>3, ToStrongShape
            <4> QED
                BY <1>1, <3>6, <4>1 DEF Kept, Returned, Stored
        <3>8. hash' \in [DOMAIN hash' -> Slots]
            <4>1. hash' = [k \in DOMAIN hash' |-> hash'[k]]
                BY <2>3 DEF ToStrong
            <4> QED
                BY <3>7, <4>1
        <3> QED
            BY <3>2, <3>3, <3>5, <3>8
    <2> QED
        BY <1>1, <2>1, <2>2, <2>3
<1> QED
    BY <1>1, <1>2 DEF SetMode, LoopForgotten, TypeOK

\* next returns a key, or nothing, or fails.
LEMMA NextKeyType ==
    ASSUME TypeOK
    PROVE  NextKey(cursor) \in Keys \cup {Nil, NotFound}
<1>1. \A p \in Nat : FirstWeak(p) \in Keys \cup {Nil}
    <2> TAKE p \in Nat
    <2> DEFINE live == {i \in p + 1 .. Len(weakKeys) :
                           /\ weakKeys[i].key \in alive
                           /\ Deref(weakKeys[i].val) # Nil}
    <2>1. live \in SUBSET Nat
        BY PartTypes
    <2>2. live # {} => weakKeys[Min(live)].key \in alive
        BY <2>1, MinPlace
    <2> QED
        BY <2>2 DEF FirstWeak, TypeOK, Keys
<1>2. \A p \in Nat : FirstHash(p) \in Keys \cup {Nil}
    <2> TAKE p \in Nat
    <2> DEFINE live == {i \in p + 1 .. Len(keys) : Deref(hash[keys[i]]) # Nil}
    <2>1. live \in SUBSET Nat /\ live \subseteq DOMAIN keys
        BY PartTypes
    <2>2. live # {} => Min(live) \in live
        BY <2>1, MinPlace
    <2>3. live # {} => keys[Min(live)] \in Keys
        BY <2>1, <2>2, PartTypes
    <2> QED
        BY <1>1, <2>3 DEF FirstHash
<1>3. \A p \in Nat : FirstArray(p) \in Keys \cup {Nil}
    <2> TAKE p \in Nat
    <2> DEFINE live == {i \in p + 1 .. Len(arr) : Deref(arr[i]) # Nil}
    <2>1. live \in SUBSET Nat /\ live \subseteq DOMAIN arr
        BY PartTypes
    <2>2. live # {} => Min(live) \in live
        BY <2>1, MinPlace
    <2>3. live # {} => Min(live) \in Keys
        BY <2>1, <2>2 DEF TypeOK, Keys
    <2> QED
        BY <1>2, <2>3 DEF FirstArray
<1>4. WeakSlots(cursor) # {} => WeakIndex(cursor) \in Nat
    BY ReadTypes, PartTypes DEF WeakSlots
<1>5. cursor \in DOMAIN arr => cursor \in Nat
    BY PartTypes
<1>6. Places(cursor) # {} => Min(Places(cursor)) \in Nat
    <2>1. Places(cursor) \in SUBSET Nat
        BY PartTypes DEF Places
    <2> QED
        BY <2>1, MinPlace
<1> QED
    BY <1>1, <1>2, <1>3, <1>4, <1>5, <1>6 DEF NextKey

\* Every step keeps the types.
LEMMA TypeStep ==
    ASSUME TypeOK, OneSlotPerKey, [Next]_vars
    PROVE  TypeOK'
<1>1. ASSUME NEW w \in Keys \cup Floats, Get(w)
      PROVE  TypeOK'
    BY <1>1, GetType
<1>2. ASSUME NEW w \in Keys \cup Floats, NEW v \in Values \cup {Nil}, Set(w, v)
      PROVE  TypeOK'
    <2>1. NormKey(w) \in Keys /\ v \in Readable
        BY NormKeyType DEF Readable
    <2> QED
        BY <1>2, <2>1, SetArrayType, SetHashType, SetWeakKeyType, AppendArrayType
        DEF Set
<1>3. ASSUME NEW wk \in BOOLEAN, NEW wv \in BOOLEAN, SetMode(wk, wv)
      PROVE  TypeOK'
    BY <1>3, SetModeType
<1>4. CASE Walk
    <2>1. cursor' \in Keys
        BY <1>4, NextKeyType DEF Walk
    <2>2. seen' = seen \cup {cursor'} /\ due' \subseteq Keys /\ held' \subseteq Objects
        BY <1>4 DEF Walk, Live, TypeOK
    <2> QED
        BY <1>4, <2>1, <2>2 DEF Walk, TypeOK, fields
<1>5. CASE WalkEnds
    BY <1>5 DEF WalkEnds, LoopForgotten, TypeOK, fields
<1>6. CASE LengthStart
    <2>1. search' \in [lo : Nat, hi : Nat]
        BY <1>6, PartTypes DEF LengthStart
    <2> QED
        BY <1>6, <2>1 DEF LengthStart, TypeOK, fields, loop
<1>7. CASE LengthStep
    <2>1. search \in [lo : Nat, hi : Nat]
        BY DEF TypeOK
    <2>2. (search.lo + search.hi) \div 2 \in Nat
        BY <2>1
    <2>3. search' \in [lo : Nat, hi : Nat]
        BY <1>7, <2>1, <2>2 DEF LengthStep, Half
    <2> QED
        BY <1>7, <2>3 DEF LengthStep, TypeOK, fields, loop
<1>8. CASE LengthEnd
    BY <1>8 DEF LengthEnd, NoSearch, TypeOK, fields, loop
<1>9. ASSUME NEW o \in Objects, Drop(o)
      PROVE  TypeOK'
    BY <1>9 DEF Drop, TypeOK, fields, loop
<1>10. ASSUME NEW o \in Objects, Collect(o)
       PROVE  TypeOK'
    BY <1>10 DEF Collect, TypeOK, fields
<1>11. CASE UNCHANGED vars
    BY <1>11 DEF vars, TypeOK, fields, loop
<1> QED
    BY <1>1, <1>2, <1>3, <1>4, <1>5, <1>6, <1>7, <1>8, <1>9, <1>10, <1>11 DEF Next

-----------------------------------------------------------------------------
(* One slot per key. *)

\* Deleting entries of the hash part keeps the layout.
LEMMA HashDelLayout ==
    ASSUME TypeOK, OneSlotPerKey, NEW S
    PROVE  /\ DOMAIN HashDel(hash, S) = DOMAIN hash
           /\ \A k \in DOMAIN hash : HashDel(hash, S)[k] \in {hash[k], Nil}
           /\ \A k \in DOMAIN hash \cap S : HashDel(hash, S)[k] = Nil
BY DEF HashDel

\* An unchanged weak list has no more live slots than before.
LEMMA SameWeakList ==
    ASSUME WeakListOnce, UNCHANGED weakKeys, alive' \subseteq alive
    PROVE  WeakListOnce'
<1>1. \A o : WeakSlots(o)' \subseteq WeakSlots(o)
    BY DEF WeakSlots
<1> QED
    BY <1>1 DEF WeakListOnce

LEMMA GetLayout ==
    ASSUME TypeOK, OneSlotPerKey, NEW w \in Keys \cup Floats, Get(w)
    PROVE  OneSlotPerKey'
<1> DEFINE k == NormKey(w)
<1>1. arr' = arr \/ arr' = [arr EXCEPT ![k] = Nil]
    BY DEF Get
<1>2. Len(arr') = Len(arr)
    <2>1. CASE arr' = [arr EXCEPT ![k] = Nil] /\ k \in DOMAIN arr
        BY <2>1, PartTypes, ExceptSeq DEF TypeOK, Slots
    <2> QED
        BY <2>1 DEF Get
<1>3. DOMAIN hash' = DOMAIN hash /\ \A j \in DOMAIN hash : hash'[j] \in {hash[j], Nil}
    BY DEF Get
<1>4. UNCHANGED <<keys, weakKeys, weakk, alive>>
    BY DEF Get
<1>5. KeysListHash'
    BY <1>3, <1>4 DEF OneSlotPerKey, KeysListHash
<1>6. NothingHidden'
    BY <1>2, <1>3 DEF OneSlotPerKey, NothingHidden
<1>7. WeakKeysMoved'
    BY <1>3, <1>4 DEF OneSlotPerKey, WeakKeysMoved
<1> QED
    BY <1>4, <1>5, <1>6, <1>7, SameWeakList DEF OneSlotPerKey

LEMMA SetArrayLayout ==
    ASSUME TypeOK, OneSlotPerKey, NEW k \in Keys, NEW v \in Readable, SetArray(k, v)
    PROVE  OneSlotPerKey'
<1>1. k \in 1 .. Len(arr) /\ arr \in Seq(Slots) /\ WrapVal(v) \in Slots
    BY PartTypes, AssignedType DEF SetArray, TypeOK
<1>2. Len(arr') = Len(arr)
    BY <1>1, ExceptSeq DEF SetArray
<1>3. UNCHANGED <<hash, keys, weakKeys, weakk, alive>>
    BY DEF SetArray, Assigned
<1> QED
    BY <1>2, <1>3, SameWeakList
    DEF OneSlotPerKey, KeysListHash, NothingHidden, WeakKeysMoved

LEMMA AppendArrayLayout ==
    ASSUME TypeOK, OneSlotPerKey, NEW k \in Keys, NEW v \in Readable,
           NEW m \in Indexes, AppendArray(k, v, m)
    PROVE  OneSlotPerKey'
<1>1. k = Len(arr) + 1 /\ m \in Nat /\ m >= k /\ Len(arr') = m /\ Len(arr) \in Nat
    BY AppendShape, PartTypes
<1>2. UNCHANGED <<keys, weakKeys, weakk, alive>> /\ hash' = HashDel(hash, k + 1 .. m)
    BY DEF AppendArray, Assigned
<1>3. /\ DOMAIN hash' = DOMAIN hash
      /\ \A j \in DOMAIN hash : hash'[j] \in {hash[j], Nil}
      /\ \A j \in DOMAIN hash \cap (k + 1 .. m) : hash'[j] = Nil
    BY <1>2, HashDelLayout
<1>4. HashVal(m + 1) = Nil
    BY DEF AppendArray, Absorbs
<1>5. KeysListHash'
    BY <1>2, <1>3 DEF OneSlotPerKey, KeysListHash
<1>6. NothingHidden'
    <2> SUFFICES ASSUME NEW j \in DOMAIN hash, j \in 1 .. m + 1
                 PROVE  hash'[j] = Nil
        BY <1>1, <1>3 DEF NothingHidden
    <2>1. CASE j \in 1 .. Len(arr) + 1
        BY <1>3, <2>1 DEF OneSlotPerKey, NothingHidden
    <2>2. CASE j \in k + 1 .. m
        BY <1>3, <2>2
    <2>3. CASE j = m + 1
        BY <1>3, <1>4, <2>3 DEF HashVal
    <2> QED
        BY <1>1, <2>1, <2>2, <2>3
<1>7. WeakKeysMoved'
    BY <1>2, <1>3 DEF OneSlotPerKey, WeakKeysMoved
<1> QED
    BY <1>2, <1>5, <1>6, <1>7, SameWeakList DEF OneSlotPerKey

LEMMA SetHashLayout ==
    ASSUME TypeOK, OneSlotPerKey, NEW k \in Keys, NEW v \in Readable, SetHash(k, v)
    PROVE  OneSlotPerKey'
<1>1. /\ UNCHANGED <<arr, weakKeys, weakk, alive>>
      /\ k \notin DOMAIN arr /\ (k = Len(arr) + 1 => v = Nil)
      /\ weakk => k \notin Objects
    BY DEF SetHash, Assigned, InWeakList
<1>2. Len(arr) \in Nat /\ DOMAIN arr = 1 .. Len(arr)
    BY PartTypes
<1>3. CASE v = Nil
    <2>1. keys' = keys /\ hash' = HashDel(hash, {k})
        BY <1>3 DEF SetHash
    <2>2. DOMAIN hash' = DOMAIN hash /\ \A j \in DOMAIN hash : hash'[j] \in {hash[j], Nil}
        BY <2>1, HashDelLayout
    <2>3. WeakListOnce'
        BY <1>1, SameWeakList DEF OneSlotPerKey
    <2>4. KeysListHash' /\ NothingHidden'
        BY <1>1, <2>1, <2>2, ZenonT(60) DEF OneSlotPerKey, KeysListHash, NothingHidden
    <2>5. WeakKeysMoved'
        BY <1>1, <2>2 DEF OneSlotPerKey, WeakKeysMoved
    <2> QED
        BY <2>3, <2>4, <2>5 DEF OneSlotPerKey
<1>4. CASE v # Nil
    <2>1. /\ keys' = AddKey(k)
          /\ DOMAIN hash' = DOMAIN hash \cup {k}
          /\ \A j \in DOMAIN hash : j # k => hash'[j] = hash[j]
        BY <1>4 DEF SetHash
    <2>2. KeysListHash'
        <3>1. CASE k \in DOMAIN hash
            BY <2>1, <3>1 DEF AddKey, OneSlotPerKey, KeysListHash
        <3>2. CASE k \notin DOMAIN hash
            <4>1. keys' = Append(keys, k) /\ keys \in Seq(Keys)
                BY <2>1, <3>2 DEF AddKey, TypeOK
            <4>2. /\ Len(keys) \in Nat /\ DOMAIN keys = 1 .. Len(keys)
                  /\ DOMAIN keys' = 1 .. Len(keys) + 1
                  /\ \A i \in 1 .. Len(keys) : keys'[i] = keys[i]
                  /\ keys'[Len(keys) + 1] = k
                BY <4>1, AppendProperties, LenProperties
            <4>3. \A i \in 1 .. Len(keys) : keys[i] # k
                BY <3>2, <4>2 DEF OneSlotPerKey, KeysListHash
            <4>4. \A i, j \in DOMAIN keys' : keys'[i] = keys'[j] => i = j
                BY <4>2, <4>3 DEF OneSlotPerKey, KeysListHash
            <4>5. DOMAIN hash' = {keys'[i] : i \in DOMAIN keys'}
                BY <2>1, <4>2 DEF OneSlotPerKey, KeysListHash
            <4> QED
                BY <4>4, <4>5 DEF KeysListHash
        <3> QED
            BY <3>1, <3>2
    <2>3. NothingHidden'
        <3>1. k \notin 1 .. Len(arr) + 1
            BY <1>1, <1>2, <1>4
        <3> QED
            BY <1>1, <2>1, <3>1 DEF OneSlotPerKey, NothingHidden
    <2>4. WeakKeysMoved'
        BY <1>1, <2>1 DEF OneSlotPerKey, WeakKeysMoved
    <2> QED
        BY <1>1, <2>2, <2>3, <2>4, SameWeakList DEF OneSlotPerKey
<1> QED
    BY <1>3, <1>4

\* What an assignment does to the weak list: it changes the key's entry, or
\* appends one if the key has none.
Replaced(k, v) ==
    /\ WeakSlots(k) # {}
    /\ \A j \in DOMAIN weakKeys : weakKeys'[j] =
          IF j = WeakIndex(k)
          THEN [key |-> IF v = Nil THEN Nil ELSE k, val |-> WrapVal(v)]
          ELSE weakKeys[j]
    /\ DOMAIN weakKeys' = DOMAIN weakKeys
Appended(k, v) ==
    /\ WeakSlots(k) = {} /\ v # Nil
    /\ DOMAIN weakKeys' = 1 .. Len(weakKeys) + 1
    /\ \A j \in DOMAIN weakKeys : weakKeys'[j] = weakKeys[j]
    /\ weakKeys'[Len(weakKeys) + 1] = [key |-> k, val |-> WrapVal(v)]

LEMMA SetWeakKeyShape ==
    ASSUME TypeOK, NEW k \in Keys, NEW v \in Readable, SetWeakKey(k, v)
    PROVE  \/ Replaced(k, v) \/ Appended(k, v)
           \/ WeakSlots(k) = {} /\ v = Nil /\ UNCHANGED weakKeys
<1>1. Len(weakKeys) \in Nat /\ DOMAIN weakKeys = 1 .. Len(weakKeys)
      /\ weakKeys \in Seq(Entries)
    BY PartTypes DEF TypeOK
<1>2. CASE WeakSlots(k) # {}
    <2>1. weakKeys' = [weakKeys EXCEPT ![WeakIndex(k)] =
                 [key |-> IF v = Nil THEN Nil ELSE k, val |-> WrapVal(v)]]
        BY <1>2 DEF SetWeakKey
    <2> QED
        BY <1>2, <2>1 DEF Replaced
<1>3. CASE WeakSlots(k) = {} /\ v # Nil
    <2> DEFINE e == [key |-> k, val |-> WrapVal(v)]
    <2>1. weakKeys' = Append(weakKeys, e)
        BY <1>3 DEF SetWeakKey
    <2>2. WrapVal(v) \in Slots /\ k \in Objects
        BY AssignedType DEF SetWeakKey, InWeakList
    <2>3. e \in Entries
        BY <2>2 DEF Entries
    <2> HIDE DEF e
    <2>4. /\ weakKeys' \in Seq(Entries) /\ Len(weakKeys') = Len(weakKeys) + 1
          /\ \A j \in 1 .. Len(weakKeys) : weakKeys'[j] = weakKeys[j]
          /\ weakKeys'[Len(weakKeys) + 1] = e
        BY <1>1, <2>1, <2>3, AppendProperties
    <2>5. DOMAIN weakKeys' = 1 .. Len(weakKeys) + 1
        BY <1>1, <2>4, LenProperties
    <2> QED
        BY <1>1, <1>3, <2>4, <2>5 DEF Appended, e
<1>4. CASE WeakSlots(k) = {} /\ v = Nil
    BY <1>4 DEF SetWeakKey
<1> QED
    BY <1>2, <1>3, <1>4

LEMMA SetWeakKeyLayout ==
    ASSUME TypeOK, OneSlotPerKey, NEW k \in Keys, NEW v \in Readable, SetWeakKey(k, v)
    PROVE  OneSlotPerKey'
<1>1. UNCHANGED <<arr, hash, keys, weakk, alive>> /\ weakk /\ k \in Objects
    BY DEF SetWeakKey, Assigned, InWeakList
<1>2. KeysListHash' /\ NothingHidden' /\ WeakKeysMoved'
    BY <1>1 DEF OneSlotPerKey, KeysListHash, NothingHidden, WeakKeysMoved
<1>3. WeakListOnce'
    <2>1. CASE Replaced(k, v)
        <3>1. WeakIndex(k) \in WeakSlots(k)
            BY <2>1, ReadTypes DEF Replaced
        <3>2. \A o \in Objects : WeakSlots(o)' \subseteq WeakSlots(o)
            BY <1>1, <2>1, <3>1, NilAssumption DEF Replaced, WeakSlots, Values
        <3> QED
            BY <3>2 DEF OneSlotPerKey, WeakListOnce
    <2>2. CASE Appended(k, v)
        <3>1. Len(weakKeys) \in Nat /\ DOMAIN weakKeys = 1 .. Len(weakKeys)
            BY PartTypes
        <3>2. \A o \in Objects \ {k} : WeakSlots(o)' \subseteq WeakSlots(o)
            BY <1>1, <2>2, <3>1 DEF Appended, WeakSlots
        <3>3. WeakSlots(k)' \subseteq {Len(weakKeys) + 1}
            BY <1>1, <2>2, <3>1 DEF Appended, WeakSlots
        <3> QED
            BY <3>2, <3>3 DEF OneSlotPerKey, WeakListOnce
    <2>3. CASE UNCHANGED weakKeys
        BY <1>1, <2>3, SameWeakList DEF OneSlotPerKey
    <2> QED
        BY <2>1, <2>2, <2>3, SetWeakKeyShape
<1> QED
    BY <1>2, <1>3 DEF OneSlotPerKey

\* A dead node stays dead under a new mode.
LEMMA NewHashDead ==
    ASSUME NEW wv \in BOOLEAN
    PROVE  \A k \in DOMAIN hash : hash[k] = Nil => NewHash(wv)[k] = Nil
BY NilSlot DEF NewHash

LEMMA SetModeLayout ==
    ASSUME TypeOK, OneSlotPerKey,
           NEW wk \in BOOLEAN, NEW wv \in BOOLEAN, SetMode(wk, wv)
    PROVE  OneSlotPerKey'
<1> DEFINE h == NewHash(wv)
<1>1. /\ h \in [DOMAIN hash -> Slots]
      /\ \/ wk = weakk /\ hash' = h /\ UNCHANGED <<keys, weakKeys>>
         \/ wk /\ ~weakk /\ ToWeak(h)
         \/ ~wk /\ weakk /\ ToStrong(h, wv)
      /\ Len(arr') = Len(arr) /\ weakk' = wk
    BY SetModeParts
<1>2. alive' = alive /\ Len(arr) \in Nat
    BY PartTypes DEF SetMode
<1>3. \A k \in DOMAIN hash : hash[k] = Nil => h[k] = Nil
    BY NewHashDead
<1>4. /\ \A i, j \in DOMAIN keys : keys[i] = keys[j] => i = j
      /\ DOMAIN hash = {keys[i] : i \in DOMAIN keys}
    BY DEF OneSlotPerKey, KeysListHash
<1> HIDE DEF h
<1>5. CASE wk = weakk /\ hash' = h /\ UNCHANGED <<keys, weakKeys>>
    <2>1. DOMAIN hash' = DOMAIN hash
        BY <1>1, <1>5
    <2>2. KeysListHash' /\ NothingHidden' /\ WeakKeysMoved'
        BY <1>1, <1>3, <1>5, <2>1
        DEF OneSlotPerKey, KeysListHash, NothingHidden, WeakKeysMoved
    <2> QED
        BY <1>2, <1>5, <2>2, SameWeakList DEF OneSlotPerKey
<1>6. CASE wk /\ ~weakk /\ ToWeak(h)
    <2>1. /\ DOMAIN hash' = DOMAIN hash /\ keys' = keys
          /\ \A k \in DOMAIN hash : hash'[k] \in {h[k], Nil}
          /\ \A i \in Moved(h) : hash'[keys[i]] = Nil
        BY <1>1, <1>4, <1>6 DEF ToWeak, DropMigrated, HashDel, Moved
    <2>2. KeysListHash' /\ NothingHidden'
        BY <1>1, <1>3, <2>1 DEF OneSlotPerKey, KeysListHash, NothingHidden
    <2>3. WeakKeysMoved'
        <3>1. \A o \in DOMAIN hash \cap Objects : hash'[o] = Nil
            BY <1>4, <2>1 DEF Moved
        <3> QED
            BY <1>1, <1>6, <2>1, <3>1 DEF WeakKeysMoved
    <2>4. PICK s : /\ Lists(s, Moved(h))
                   /\ MovedEntries(h, s) \in Seq(Entries)
                   /\ Len(MovedEntries(h, s)) = Len(s)
                   /\ weakKeys' = weakKeys \o MovedEntries(h, s)
        BY <1>1, <1>4, <1>6, ToWeakShape
    <2>5. weakKeys' = MovedEntries(h, s)
        BY <1>6, <2>4, ConcatEmptySeq DEF OneSlotPerKey, WeakKeysMoved
    <2>6. DOMAIN weakKeys' = 1 .. Len(s)
          /\ \A i \in 1 .. Len(s) : weakKeys'[i].key = keys[s[i]]
        BY <2>5 DEF MovedEntries
    <2>7. WeakListOnce'
        <3>1. \A i \in 1 .. Len(s) : s[i] \in DOMAIN keys
            BY <2>4 DEF Lists, Moved
        <3>2. \A i, j \in 1 .. Len(s) : s[i] = s[j] => i = j
            BY <2>4 DEF Lists
        <3>3. \A i, j \in DOMAIN weakKeys' :
                  weakKeys'[i].key = weakKeys'[j].key => i = j
            BY <1>4, <2>6, <3>1, <3>2
        <3> QED
            BY <3>3 DEF WeakListOnce, WeakSlots
    <2> QED
        BY <2>2, <2>3, <2>7, SMTT(30) DEF OneSlotPerKey
<1>7. CASE ~wk /\ weakk /\ ToStrong(h, wv)
    <2>1. PICK s : /\ Lists(s, New(h))
                   /\ NewKeys(s) \in Seq(Keys) /\ Len(NewKeys(s)) = Len(s)
                   /\ keys' = keys \o NewKeys(s)
        BY <1>1, <1>7, ToStrongShape
    <2>2. /\ DOMAIN hash' = DOMAIN hash \cup {weakKeys[i].key : i \in New(h)}
          /\ \A k \in DOMAIN hash' : Kept(h, k) \/ Returned(wv, k)
          /\ weakKeys' = <<>>
        BY <1>1, <1>7, ToStrongShape
    <2>3. /\ Len(s) \in Nat /\ Len(keys) \in Nat /\ DOMAIN keys = 1 .. Len(keys)
          /\ DOMAIN keys' = 1 .. Len(keys) + Len(s)
          /\ \A i \in 1 .. Len(keys) : keys'[i] = keys[i]
          /\ \A i \in 1 .. Len(s) : keys'[Len(keys) + i] = weakKeys[s[i]].key
        <3>1. keys \in Seq(Keys) /\ Len(keys) \in Nat /\ DOMAIN keys = 1 .. Len(keys)
            BY PartTypes DEF TypeOK
        <3>2. Len(s) \in Nat
            BY <2>1 DEF Lists
        <3>a. NewKeys(s) \in Seq(Keys) /\ Len(NewKeys(s)) = Len(s)
              /\ keys' = keys \o NewKeys(s)
            BY <2>1
        <3>b. keys' \in Seq(Keys) /\ Len(keys') = Len(keys) + Len(NewKeys(s))
            BY <3>1, <3>a, ConcatProperties
        <3>3. keys' \in Seq(Keys) /\ Len(keys') = Len(keys) + Len(s)
            BY <3>a, <3>b
        <3>4. DOMAIN keys' = 1 .. Len(keys) + Len(s)
            BY <3>3, LenProperties
        <3>5. \A i \in 1 .. Len(keys) + Len(s) : keys'[i] =
                  IF i <= Len(keys) THEN keys[i] ELSE NewKeys(s)[i - Len(keys)]
            BY <2>1, <3>1, ConcatProperties
        <3>6. \A i \in 1 .. Len(s) : keys'[Len(keys) + i] = NewKeys(s)[i]
            BY <3>1, <3>2, <3>5
        <3>7. \A i \in 1 .. Len(keys) : keys'[i] = keys[i]
            BY <3>1, <3>2, <3>5
        <3> QED
            BY <3>1, <3>2, <3>4, <3>6, <3>7 DEF NewKeys
    <2>4. \A i \in 1 .. Len(s) : /\ s[i] \in DOMAIN weakKeys
                                 /\ weakKeys[s[i]].key \in alive
                                 /\ weakKeys[s[i]].key \notin DOMAIN hash
        BY <1>1, <2>1 DEF Lists, New, Back
    <2>5. \A i, j \in 1 .. Len(s) : weakKeys[s[i]].key = weakKeys[s[j]].key => i = j
        <3> TAKE i, j \in 1 .. Len(s)
        <3> HAVE weakKeys[s[i]].key = weakKeys[s[j]].key
        <3>1. s[i] \in WeakSlots(weakKeys[s[i]].key)
              /\ s[j] \in WeakSlots(weakKeys[s[i]].key)
            BY <2>4 DEF WeakSlots
        <3>2. weakKeys[s[i]].key \in Objects
            BY <2>4 DEF TypeOK
        <3>3. s[i] = s[j]
            BY <3>1, <3>2 DEF OneSlotPerKey, WeakListOnce
        <3> QED
            BY <2>1, <3>3 DEF Lists
    <2>6. KeysListHash'
        <3>1. ASSUME NEW i \in DOMAIN keys', NEW j \in DOMAIN keys', keys'[i] = keys'[j]
              PROVE  i = j
            <4>1. \A x \in 1 .. Len(keys) : keys'[x] \in DOMAIN hash
                BY <1>4, <2>3
            <4>2. \A x \in 1 .. Len(keys) + Len(s) : x > Len(keys) =>
                     \E y \in 1 .. Len(s) : x = Len(keys) + y
                <5> TAKE x \in 1 .. Len(keys) + Len(s)
                <5> HAVE x > Len(keys)
                <5>1. x - Len(keys) \in 1 .. Len(s) /\ x = Len(keys) + (x - Len(keys))
                    BY <2>3
                <5> QED
                    BY <5>1
            <4>3. CASE i <= Len(keys) /\ j <= Len(keys)
                BY <1>4, <2>3, <3>1, <4>3
            <4>4. CASE i <= Len(keys) /\ j > Len(keys)
                <5>1. PICK y \in 1 .. Len(s) : j = Len(keys) + y
                    BY <2>3, <4>2, <4>4
                <5>2. keys'[j] \notin DOMAIN hash
                    BY <2>3, <2>4, <5>1
                <5> QED
                    BY <2>3, <3>1, <4>1, <4>4, <5>2
            <4>5. CASE i > Len(keys) /\ j <= Len(keys)
                <5>1. PICK y \in 1 .. Len(s) : i = Len(keys) + y
                    BY <2>3, <4>2, <4>5
                <5>2. keys'[i] \notin DOMAIN hash
                    BY <2>3, <2>4, <5>1
                <5> QED
                    BY <2>3, <3>1, <4>1, <4>5, <5>2
            <4>6. CASE i > Len(keys) /\ j > Len(keys)
                <5>1. PICK x \in 1 .. Len(s) : i = Len(keys) + x
                    BY <2>3, <4>2, <4>6
                <5>2. PICK y \in 1 .. Len(s) : j = Len(keys) + y
                    BY <2>3, <4>2, <4>6
                <5>3. weakKeys[s[x]].key = weakKeys[s[y]].key
                    BY <2>3, <3>1, <5>1, <5>2
                <5> QED
                    BY <2>5, <5>1, <5>2, <5>3
            <4> QED
                BY <2>3, <4>3, <4>4, <4>5, <4>6
        <3>2. DOMAIN hash' \subseteq {keys'[i] : i \in DOMAIN keys'}
            <4>1. \A k \in DOMAIN hash : \E i \in DOMAIN keys' : keys'[i] = k
                BY <1>4, <2>3
            <4>2. \A x \in New(h) : \E i \in DOMAIN keys' : keys'[i] = weakKeys[x].key
                <5> TAKE x \in New(h)
                <5>1. PICK y \in 1 .. Len(s) : s[y] = x
                    BY <2>1 DEF Lists
                <5>2. Len(keys) + y \in DOMAIN keys' /\ keys'[Len(keys) + y] = weakKeys[x].key
                    BY <2>3, <5>1
                <5> QED
                    BY <5>2
            <4> QED
                BY <2>2, <4>1, <4>2
        <3>3. \A i \in DOMAIN keys' : keys'[i] \in DOMAIN hash'
            <4> TAKE i \in DOMAIN keys'
            <4>1. CASE i <= Len(keys)
                BY <1>4, <2>2, <2>3, <4>1
            <4>2. CASE i > Len(keys)
                <5>1. i - Len(keys) \in 1 .. Len(s) /\ i = Len(keys) + (i - Len(keys))
                    BY <2>3, <4>2
                <5>2. PICK y \in 1 .. Len(s) : i = Len(keys) + y
                    BY <5>1
                <5>3. s[y] \in New(h) /\ keys'[i] = weakKeys[s[y]].key
                    BY <2>1, <2>3, <5>2 DEF Lists
                <5> QED
                    BY <2>2, <5>3
            <4> QED
                BY <2>3, <4>1, <4>2
        <3> QED
            BY <3>1, <3>2, <3>3 DEF KeysListHash
    <2>7. NothingHidden'
        <3> SUFFICES ASSUME NEW k \in DOMAIN hash', k \in 1 .. Len(arr) + 1
                     PROVE  hash'[k] = Nil
            BY <1>1 DEF NothingHidden
        <3>1. k \notin alive
            BY <1>2, KeyAssumption DEF TypeOK
        <3>2. Kept(h, k)
            BY <2>2, <3>1 DEF Returned, Back
        <3> QED
            BY <1>3, <3>2 DEF Kept, OneSlotPerKey, NothingHidden
    <2>8. WeakKeysMoved'
        BY <1>1, <1>7, <2>2 DEF WeakKeysMoved
    <2>9. WeakListOnce'
        BY <2>2 DEF WeakListOnce, WeakSlots
    <2> QED
        BY <2>6, <2>7, <2>8, <2>9 DEF OneSlotPerKey
<1> QED
    BY <1>1, <1>5, <1>6, <1>7

\* Every step keeps one slot per key.
LEMMA LayoutStep ==
    ASSUME TypeOK, OneSlotPerKey, [Next]_vars
    PROVE  OneSlotPerKey'
<1>1. ASSUME NEW w \in Keys \cup Floats, Get(w)
      PROVE  OneSlotPerKey'
    BY <1>1, GetLayout
<1>2. ASSUME NEW w \in Keys \cup Floats, NEW v \in Values \cup {Nil}, Set(w, v)
      PROVE  OneSlotPerKey'
    <2>1. NormKey(w) \in Keys /\ v \in Readable
        BY NormKeyType DEF Readable
    <2> QED
        BY <1>2, <2>1, SetArrayLayout, SetHashLayout, SetWeakKeyLayout,
           AppendArrayLayout DEF Set
<1>3. ASSUME NEW wk \in BOOLEAN, NEW wv \in BOOLEAN, SetMode(wk, wv)
      PROVE  OneSlotPerKey'
    BY <1>3, SetModeLayout
<1>4. ASSUME UNCHANGED fields, alive' \subseteq alive
      PROVE  OneSlotPerKey'
    BY <1>4, SameWeakList
    DEF fields, OneSlotPerKey, KeysListHash, NothingHidden, WeakKeysMoved
<1>5. CASE Walk \/ WalkEnds \/ LengthStart \/ LengthStep \/ LengthEnd
    BY <1>4, <1>5 DEF Walk, WalkEnds, LengthStart, LengthStep, LengthEnd
<1>6. ASSUME NEW o \in Objects, Drop(o) \/ Collect(o)
      PROVE  OneSlotPerKey'
    BY <1>4, <1>6 DEF Drop, Collect
<1>7. CASE UNCHANGED vars
    BY <1>4, <1>7 DEF vars
<1> QED
    BY <1>1, <1>2, <1>3, <1>5, <1>6, <1>7 DEF Next

LEMMA InitLayout == Init => OneSlotPerKey
BY EmptySeq DEF Init, OneSlotPerKey, KeysListHash, NothingHidden, WeakListOnce,
    WeakKeysMoved, WeakSlots

\* The table's fields keep their types, for any keys, objects and values.
THEOREM TypeCorrect == Spec => []TypeOK
<1>1. Init => TypeOK
    <2> SUFFICES ASSUME Init PROVE TypeOK
        OBVIOUS
    <2>1. arr \in Seq(Slots) /\ keys \in Seq(Keys) /\ weakKeys \in Seq(Entries)
        BY EmptySeq DEF Init
    <2>2. DOMAIN arr = {} /\ DOMAIN hash = {} /\ hash \in [DOMAIN hash -> Slots]
        BY DEF Init
    <2>3. search \in [lo : Nat, hi : Nat]
        BY DEF Init, NoSearch
    <2> QED
        BY <2>1, <2>2, <2>3 DEF Init, TypeOK
<1>2. TypeOK /\ OneSlotPerKey /\ [Next]_vars => TypeOK' /\ OneSlotPerKey'
    BY TypeStep, LayoutStep
<1> QED
    BY <1>1, <1>2, InitLayout, PTL DEF Spec

\* A key never has two live slots (ltable.go:319): absorption, deletion,
\* re-insertion, migration and collection leave each key in one place, and no
\* entry of the hash part hides behind the array part.
THEOREM KeyHasOneSlot == Spec => []OneSlotPerKey
<1>1. TypeOK /\ OneSlotPerKey /\ [Next]_vars => OneSlotPerKey'
    BY LayoutStep
<1> QED
    BY <1>1, InitLayout, TypeCorrect, PTL DEF Spec
-----------------------------------------------------------------------------
(* length() brackets a border. *)

\* Where values are strong no slot of the array and hash parts is a cell.
NoCells ==
    ~weakv => /\ \A i \in DOMAIN arr : arr[i] \notin Cells
              /\ \A k \in DOMAIN hash : hash[k] \notin Cells

\* The bounds of a running search.
SearchInv ==
    ~Running =>
        /\ search.lo < search.hi
        /\ \/ search.hi \in DOMAIN arr /\ Deref(arr[search.hi]) = Nil
           \/ search.hi = Len(arr) + 1
        /\ search.lo > 0 => /\ search.lo \in DOMAIN arr
                            /\ ~weakv => Deref(arr[search.lo]) # Nil

LEMMA ReadableIsNoCell == \A v \in Readable : v \notin Cells
BY CellAssumption DEF Readable

\* Strong values are stored as they are.
LEMMA StrongStore ==
    ASSUME ~weakv, NEW v \in Readable
    PROVE  WrapVal(v) \notin Cells
BY ReadableIsNoCell DEF WrapVal

LEMMA NoCellsStep ==
    ASSUME TypeOK, OneSlotPerKey, NoCells, [Next]_vars
    PROVE  NoCells'
<1>1. ASSUME NEW w \in Keys \cup Floats, Get(w)
      PROVE  NoCells'
    <2>1. Nil \notin Cells
        BY ReadableIsNoCell DEF Readable
    <2>2. /\ DOMAIN arr' = DOMAIN arr /\ \A i \in DOMAIN arr : arr'[i] \in {arr[i], Nil}
          /\ DOMAIN hash' = DOMAIN hash /\ \A k \in DOMAIN hash : hash'[k] \in {hash[k], Nil}
          /\ weakv' = weakv
        BY <1>1 DEF Get
    <2> QED
        BY <2>1, <2>2 DEF NoCells
<1>2. ASSUME NEW w \in Keys \cup Floats, NEW v \in Values \cup {Nil}, Set(w, v)
      PROVE  NoCells'
    <2> DEFINE k == NormKey(w)
    <2>1. k \in Keys /\ v \in Readable
        BY NormKeyType DEF Readable
    <2> HIDE DEF k
    <2>2. Nil \notin Cells /\ (~weakv => WrapVal(v) \notin Cells)
        BY <2>1, StrongStore, ReadableIsNoCell DEF Readable
    <2>3. CASE SetArray(k, v)
        <3>1. DOMAIN arr' = DOMAIN arr /\ UNCHANGED <<hash, weakv>>
              /\ \A i \in DOMAIN arr : arr'[i] \in {arr[i], WrapVal(v)}
            BY <2>3 DEF SetArray, Assigned
        <3> QED
            BY <2>2, <3>1 DEF NoCells
    <2>4. CASE SetHash(k, v)
        <3>1. UNCHANGED <<arr, weakv>>
            BY <2>4 DEF SetHash, Assigned
        <3>2. \A j \in DOMAIN hash' : \/ j \in DOMAIN hash /\ hash'[j] = hash[j]
                                      \/ hash'[j] \in {Nil, WrapVal(v)}
            BY <2>4 DEF SetHash, HashDel
        <3> QED
            BY <2>2, <3>1, <3>2 DEF NoCells
    <2>5. CASE SetWeakKey(k, v)
        BY <2>5 DEF SetWeakKey, Assigned, NoCells
    <2>6. ASSUME NEW m \in Indexes, AppendArray(k, v, m)
          PROVE  NoCells'
        <3>1. /\ k = Len(arr) + 1 /\ m \in Nat /\ DOMAIN arr' = 1 .. m
              /\ \A j \in k + 1 .. m : j \in DOMAIN hash
              /\ \A i \in 1 .. m :
                    arr'[i] = IF i < k THEN arr[i]
                              ELSE IF i = k THEN WrapVal(v) ELSE hash[i]
            BY <2>1, <2>6, AppendShape
        <3>2. Len(arr) \in Nat /\ DOMAIN arr = 1 .. Len(arr)
            BY PartTypes
        <3>3. \A i \in DOMAIN arr' : \/ i \in DOMAIN arr /\ arr'[i] = arr[i]
                                     \/ i \in DOMAIN hash /\ arr'[i] = hash[i]
                                     \/ arr'[i] = WrapVal(v)
            BY <3>1, <3>2
        <3>4. weakv' = weakv /\ hash' = HashDel(hash, k + 1 .. m)
            BY <2>6 DEF AppendArray, Assigned
        <3>5. DOMAIN hash' = DOMAIN hash /\ \A j \in DOMAIN hash : hash'[j] \in {hash[j], Nil}
            BY <3>4, HashDelLayout
        <3> QED
            BY <2>2, <3>3, <3>4, <3>5 DEF NoCells
    <2> QED
        BY <1>2, <2>3, <2>4, <2>5, <2>6 DEF Set, k
<1>3. ASSUME NEW wk \in BOOLEAN, NEW wv \in BOOLEAN, SetMode(wk, wv)
      PROVE  NoCells'
    <2> DEFINE h == NewHash(wv)
    <2>1. /\ h \in [DOMAIN hash -> Slots]
          /\ \/ wk = weakk /\ hash' = h /\ UNCHANGED <<keys, weakKeys>>
             \/ wk /\ ~weakk /\ ToWeak(h)
             \/ ~wk /\ weakk /\ ToStrong(h, wv)
          /\ DOMAIN arr' = DOMAIN arr
          /\ \A i \in DOMAIN arr : arr'[i] = Converted(arr[i], wv)
          /\ weakv' = wv
        BY <1>3, SetModeParts
    <2> SUFFICES ASSUME ~wv
                 PROVE  /\ \A i \in DOMAIN arr' : arr'[i] \notin Cells
                        /\ \A k \in DOMAIN hash' : hash'[k] \notin Cells
        BY <2>1 DEF NoCells
    <2>2. \A x \in Slots : Deref(x) \notin Cells
        BY SlotTypes, ReadableIsNoCell
    <2>3. \A i \in DOMAIN arr : Converted(arr[i], wv) \notin Cells
        BY <2>2, PartTypes DEF Converted, NoCells
    <2>4. \A k \in DOMAIN hash : h[k] \notin Cells
        BY <2>2, PartTypes DEF NewHash, Converted, NoCells
    <2>5. Nil \notin Cells
        BY ReadableIsNoCell DEF Readable
    <2> HIDE DEF h
    <2>6. \A k \in DOMAIN hash' : hash'[k] \notin Cells
        <3>1. CASE hash' = h
            BY <2>1, <2>4, <3>1, SMTT(30)
        <3>2. CASE ToWeak(h)
            BY <2>1, <2>4, <2>5, <3>2 DEF ToWeak, DropMigrated, HashDel
        <3>3. CASE ToStrong(h, wv)
            <4>1. \A k \in DOMAIN hash' : Kept(h, k) \/ Returned(wv, k)
                BY <2>1, <3>3, ToStrongShape
            <4>2. \A i \in DOMAIN weakKeys : Stored(wv, i) \notin Cells
                BY <2>2, PartTypes DEF Stored
            <4> QED
                BY <2>4, <4>1, <4>2 DEF Kept, Returned
        <3> QED
            BY <2>1, <3>1, <3>2, <3>3
    <2> QED
        BY <2>1, <2>3, <2>6
<1>4. ASSUME UNCHANGED fields
      PROVE  NoCells'
    BY <1>4 DEF fields, NoCells
<1>5. CASE Walk \/ WalkEnds \/ LengthStart \/ LengthStep \/ LengthEnd
    BY <1>4, <1>5 DEF Walk, WalkEnds, LengthStart, LengthStep, LengthEnd
<1>6. ASSUME NEW o \in Objects, Drop(o) \/ Collect(o)
      PROVE  NoCells'
    BY <1>4, <1>6 DEF Drop, Collect
<1>7. CASE UNCHANGED vars
    BY <1>4, <1>7 DEF vars
<1> QED
    BY <1>1, <1>2, <1>3, <1>5, <1>6, <1>7 DEF Next

LEMMA SearchStep ==
    ASSUME TypeOK, OneSlotPerKey, NoCells, SearchInv, [Next]_vars
    PROVE  SearchInv'
<1>1. Len(arr) \in Nat /\ DOMAIN arr = 1 .. Len(arr)
      /\ search \in [lo : Nat, hi : Nat]
    BY PartTypes DEF TypeOK
<1>2. ASSUME Running, UNCHANGED search
      PROVE  SearchInv'
    BY <1>2 DEF SearchInv, Running
<1>3. CASE LengthStart
    <2>1. UNCHANGED <<arr, weakv, alive>>
        BY <1>3 DEF LengthStart, fields
    <2>2. \A i \in DOMAIN arr : Deref(arr[i])' = Deref(arr[i])
        BY <2>1 DEF Deref
    <2>3. CASE Len(arr) > 0 /\ Deref(arr[Len(arr)]) = Nil
        <3>1. search' = [lo |-> 0, hi |-> Len(arr)]
            BY <1>3, <2>3 DEF LengthStart
        <3>2. search'.lo = 0 /\ search'.hi = Len(arr)
            BY <3>1
        <3>3. Len(arr) \in DOMAIN arr /\ Deref(arr[Len(arr)])' = Nil
            BY <1>1, <2>1, <2>3 DEF Deref
        <3>4. Deref(arr[search.hi])' = Nil
            BY <2>1, <3>2, <3>3 DEF Deref
        <3>5. search'.hi \in DOMAIN arr' /\ search'.lo < search'.hi /\ ~(search'.lo > 0)
            BY <1>1, <2>1, <2>3, <3>2, <3>3
        <3> QED
            BY <3>4, <3>5 DEF SearchInv
    <2>4. CASE ~(Len(arr) > 0 /\ Deref(arr[Len(arr)]) = Nil)
        <3>1. search' = [lo |-> Len(arr), hi |-> Len(arr) + 1]
            BY <1>3, <2>4 DEF LengthStart
        <3> QED
            BY <1>1, <2>1, <2>2, <2>4, <3>1 DEF SearchInv
    <2> QED
        BY <2>3, <2>4
<1>4. CASE LengthStep
    <2> DEFINE m == (search.lo + search.hi) \div 2
    <2>1. search.hi - search.lo > 1 /\ search' = Half(m) /\ UNCHANGED <<arr, weakv, alive>>
        BY <1>4 DEF LengthStep, fields
    <2>2. ~Running
        BY <1>1, <2>1 DEF Running, NoSearch
    <2>3. search.lo < m /\ m < search.hi /\ m \in Nat
        BY <1>1, <2>1
    <2>4. search.hi \in DOMAIN arr \/ search.hi = Len(arr) + 1
        BY <2>2 DEF SearchInv
    <2>5. m \in DOMAIN arr
        BY <1>1, <2>3, <2>4
    <2>6. \A i \in DOMAIN arr : Deref(arr[i])' = Deref(arr[i])
        BY <2>1 DEF Deref
    <2> HIDE DEF m
    <2>7. CASE Deref(arr[m]) = Nil
        <3>1. search' = [search EXCEPT !.hi = m]
            BY <2>1, <2>7 DEF Half
        <3>2. search'.hi = m /\ search'.lo = search.lo
            BY <1>1, <3>1
        <3> QED
            BY <2>1, <2>2, <2>3, <2>5, <2>6, <2>7, <3>2 DEF SearchInv
    <2>8. CASE Deref(arr[m]) # Nil
        <3>1. search' = [search EXCEPT !.lo = m]
            BY <2>1, <2>8 DEF Half
        <3>2. search'.lo = m /\ search'.hi = search.hi
            BY <1>1, <3>1
        <3> QED
            BY <2>1, <2>2, <2>3, <2>5, <2>6, <2>8, <3>2 DEF SearchInv
    <2> QED
        BY <2>7, <2>8
<1>5. CASE LengthEnd
    BY <1>5 DEF LengthEnd, SearchInv, Running
<1>6. ASSUME NEW o \in Objects, Collect(o)
      PROVE  SearchInv'
    <2>1. UNCHANGED <<arr, weakv, search>> /\ alive' \subseteq alive
        BY <1>6 DEF Collect, fields
    <2>2. \A i \in DOMAIN arr : Deref(arr[i]) = Nil => Deref(arr[i])' = Nil
        BY <2>1 DEF Deref
    <2>3. ~weakv => \A i \in DOMAIN arr : Deref(arr[i])' = Deref(arr[i])
        BY <2>1 DEF Deref, NoCells
    <2> QED
        BY <2>1, <2>2, <2>3 DEF SearchInv, Running
<1>7. CASE UNCHANGED vars
    BY <1>7 DEF vars, fields, SearchInv, Running, Deref
<1>8. ASSUME NEW w \in Keys \cup Floats, Get(w) \/ \E v \in Values \cup {Nil} : Set(w, v)
      PROVE  Running /\ UNCHANGED search
    BY <1>8 DEF Get, Set, SetArray, SetHash, SetWeakKey, AppendArray, Assigned
<1>9. ASSUME NEW wk \in BOOLEAN, NEW wv \in BOOLEAN, SetMode(wk, wv)
      PROVE  Running /\ UNCHANGED search
    BY <1>9 DEF SetMode
<1>10. Walk \/ WalkEnds \/ (\E o \in Objects : Drop(o)) => Running /\ UNCHANGED search
    BY DEF Walk, WalkEnds, Drop
<1> QED
    BY <1>2, <1>3, <1>4, <1>5, <1>6, <1>7, <1>8, <1>9, <1>10 DEF Next

\* The length of a table is a border (ltable.go:334): every search keeps an
\* empty slot above, and with strong values a full one below, whatever the
\* collector empties meanwhile.
THEOREM LengthFindsBorder == Spec => []SearchBracketsBorder
<1>1. Init => NoCells /\ SearchInv
    BY DEF Init, NoCells, SearchInv, Running
<1>2. TypeOK /\ OneSlotPerKey /\ NoCells /\ SearchInv /\ [Next]_vars
        => NoCells' /\ SearchInv'
    BY NoCellsStep, SearchStep
<1>3. TypeOK /\ OneSlotPerKey /\ SearchInv => SearchBracketsBorder
    <2> SUFFICES ASSUME TypeOK, OneSlotPerKey, SearchInv, ~Running
                 PROVE  /\ search.lo < search.hi
                        /\ RawGet(search.hi) = Nil
                        /\ search.lo > 0 /\ ~weakv => RawGet(search.lo) # Nil
        BY DEF SearchBracketsBorder
    <2>1. search.lo \in Nat /\ search.hi \in Nat /\ Len(arr) \in Nat
          /\ DOMAIN arr = 1 .. Len(arr)
        BY PartTypes DEF TypeOK
    <2>2. search.lo \notin Objects /\ search.hi \notin Objects
        BY <2>1, KeyAssumption
    <2>3. RawGet(search.hi) = Nil
        <3>1. CASE search.hi \in DOMAIN arr /\ Deref(arr[search.hi]) = Nil
            BY <2>2, <3>1 DEF RawGet, InWeakList
        <3>2. CASE search.hi = Len(arr) + 1
            <4>1. HashVal(search.hi) = Nil
                BY <2>1, <3>2 DEF HashVal, OneSlotPerKey, NothingHidden
            <4>2. search.hi \notin DOMAIN arr
                BY <2>1, <3>2
            <4> QED
                BY <2>2, <4>1, <4>2, NilSlot DEF RawGet, InWeakList
        <3> QED
            BY <3>1, <3>2 DEF SearchInv
    <2> QED
        BY <2>1, <2>2, <2>3 DEF SearchInv, RawGet, InWeakList
<1> QED
    BY <1>1, <1>2, <1>3, TypeCorrect, KeyHasOneSlot, PTL DEF Spec

-----------------------------------------------------------------------------
(* Table implements LuaTable. *)

\* What the program and the table refer to has not been collected.
HeldAlive == held \subseteq alive
RetainedAlive == \A o \in Objects : Retains(o) => o \in alive
AliveInv == HeldAlive /\ RetainedAlive

\* What a slot reads as while A is alive.
Shown(A, x) == IF x \notin Cells THEN x ELSE IF x.cell \in A THEN x.cell ELSE Nil

\* What a read returns, by the slot the key has.
ReadsAs ==
    \A k \in Keys :
        /\ weakk /\ k \in Objects =>
              /\ \/ RawGet(k) = Nil
                 \/ \E i \in DOMAIN weakKeys : weakKeys[i].key = k /\ k \in alive
              /\ \A i \in DOMAIN weakKeys :
                    weakKeys[i].key = k /\ k \in alive =>
                        RawGet(k) = Shown(alive, weakKeys[i].val)
        /\ ~(weakk /\ k \in Objects) =>
              /\ k \in DOMAIN arr => RawGet(k) = Shown(alive, arr[k])
              /\ k \notin DOMAIN arr /\ k \in DOMAIN hash =>
                    RawGet(k) = Shown(alive, hash[k])
              /\ k \notin DOMAIN arr /\ k \notin DOMAIN hash => RawGet(k) = Nil

LEMMA ReadsAsHolds == TypeOK /\ OneSlotPerKey => ReadsAs
<1> SUFFICES ASSUME TypeOK, OneSlotPerKey PROVE ReadsAs
    OBVIOUS
<1>1. \A x : Deref(x) = Shown(alive, x)
    BY DEF Deref, Shown
<1>2. Deref(Nil) = Nil
    BY NilSlot
<1>3. ASSUME NEW k \in Keys, weakk, k \in Objects
      PROVE  /\ \/ RawGet(k) = Nil
                \/ \E i \in DOMAIN weakKeys : weakKeys[i].key = k /\ k \in alive
             /\ \A i \in DOMAIN weakKeys :
                   weakKeys[i].key = k /\ k \in alive =>
                       RawGet(k) = Shown(alive, weakKeys[i].val)
    <2>1. RawGet(k) = WeakKeyGet(k)
        BY <1>3 DEF RawGet, InWeakList
    <2>2. CASE WeakSlots(k) = {}
        BY <2>1, <2>2 DEF WeakKeyGet, WeakSlots
    <2>3. CASE WeakSlots(k) # {}
        <3>1. WeakIndex(k) \in WeakSlots(k)
            BY <2>3, ReadTypes
        <3>2. \A i \in WeakSlots(k) : i = WeakIndex(k)
            BY <1>3, <3>1 DEF OneSlotPerKey, WeakListOnce
        <3>3. RawGet(k) = Shown(alive, weakKeys[WeakIndex(k)].val)
            BY <1>1, <2>1, <2>3 DEF WeakKeyGet
        <3> QED
            BY <3>1, <3>2, <3>3 DEF WeakSlots
    <2> QED
        BY <2>2, <2>3
<1>4. ASSUME NEW k \in Keys, ~(weakk /\ k \in Objects)
      PROVE  /\ k \in DOMAIN arr => RawGet(k) = Shown(alive, arr[k])
             /\ k \notin DOMAIN arr /\ k \in DOMAIN hash =>
                   RawGet(k) = Shown(alive, hash[k])
             /\ k \notin DOMAIN arr /\ k \notin DOMAIN hash => RawGet(k) = Nil
    BY <1>1, <1>2, <1>4 DEF RawGet, InWeakList, HashVal
<1> QED
    BY <1>3, <1>4 DEF ReadsAs

LEMMA ReadsAsNext == TypeOK' /\ OneSlotPerKey' => ReadsAs'
BY ReadsAsHolds, PTL

\* Storing and converting do not change what a live value reads as.
LEMMA ShownStore ==
    ASSUME NEW v \in Readable, v \in Objects => v \in alive
    PROVE  Shown(alive, WrapVal(v)) = v /\ Shown(alive, MkWeak(v)) = v
<1>1. v \notin Cells
    BY ReadableIsNoCell
<1>2. v \in Objects => [cell |-> v] \in Cells /\ [cell |-> v].cell = v
    BY DEF Cells
<1> QED
    BY <1>1, <1>2 DEF Shown, WrapVal, MkWeak

LEMMA ShownConverted ==
    ASSUME NEW x \in Slots, x \in Objects => x \in alive, NEW wv \in BOOLEAN
    PROVE  Shown(alive, Converted(x, wv)) = Shown(alive, x)
<1>1. Deref(x) = Shown(alive, x) /\ Deref(x) \in Readable
    BY SlotTypes DEF Deref, Shown
<1>2. Shown(alive, Deref(x)) = Deref(x)
    BY <1>1, ReadableIsNoCell DEF Shown
<1>3. Shown(alive, MkWeak(x)) = Shown(alive, x)
    <2>1. CASE x \in Objects
        <3>1. x \in Readable
            BY <2>1 DEF Readable, Values
        <3> QED
            BY <2>1, <3>1, ShownStore, ReadableIsNoCell DEF Shown
    <2> QED
        BY <2>1 DEF MkWeak
<1> QED
    BY <1>1, <1>2, <1>3 DEF Converted

LEMMA ShownNil == \A A : Shown(A, Nil) = Nil
BY ReadableIsNoCell DEF Shown, Readable

\* Every key reads as before.
SameReads == \A k \in Keys : RawGet(k)' = RawGet(k)

\* The key k reads as v now, every other as before.
ReadsChanged(k, v) == \A j \in Keys : RawGet(j)' = IF j = k THEN v ELSE RawGet(j)

LEMMA GetReads ==
    ASSUME TypeOK, ReadsAs, ReadsAs', NEW w \in Keys \cup Floats, Get(w)
    PROVE  SameReads
<1> DEFINE k == NormKey(w)
<1>1. k \in Keys
    BY NormKeyType
<1>2. /\ UNCHANGED <<weakKeys, weakk, alive>>
      /\ arr' = arr \/ (arr' = [arr EXCEPT ![k] = Nil] /\ RawGet(k) = Nil)
      /\ hash' = hash \/ (hash' = [hash EXCEPT ![k] = Nil] /\ RawGet(k) = Nil)
    BY DEF Get
<1>a. /\ DOMAIN arr' = DOMAIN arr
      /\ \A i \in DOMAIN arr : arr'[i] = arr[i] \/ (i = k /\ arr'[i] = Nil /\ RawGet(k) = Nil)
    BY <1>2
<1>3. /\ DOMAIN hash' = DOMAIN hash
      /\ \A j \in DOMAIN hash : hash'[j] = hash[j] \/ (j = k /\ hash'[j] = Nil /\ RawGet(k) = Nil)
    BY <1>2
<1> HIDE DEF k
<1>4. SUFFICES ASSUME NEW j \in Keys PROVE RawGet(j)' = RawGet(j)
    BY DEF SameReads
<1>5. CASE weakk /\ j \in Objects
    BY <1>2, <1>5 DEF ReadsAs
<1>6. CASE ~(weakk /\ j \in Objects)
    <2>1. CASE j \in DOMAIN arr
        <3>1. RawGet(j) = Shown(alive, arr[j]) /\ RawGet(j)' = Shown(alive, arr'[j])
            BY <1>2, <1>a, <1>6, <2>1 DEF ReadsAs
        <3> QED
            BY <1>a, <2>1, <3>1, ShownNil
    <2>2. CASE j \notin DOMAIN arr /\ j \in DOMAIN hash
        <3>1. RawGet(j) = Shown(alive, hash[j]) /\ RawGet(j)' = Shown(alive, hash'[j])
            BY <1>2, <1>a, <1>3, <1>6, <2>2 DEF ReadsAs
        <3> QED
            BY <1>3, <2>2, <3>1, ShownNil
    <2>3. CASE j \notin DOMAIN arr /\ j \notin DOMAIN hash
        BY <1>2, <1>a, <1>3, <1>6, <2>3 DEF ReadsAs
    <2> QED
        BY <2>1, <2>2, <2>3
<1> QED
    BY <1>5, <1>6

\* The value of an assignment reads back.
LEMMA AssignedReads ==
    ASSUME TypeOK, AliveInv, NEW k \in Keys, NEW v \in Readable, Assigned(k, v)
    PROVE  /\ Shown(alive, WrapVal(v)) = v
           /\ UNCHANGED <<weakk, weakv, alive>>
BY ShownStore DEF Assigned, AliveInv, HeldAlive

LEMMA SetArrayReads ==
    ASSUME TypeOK, AliveInv, ReadsAs, ReadsAs', NEW k \in Keys, NEW v \in Readable,
           SetArray(k, v)
    PROVE  ReadsChanged(k, v)
<1>1. UNCHANGED <<hash, weakKeys, weakk, alive>> /\ Shown(alive, WrapVal(v)) = v
    BY AssignedReads DEF SetArray
<1>2. /\ k \in DOMAIN arr /\ DOMAIN arr' = DOMAIN arr
      /\ \A i \in DOMAIN arr : arr'[i] = IF i = k THEN WrapVal(v) ELSE arr[i]
      /\ ~(weakk /\ k \in Objects)
    BY DEF SetArray, InWeakList
<1>3. SUFFICES ASSUME NEW j \in Keys PROVE RawGet(j)' = IF j = k THEN v ELSE RawGet(j)
    BY DEF ReadsChanged
<1>4. CASE weakk /\ j \in Objects
    BY <1>1, <1>2, <1>4 DEF ReadsAs
<1>5. CASE ~(weakk /\ j \in Objects) /\ j \in DOMAIN arr
    <2>1. RawGet(j) = Shown(alive, arr[j]) /\ RawGet(j)' = Shown(alive, arr'[j])
        BY <1>1, <1>2, <1>5 DEF ReadsAs
    <2> QED
        BY <1>1, <1>2, <1>5, <2>1
<1>6. CASE ~(weakk /\ j \in Objects) /\ j \notin DOMAIN arr
    BY <1>1, <1>2, <1>6 DEF ReadsAs
<1> QED
    BY <1>4, <1>5, <1>6

LEMMA AppendArrayReads ==
    ASSUME TypeOK, AliveInv, ReadsAs, ReadsAs', NEW k \in Keys, NEW v \in Readable,
           NEW m \in Indexes, AppendArray(k, v, m)
    PROVE  ReadsChanged(k, v)
<1>1. UNCHANGED <<weakKeys, weakk, alive>> /\ Shown(alive, WrapVal(v)) = v
    BY AssignedReads DEF AppendArray
<1>2. /\ k = Len(arr) + 1 /\ k \in Nat /\ m \in Nat /\ m >= k
      /\ \A j \in k + 1 .. m : j \in DOMAIN hash
      /\ DOMAIN arr' = 1 .. m
      /\ \A i \in 1 .. m : arr'[i] = IF i < k THEN arr[i]
                                     ELSE IF i = k THEN WrapVal(v) ELSE hash[i]
      /\ Len(arr) \in Nat /\ DOMAIN arr = 1 .. Len(arr)
    <2>1. Len(arr) \in Nat /\ DOMAIN arr = 1 .. Len(arr)
        BY PartTypes
    <2>2. /\ k = Len(arr) + 1 /\ m \in Nat /\ m >= k
          /\ \A j \in k + 1 .. m : j \in DOMAIN hash
          /\ DOMAIN arr' = 1 .. m
        BY AppendShape
    <2>3. \A i \in 1 .. m : arr'[i] = IF i < k THEN arr[i]
                                      ELSE IF i = k THEN WrapVal(v) ELSE hash[i]
        BY AppendShape
    <2> QED
        BY <2>1, <2>2, <2>3
<1>3. /\ DOMAIN hash' = DOMAIN hash
      /\ \A j \in DOMAIN hash : j \notin k + 1 .. m => hash'[j] = hash[j]
    BY DEF AppendArray, HashDel
<1>4. SUFFICES ASSUME NEW j \in Keys PROVE RawGet(j)' = IF j = k THEN v ELSE RawGet(j)
    BY DEF ReadsChanged
<1>5. CASE j \in Objects
    <2>1. j \notin DOMAIN arr /\ j \notin DOMAIN arr' /\ j # k /\ j \notin k + 1 .. m
        BY <1>2, <1>5, KeyAssumption
    <2> QED
        BY <1>1, <1>3, <2>1 DEF ReadsAs
<1>6. CASE j \notin Objects /\ j \in 1 .. m
    <2>1. RawGet(j)' = Shown(alive, arr'[j])
        BY <1>1, <1>2, <1>6 DEF ReadsAs
    <2>2. CASE j < k
        <3>1. j \in DOMAIN arr /\ arr'[j] = arr[j] /\ j # k
            BY <1>2, <1>6, <2>2
        <3> QED
            BY <1>6, <2>1, <3>1 DEF ReadsAs
    <2>3. CASE j = k
        BY <1>1, <1>2, <1>6, <2>1, <2>3
    <2>4. CASE j > k
        <3>1. j \notin DOMAIN arr /\ arr'[j] = hash[j] /\ j # k /\ j \in DOMAIN hash
            BY <1>2, <1>6, <2>4
        <3> QED
            BY <1>6, <2>1, <3>1 DEF ReadsAs
    <2> QED
        BY <1>2, <1>6, <2>2, <2>3, <2>4
<1>7. CASE j \notin Objects /\ j \notin 1 .. m
    <2>1. j \notin DOMAIN arr /\ j \notin DOMAIN arr' /\ j # k /\ j \notin k + 1 .. m
        BY <1>2, <1>7
    <2> QED
        BY <1>1, <1>3, <1>7, <2>1 DEF ReadsAs
<1> QED
    BY <1>5, <1>6, <1>7

LEMMA SetHashReads ==
    ASSUME TypeOK, AliveInv, ReadsAs, ReadsAs', NEW k \in Keys, NEW v \in Readable,
           SetHash(k, v)
    PROVE  ReadsChanged(k, v)
<1>1. UNCHANGED <<arr, weakKeys, weakk, alive>> /\ Shown(alive, WrapVal(v)) = v
    BY AssignedReads DEF SetHash
<1>2. k \notin DOMAIN arr /\ ~(weakk /\ k \in Objects)
    BY DEF SetHash, InWeakList
<1>3. SUFFICES ASSUME NEW j \in Keys PROVE RawGet(j)' = IF j = k THEN v ELSE RawGet(j)
    BY DEF ReadsChanged
<1>4. CASE weakk /\ j \in Objects
    BY <1>1, <1>2, <1>4 DEF ReadsAs
<1>5. CASE ~(weakk /\ j \in Objects) /\ j \in DOMAIN arr
    BY <1>1, <1>2, <1>5 DEF ReadsAs
<1>6. CASE ~(weakk /\ j \in Objects) /\ j \notin DOMAIN arr /\ v = Nil
    <2>1. /\ DOMAIN hash' = DOMAIN hash
          /\ \A i \in DOMAIN hash : hash'[i] = IF i = k THEN Nil ELSE hash[i]
        BY <1>6 DEF SetHash, HashDel
    <2>2. CASE j \in DOMAIN hash
        <3>1. RawGet(j) = Shown(alive, hash[j]) /\ RawGet(j)' = Shown(alive, hash'[j])
            BY <1>1, <1>6, <2>1, <2>2 DEF ReadsAs
        <3> QED
            BY <1>6, <2>1, <2>2, <3>1, ShownNil
    <2>3. CASE j \notin DOMAIN hash
        BY <1>1, <1>6, <2>1, <2>3 DEF ReadsAs
    <2> QED
        BY <2>2, <2>3
<1>7. CASE ~(weakk /\ j \in Objects) /\ j \notin DOMAIN arr /\ v # Nil
    <2>1. /\ DOMAIN hash' = DOMAIN hash \cup {k}
          /\ \A i \in DOMAIN hash \cup {k} : hash'[i] = IF i = k THEN WrapVal(v) ELSE hash[i]
        BY <1>7 DEF SetHash
    <2>2. CASE j = k
        BY <1>1, <1>7, <2>1, <2>2 DEF ReadsAs
    <2>3. CASE j # k
        BY <1>1, <1>7, <2>1, <2>3 DEF ReadsAs
    <2> QED
        BY <2>2, <2>3
<1> QED
    BY <1>4, <1>5, <1>6, <1>7

LEMMA SetWeakKeyReads ==
    ASSUME TypeOK, TypeOK', OneSlotPerKey, AliveInv, ReadsAs, ReadsAs',
           NEW k \in Keys, NEW v \in Readable, SetWeakKey(k, v)
    PROVE  ReadsChanged(k, v)
<1>1. UNCHANGED <<arr, hash, weakk, alive>> /\ Shown(alive, WrapVal(v)) = v
    BY AssignedReads DEF SetWeakKey
<1>2. weakk /\ k \in Objects /\ Nil \notin Keys
    BY NilAssumption DEF SetWeakKey, InWeakList
<1>3. v # Nil => k \in alive
    BY <1>2 DEF SetWeakKey, Assigned, AliveInv, HeldAlive
<1>4. SUFFICES ASSUME NEW j \in Keys PROVE RawGet(j)' = IF j = k THEN v ELSE RawGet(j)
    BY DEF ReadsChanged
<1>5. CASE j \notin Objects
    BY <1>1, <1>2, <1>5 DEF ReadsAs
<1>6. CASE j \in Objects /\ Replaced(k, v)
    <2> DEFINE n == WeakIndex(k)
    <2>1. n \in WeakSlots(k) /\ \A i \in WeakSlots(k) : i = n
        BY <1>2, <1>6, ReadTypes DEF Replaced, OneSlotPerKey, WeakListOnce
    <2>2. n \in DOMAIN weakKeys /\ weakKeys[n].key = k /\ k \in alive
          /\ \A i \in DOMAIN weakKeys : weakKeys[i].key = k => i = n
        BY <2>1 DEF WeakSlots
    <2>3. /\ DOMAIN weakKeys' = DOMAIN weakKeys
          /\ weakKeys'[n].key = IF v = Nil THEN Nil ELSE k
          /\ weakKeys'[n].val = WrapVal(v)
          /\ \A i \in DOMAIN weakKeys : i # n => weakKeys'[i] = weakKeys[i]
        BY <1>6, <2>2 DEF Replaced
    <2> HIDE DEF n
    <2>4. CASE j = k /\ v = Nil
        <3>1. \A i \in DOMAIN weakKeys' : weakKeys'[i].key # k
            BY <1>2, <2>2, <2>3, <2>4
        <3> QED
            BY <1>1, <1>2, <1>6, <2>4, <3>1 DEF ReadsAs
    <2>5. CASE j = k /\ v # Nil
        BY <1>1, <1>2, <1>6, <2>2, <2>3, <2>5 DEF ReadsAs
    <2>6. CASE j # k
        <3>1. \A i \in DOMAIN weakKeys : (weakKeys'[i].key = j) <=> (weakKeys[i].key = j)
            BY <1>2, <2>2, <2>3, <2>6
        <3>2. \A i \in DOMAIN weakKeys : weakKeys[i].key = j => weakKeys'[i].val = weakKeys[i].val
            BY <2>2, <2>3, <2>6
        <3> QED
            BY <1>1, <1>2, <1>6, <2>3, <2>6, <3>1, <3>2 DEF ReadsAs
    <2> QED
        BY <2>4, <2>5, <2>6
<1>7. CASE j \in Objects /\ Appended(k, v)
    <2> DEFINE n == Len(weakKeys) + 1
    <2>1. k \in alive /\ \A i \in DOMAIN weakKeys : weakKeys[i].key # k
        BY <1>3, <1>7 DEF Appended, WeakSlots
    <2>2. DOMAIN weakKeys = 1 .. Len(weakKeys) /\ Len(weakKeys) \in Nat
        BY PartTypes
    <2>3. /\ DOMAIN weakKeys' = DOMAIN weakKeys \cup {n}
          /\ \A i \in DOMAIN weakKeys : weakKeys'[i] = weakKeys[i]
          /\ weakKeys'[n].key = k /\ weakKeys'[n].val = WrapVal(v)
        BY <1>7, <2>2 DEF Appended
    <2> HIDE DEF n
    <2>4. CASE j = k
        BY <1>1, <1>2, <1>7, <2>1, <2>3, <2>4 DEF ReadsAs
    <2>5. CASE j # k
        <3>1. \A i \in DOMAIN weakKeys' : weakKeys'[i].key = j =>
                  i \in DOMAIN weakKeys /\ weakKeys'[i] = weakKeys[i]
            BY <2>3, <2>5
        <3> QED
            BY <1>1, <1>2, <1>7, <2>3, <2>5, <3>1 DEF ReadsAs
    <2> QED
        BY <2>4, <2>5
<1>8. CASE j \in Objects /\ WeakSlots(k) = {} /\ v = Nil /\ UNCHANGED weakKeys
    <2>1. \A i \in DOMAIN weakKeys : ~(weakKeys[i].key = k /\ k \in alive)
        BY <1>8 DEF WeakSlots
    <2> QED
        BY <1>1, <1>2, <1>8, <2>1 DEF ReadsAs
<1> QED
    BY <1>5, <1>6, <1>7, <1>8, SetWeakKeyShape

\* A change of mode moves and converts slots; the reads stay.
LEMMA SetModeReads ==
    ASSUME TypeOK, OneSlotPerKey, AliveInv, ReadsAs, ReadsAs',
           NEW wk \in BOOLEAN, NEW wv \in BOOLEAN, SetMode(wk, wv)
    PROVE  SameReads
<1> DEFINE h == NewHash(wv)
<1>1. /\ h \in [DOMAIN hash -> Slots]
      /\ \/ wk = weakk /\ hash' = h /\ UNCHANGED <<keys, weakKeys>>
         \/ wk /\ ~weakk /\ ToWeak(h)
         \/ ~wk /\ weakk /\ ToStrong(h, wv)
      /\ DOMAIN arr' = DOMAIN arr
      /\ \A i \in DOMAIN arr : arr'[i] = Converted(arr[i], wv)
      /\ weakk' = wk
    BY SetModeParts
<1>2. alive' = alive
    BY DEF SetMode
<1>3. \A i \in DOMAIN arr : Shown(alive, arr'[i]) = Shown(alive, arr[i])
    <2>1. \A i \in DOMAIN arr : arr[i] \in Slots /\ (arr[i] \in Objects => arr[i] \in alive)
        BY PartTypes DEF AliveInv, RetainedAlive, Retains
    <2> QED
        BY <1>1, <2>1, ShownConverted
<1>4. \A k \in DOMAIN hash : Shown(alive, h[k]) = Shown(alive, hash[k])
    <2>1. \A k \in DOMAIN hash : hash[k] \in Slots /\ (hash[k] \in Objects => hash[k] \in alive)
        BY PartTypes DEF AliveInv, RetainedAlive, Retains
    <2> QED
        BY <2>1, ShownConverted DEF NewHash
<1>5. \A k \in DOMAIN hash : hash[k] = Nil => h[k] = Nil
    BY NewHashDead
<1> HIDE DEF h
<1>6. \A o \in Objects : o \notin DOMAIN arr
    BY PartTypes, KeyAssumption
<1>7. \A k \in Keys : k \in DOMAIN arr => RawGet(k)' = RawGet(k)
    BY <1>1, <1>2, <1>3, <1>6 DEF ReadsAs
<1>8. SUFFICES ASSUME NEW j \in Keys, j \notin DOMAIN arr
               PROVE  RawGet(j)' = RawGet(j)
    BY <1>7 DEF SameReads
<1>9. CASE wk = weakk /\ hash' = h /\ UNCHANGED <<keys, weakKeys>>
    BY <1>1, <1>2, <1>4, <1>8, <1>9 DEF ReadsAs
<1>10. CASE wk /\ ~weakk /\ ToWeak(h)
    <2>1. DOMAIN hash = {keys[i] : i \in DOMAIN keys} /\ weakKeys = <<>>
        BY <1>10 DEF OneSlotPerKey, KeysListHash, WeakKeysMoved
    <2>2. PICK s : /\ Lists(s, Moved(h))
                   /\ MovedEntries(h, s) \in Seq(Entries)
                   /\ weakKeys' = weakKeys \o MovedEntries(h, s)
        BY <1>1, <1>10, <2>1, ToWeakShape
    <2>3. weakKeys' = MovedEntries(h, s)
        BY <2>1, <2>2
    <2>4. /\ DOMAIN weakKeys' = 1 .. Len(s)
          /\ \A i \in 1 .. Len(s) : weakKeys'[i].key = keys[s[i]] /\ weakKeys'[i].val = h[keys[s[i]]]
        BY <2>3, SMTT(30) DEF MovedEntries
    <2>5. DOMAIN hash' = DOMAIN hash /\ \A k \in DOMAIN hash \ Objects : hash'[k] = h[k]
        BY <1>1, <1>10 DEF ToWeak, DropMigrated, HashDel
    <2>6. CASE j \notin Objects
        BY <1>1, <1>2, <1>4, <1>8, <1>10, <2>5, <2>6 DEF ReadsAs
    <2>7. CASE j \in Objects /\ (j \notin DOMAIN hash \/ h[j] = Nil)
        <3>1. \A i \in DOMAIN weakKeys' : weakKeys'[i].key # j
            BY <2>1, <2>2, <2>4, <2>7 DEF Lists, Moved
        <3>2. RawGet(j)' = Nil
            BY <1>1, <1>10, <2>7, <3>1 DEF ReadsAs
        <3>3. RawGet(j) = Nil
            BY <1>4, <1>8, <1>10, <2>7, ShownNil DEF ReadsAs
        <3> QED
            BY <3>2, <3>3
    <2>8. CASE j \in Objects /\ j \in DOMAIN hash /\ h[j] # Nil
        <3>1. PICK p \in DOMAIN keys : keys[p] = j
            BY <2>1, <2>8
        <3>2. p \in Moved(h)
            BY <2>8, <3>1 DEF Moved
        <3>3. PICK i \in 1 .. Len(s) : s[i] = p
            BY <2>2, <3>2 DEF Lists
        <3>4. i \in DOMAIN weakKeys' /\ weakKeys'[i].key = j /\ weakKeys'[i].val = h[j]
            BY <2>4, <3>1, <3>3
        <3>5. j \in alive
            BY <2>8 DEF AliveInv, RetainedAlive, Retains
        <3>6. RawGet(j)' = Shown(alive, h[j])
            BY <1>1, <1>2, <1>10, <2>8, <3>4, <3>5 DEF ReadsAs
        <3>7. RawGet(j) = Shown(alive, hash[j])
            BY <1>8, <1>10, <2>8 DEF ReadsAs
        <3> QED
            BY <1>4, <2>8, <3>6, <3>7
    <2> QED
        BY <2>6, <2>7, <2>8
<1>11. CASE ~wk /\ weakk /\ ToStrong(h, wv)
    <2>1. /\ DOMAIN hash' = DOMAIN hash \cup {weakKeys[i].key : i \in New(h)}
          /\ \A k \in DOMAIN hash' : Kept(h, k) \/ Returned(wv, k)
        BY <1>1, <1>11, ToStrongShape
    <2>2. /\ j \in DOMAIN hash' => RawGet(j)' = Shown(alive, hash'[j])
          /\ j \notin DOMAIN hash' => RawGet(j)' = Nil
        BY <1>1, <1>2, <1>8, <1>11 DEF ReadsAs
    <2>3. \A i \in DOMAIN weakKeys : weakKeys[i].key = j /\ Back(i) =>
              RawGet(j) = Deref(weakKeys[i].val)
        <3>1. \A i \in DOMAIN weakKeys : weakKeys[i].key = j /\ Back(i) => j \in Objects /\ j \in alive
            BY DEF Back, TypeOK
        <3>2. \A x : Deref(x) = Shown(alive, x)
            BY DEF Deref, Shown
        <3> QED
            BY <1>11, <3>1, <3>2 DEF ReadsAs
    <2>4. j \in Objects /\ (\A i \in DOMAIN weakKeys : Back(i) => weakKeys[i].key # j)
            => RawGet(j) = Nil
        <3>1. \A x : Deref(x) = Shown(alive, x)
            BY DEF Deref, Shown
        <3> QED
            BY <1>11, <3>1 DEF ReadsAs, Back
    <2>5. CASE j \in DOMAIN hash' /\ Returned(wv, j)
        <3>1. PICK i \in DOMAIN weakKeys :
                  Back(i) /\ weakKeys[i].key = j /\ hash'[j] = Stored(wv, i)
            BY <2>5 DEF Returned
        <3> DEFINE v == Deref(weakKeys[i].val)
        <3>2. weakKeys[i].val \in Slots /\ (weakKeys[i].val \in Objects => weakKeys[i].val \in alive)
            BY PartTypes DEF AliveInv, RetainedAlive, Retains
        <3>3. v \in Readable /\ (v \in Objects => v \in alive)
            BY <3>2, SlotTypes, NilAssumption DEF Deref, Values
        <3> HIDE DEF v
        <3>4. Shown(alive, v) = v /\ Shown(alive, MkWeak(v)) = v
            BY <3>3, ShownStore, ReadableIsNoCell DEF Shown
        <3>5. Shown(alive, hash'[j]) = v
            BY <3>1, <3>4 DEF Stored, v
        <3> QED
            BY <2>2, <2>3, <2>5, <3>1, <3>5 DEF v
    <2>6. CASE j \in DOMAIN hash' /\ Kept(h, j)
        <3>1. CASE j \in Objects
            <4>1. hash'[j] = Nil
                BY <1>5, <1>11, <2>6, <3>1 DEF Kept, OneSlotPerKey, WeakKeysMoved
            <4>2. RawGet(j)' = Nil
                BY <2>2, <2>6, <4>1, ShownNil
            <4>3. RawGet(j) = Nil
                BY <2>4, <2>6, <3>1 DEF Kept
            <4> QED
                BY <4>2, <4>3
        <3>2. CASE j \notin Objects
            BY <1>4, <1>8, <2>2, <2>6, <3>2 DEF ReadsAs, Kept
        <3> QED
            BY <3>1, <3>2
    <2>7. CASE j \notin DOMAIN hash'
        <3>1. CASE j \in Objects
            <4>1. \A i \in DOMAIN weakKeys : Back(i) => weakKeys[i].key # j
                BY <1>1, <2>1, <2>7 DEF New
            <4> QED
                BY <2>2, <2>4, <2>7, <3>1, <4>1
        <3>2. CASE j \notin Objects
            BY <1>8, <2>1, <2>2, <2>7, <3>2 DEF ReadsAs
        <3> QED
            BY <3>1, <3>2
    <2> QED
        BY <2>1, <2>5, <2>6, <2>7
<1> QED
    BY <1>1, <1>9, <1>10, <1>11

\* A collected object takes its entries with it.
LEMMA CollectReads ==
    ASSUME TypeOK, AliveInv, ReadsAs, ReadsAs', NEW o \in Objects, Collect(o)
    PROVE  \A k \in Keys : RawGet(k)' = IF k = o \/ RawGet(k) = o THEN Nil ELSE RawGet(k)
<1>1. /\ UNCHANGED <<arr, hash, keys, weakKeys, weakk, weakv>>
      /\ o \in alive /\ ~Retains(o) /\ alive' = alive \ {o}
    BY DEF Collect, fields
<1>2. \A x \in Slots : x # o =>
          Shown(alive', x) = IF Shown(alive, x) = o THEN Nil ELSE Shown(alive, x)
    BY <1>1, NilAssumption DEF Shown, Slots, Cells, Values
<1>3. /\ \A i \in DOMAIN arr : arr[i] \in Slots /\ arr[i] # o
      /\ \A k \in DOMAIN hash : hash[k] \in Slots /\ hash[k] # o /\ k # o
      /\ \A i \in DOMAIN weakKeys : weakKeys[i].val \in Slots /\ weakKeys[i].val # o
    BY <1>1, PartTypes DEF Retains
<1>4. o \notin DOMAIN arr /\ Nil # o
    BY PartTypes, KeyAssumption, NilAssumption DEF Keys
<1>5. SUFFICES ASSUME NEW k \in Keys
               PROVE  RawGet(k)' = IF k = o \/ RawGet(k) = o THEN Nil ELSE RawGet(k)
    OBVIOUS
<1>6. CASE k = o
    BY <1>1, <1>3, <1>4, <1>6 DEF ReadsAs
<1>7. CASE k # o /\ weakk /\ k \in Objects
    <2>1. CASE \E i \in DOMAIN weakKeys : weakKeys[i].key = k /\ k \in alive
        <3>1. PICK i \in DOMAIN weakKeys : weakKeys[i].key = k /\ k \in alive
            BY <2>1
        <3>2. RawGet(k) = Shown(alive, weakKeys[i].val)
            BY <1>7, <3>1 DEF ReadsAs
        <3>3. RawGet(k)' = Shown(alive', weakKeys[i].val)
            BY <1>1, <1>7, <3>1 DEF ReadsAs
        <3> QED
            BY <1>2, <1>3, <1>7, <3>2, <3>3
    <2>2. CASE ~ \E i \in DOMAIN weakKeys : weakKeys[i].key = k /\ k \in alive
        BY <1>1, <1>4, <1>7, <2>2 DEF ReadsAs
    <2> QED
        BY <2>1, <2>2
<1>8. CASE k # o /\ ~(weakk /\ k \in Objects) /\ k \in DOMAIN arr
    <2>1. RawGet(k) = Shown(alive, arr[k]) /\ RawGet(k)' = Shown(alive', arr[k])
        BY <1>1, <1>8 DEF ReadsAs
    <2> QED
        BY <1>2, <1>3, <1>8, <2>1
<1>9. CASE k # o /\ ~(weakk /\ k \in Objects) /\ k \notin DOMAIN arr /\ k \in DOMAIN hash
    <2>1. RawGet(k) = Shown(alive, hash[k]) /\ RawGet(k)' = Shown(alive', hash[k])
        BY <1>1, <1>9 DEF ReadsAs
    <2> QED
        BY <1>2, <1>3, <1>9, <2>1
<1>10. CASE k # o /\ ~(weakk /\ k \in Objects) /\ k \notin DOMAIN arr /\ k \notin DOMAIN hash
    BY <1>1, <1>4, <1>10 DEF ReadsAs
<1> QED
    BY <1>6, <1>7, <1>8, <1>9, <1>10

\* An object that is named or stored has not been collected.
Safe(x) == x \in Objects => x \in alive
SlotsSafe ==
    /\ \A i \in DOMAIN arr : Safe(arr[i])
    /\ \A k \in DOMAIN hash : Safe(k) /\ Safe(hash[k])
    /\ \A i \in DOMAIN weakKeys : Safe(weakKeys[i].val)

LEMMA SafeSlots == RetainedAlive <=> SlotsSafe
<1>1. RetainedAlive => SlotsSafe
    BY DEF RetainedAlive, Retains, SlotsSafe, Safe
<1>2. SlotsSafe => RetainedAlive
    BY DEF RetainedAlive, Retains, SlotsSafe, Safe
<1> QED
    BY <1>1, <1>2

LEMMA SafeSlotsNext == RetainedAlive' <=> SlotsSafe'
BY SafeSlots, PTL

\* Storing, reading and converting keep a slot safe.
LEMMA SafeStore ==
    ASSUME NEW x \in Slots, Safe(x), NEW wv \in BOOLEAN
    PROVE  /\ Safe(Deref(x)) /\ Safe(MkWeak(x)) /\ Safe(WrapVal(x)) /\ Safe(Converted(x, wv))
           /\ Safe(MkWeak(Deref(x)))
<1>1. Nil \notin Objects
    BY NilAssumption DEF Keys
<1>2. Safe(Deref(x))
    BY <1>1 DEF Safe, Deref
<1>3. \A y : Safe(y) => Safe(MkWeak(y))
    BY CellAssumption DEF Safe, MkWeak, Cells, Values
<1> QED
    BY <1>2, <1>3 DEF WrapVal, Converted

\* What a read returns is alive.
LEMMA SafeRead ==
    ASSUME TypeOK, AliveInv, ReadsAs, NEW k \in Keys
    PROVE  Safe(RawGet(k))
<1>1. Nil \notin Objects
    BY NilAssumption DEF Keys
<1>2. \A x : Safe(x) => Safe(Shown(alive, x))
    BY <1>1 DEF Safe, Shown
<1>3. SlotsSafe
    BY SafeSlots DEF AliveInv
<1>4. RawGet(k) = Nil \/ \E x : Safe(x) /\ RawGet(k) = Shown(alive, x)
    <2>1. CASE weakk /\ k \in Objects
        BY <1>3, <2>1 DEF ReadsAs, SlotsSafe
    <2>2. CASE ~(weakk /\ k \in Objects)
        BY <1>3, <2>2 DEF ReadsAs, SlotsSafe
    <2> QED
        BY <2>1, <2>2
<1> QED
    BY <1>1, <1>2, <1>4 DEF Safe

\* A key that next can return: present, and not collected.
Present(k) == k \in Keys /\ RawGet(k) # Nil /\ Safe(k)

LEMMA NextKeyPresent ==
    ASSUME TypeOK, OneSlotPerKey, AliveInv, ReadsAs, NextKey(cursor) \notin {Nil, NotFound}
    PROVE  Present(NextKey(cursor))
<1>1. \A x : Deref(x) = Shown(alive, x)
    BY DEF Deref, Shown
<1>2. SlotsSafe
    BY SafeSlots DEF AliveInv
<1>3. ASSUME NEW p \in Nat, FirstWeak(p) # Nil
      PROVE  Present(FirstWeak(p))
    <2> DEFINE live == {i \in p + 1 .. Len(weakKeys) :
                           /\ weakKeys[i].key \in alive
                           /\ Deref(weakKeys[i].val) # Nil}
               n == Min(live)
    <2>1. live \in SUBSET Nat /\ live # {}
        BY <1>3, PartTypes DEF FirstWeak
    <2>2. n \in live
        BY <2>1, MinPlace
    <2>3. FirstWeak(p) = weakKeys[n].key
        BY <2>1 DEF FirstWeak
    <2>4. n \in DOMAIN weakKeys /\ weakKeys[n].key \in alive /\ Deref(weakKeys[n].val) # Nil
        BY <2>2, PartTypes
    <2> HIDE DEF n, live
    <2>5. weakKeys[n].key \in Objects /\ weakKeys[n].key \in Keys
        BY <2>4 DEF TypeOK, Keys
    <2>6. weakk
        BY <2>4 DEF OneSlotPerKey, WeakKeysMoved
    <2>7. RawGet(weakKeys[n].key) = Shown(alive, weakKeys[n].val)
        BY <2>4, <2>5, <2>6 DEF ReadsAs
    <2> QED
        BY <1>1, <2>3, <2>4, <2>5, <2>7 DEF Present, Safe
<1>4. ASSUME NEW p \in Nat, FirstHash(p) # Nil
      PROVE  Present(FirstHash(p))
    <2> DEFINE live == {i \in p + 1 .. Len(keys) : Deref(hash[keys[i]]) # Nil}
               n == Min(live)
    <2>1. CASE live = {}
        BY <1>3, <1>4, <2>1 DEF FirstHash
    <2>2. CASE live # {}
        <3>1. live \in SUBSET Nat
            BY PartTypes
        <3>2. n \in live
            BY <2>2, <3>1, MinPlace
        <3>3. FirstHash(p) = keys[n]
            BY <2>2 DEF FirstHash
        <3>4. n \in DOMAIN keys /\ Deref(hash[keys[n]]) # Nil
            BY <3>2, PartTypes
        <3> HIDE DEF n, live
        <3> DEFINE k == keys[n]
        <3>5. k \in Keys /\ k \in DOMAIN hash /\ hash[k] # Nil
            BY <3>4, PartTypes, NilSlot DEF OneSlotPerKey, KeysListHash
        <3>6. ~(weakk /\ k \in Objects) /\ k \notin DOMAIN arr
            BY <3>5, PartTypes DEF OneSlotPerKey, WeakKeysMoved, NothingHidden
        <3>7. RawGet(k) = Shown(alive, hash[k]) /\ Safe(k)
            BY <1>2, <3>5, <3>6 DEF ReadsAs, SlotsSafe
        <3> QED
            BY <1>1, <3>3, <3>4, <3>5, <3>7 DEF Present
    <2> QED
        BY <2>1, <2>2
<1>5. ASSUME NEW p \in Nat, FirstArray(p) # Nil
      PROVE  Present(FirstArray(p))
    <2> DEFINE live == {i \in p + 1 .. Len(arr) : Deref(arr[i]) # Nil}
               n == Min(live)
    <2>1. CASE live = {}
        BY <1>4, <1>5, <2>1 DEF FirstArray
    <2>2. CASE live # {}
        <3>1. live \in SUBSET Nat
            BY PartTypes
        <3>2. n \in live
            BY <2>2, <3>1, MinPlace
        <3>3. FirstArray(p) = n
            BY <2>2 DEF FirstArray
        <3>4. n \in DOMAIN arr /\ Deref(arr[n]) # Nil /\ n \in Int
            BY <3>2, PartTypes
        <3> HIDE DEF n, live
        <3>5. n \in Keys /\ n \notin Objects
            BY <3>4, KeyAssumption DEF TypeOK, Keys
        <3> QED
            BY <1>1, <3>3, <3>4, <3>5 DEF ReadsAs, Present, Safe
    <2> QED
        BY <2>1, <2>2
<1>6. CASE InWeakList(cursor)
    <2>1. WeakSlots(cursor) # {} /\ NextKey(cursor) = FirstWeak(WeakIndex(cursor))
        BY <1>6 DEF NextKey
    <2>2. WeakIndex(cursor) \in Nat
        BY <2>1, ReadTypes, PartTypes DEF WeakSlots
    <2> QED
        BY <1>3, <2>1, <2>2
<1>7. CASE ~InWeakList(cursor) /\ cursor = Nil
    BY <1>5, <1>7 DEF NextKey
<1>8. CASE ~InWeakList(cursor) /\ cursor # Nil /\ cursor \in DOMAIN arr
    <2>1. cursor \in Nat
        BY <1>8, PartTypes
    <2> QED
        BY <1>5, <1>8, <2>1 DEF NextKey
<1>9. CASE ~InWeakList(cursor) /\ cursor # Nil /\ cursor \notin DOMAIN arr
    <2>1. Places(cursor) # {} /\ NextKey(cursor) = FirstHash(Min(Places(cursor)))
        BY <1>9 DEF NextKey
    <2>2. Places(cursor) \in SUBSET Nat
        BY PartTypes DEF Places
    <2>3. Min(Places(cursor)) \in Nat
        BY <2>1, <2>2, MinPlace
    <2> QED
        BY <1>4, <2>1, <2>3
<1> QED
    BY <1>6, <1>7, <1>8, <1>9

LEMMA AliveAssign ==
    ASSUME TypeOK, AliveInv, NEW k \in Keys, NEW v \in Readable, Assigned(k, v)
    PROVE  /\ HeldAlive' /\ alive' = alive /\ SlotsSafe
           /\ Safe(k) /\ Safe(WrapVal(v)) /\ Safe(Nil)
<1>1. /\ HeldAlive' /\ alive' = alive /\ SlotsSafe /\ Safe(k) /\ Safe(v)
    BY SafeSlots DEF AliveInv, HeldAlive, Assigned, Safe
<1>2. v \in Slots /\ Nil \notin Objects
    BY NilAssumption DEF Readable, Slots, Keys
<1> QED
    BY <1>1, <1>2, SafeStore DEF Safe

LEMMA AliveSet ==
    ASSUME TypeOK, AliveInv, NEW w \in Keys \cup Floats, NEW v \in Values \cup {Nil}, Set(w, v)
    PROVE  AliveInv'
<1> DEFINE k == NormKey(w)
<1>1. k \in Keys /\ v \in Readable
    BY NormKeyType DEF Readable
<1>2. \/ SetArray(k, v) \/ SetHash(k, v) \/ SetWeakKey(k, v)
      \/ \E m \in Indexes : AppendArray(k, v, m)
    BY DEF Set
<1> HIDE DEF k
<1>3. Assigned(k, v)
    BY <1>2 DEF SetArray, SetHash, SetWeakKey, AppendArray
<1>4. /\ HeldAlive' /\ alive' = alive /\ SlotsSafe
      /\ Safe(k) /\ Safe(WrapVal(v)) /\ Safe(Nil)
    BY <1>1, <1>3, AliveAssign
<1>5. SUFFICES SlotsSafe'
    BY <1>4, SafeSlotsNext DEF AliveInv
<1>6. CASE SetArray(k, v)
    <2>1. UNCHANGED <<hash, weakKeys>> /\ DOMAIN arr' = DOMAIN arr
          /\ \A i \in DOMAIN arr : arr'[i] \in {arr[i], WrapVal(v)}
        BY <1>6 DEF SetArray
    <2> QED
        BY <1>4, <2>1 DEF SlotsSafe, Safe
<1>7. CASE SetHash(k, v)
    <2>1. UNCHANGED <<arr, weakKeys>> /\ DOMAIN hash' \subseteq DOMAIN hash \cup {k}
          /\ \A j \in DOMAIN hash' : \/ hash'[j] \in {WrapVal(v), Nil}
                                     \/ j \in DOMAIN hash /\ hash'[j] = hash[j]
        BY <1>7 DEF SetHash, HashDel
    <2> QED
        BY <1>4, <2>1 DEF SlotsSafe, Safe
<1>8. CASE SetWeakKey(k, v)
    <2>1. UNCHANGED <<arr, hash>>
        BY <1>8 DEF SetWeakKey
    <2>2. \/ Replaced(k, v) \/ Appended(k, v) \/ UNCHANGED weakKeys
        BY <1>1, <1>8, SetWeakKeyShape
    <2>3. Len(weakKeys) \in Nat /\ DOMAIN weakKeys = 1 .. Len(weakKeys)
        BY PartTypes
    <2>4. \A i \in DOMAIN weakKeys' :
              \/ weakKeys'[i].val = WrapVal(v)
              \/ i \in DOMAIN weakKeys /\ weakKeys'[i] = weakKeys[i]
        BY <2>2, <2>3 DEF Replaced, Appended
    <2> QED
        BY <1>4, <2>1, <2>4 DEF SlotsSafe, Safe
<1>9. ASSUME NEW m \in Indexes, AppendArray(k, v, m)
      PROVE  SlotsSafe'
    <2>1. UNCHANGED weakKeys /\ DOMAIN hash' = DOMAIN hash
          /\ \A j \in DOMAIN hash : hash'[j] \in {hash[j], Nil}
        BY <1>9 DEF AppendArray, HashDel
    <2>2. /\ \A i \in 1 .. m : arr'[i] = IF i < k THEN arr[i]
                                         ELSE IF i = k THEN WrapVal(v) ELSE hash[i]
          /\ DOMAIN arr' = 1 .. m /\ k = Len(arr) + 1 /\ m \in Nat
          /\ \A j \in k + 1 .. m : j \in DOMAIN hash
        BY <1>1, <1>9, AppendShape
    <2>3. Len(arr) \in Nat /\ DOMAIN arr = 1 .. Len(arr)
        BY PartTypes
    <2>4. \A i \in DOMAIN arr' : \/ arr'[i] = WrapVal(v)
                                 \/ i \in DOMAIN arr /\ arr'[i] = arr[i]
                                 \/ i \in DOMAIN hash /\ arr'[i] = hash[i]
        BY <2>2, <2>3
    <2> QED
        BY <1>4, <2>1, <2>4 DEF SlotsSafe, Safe
<1> QED
    BY <1>2, <1>6, <1>7, <1>8, <1>9

LEMMA AliveSetMode ==
    ASSUME TypeOK, OneSlotPerKey, AliveInv,
           NEW wk \in BOOLEAN, NEW wv \in BOOLEAN, SetMode(wk, wv)
    PROVE  AliveInv'
<1> DEFINE h == NewHash(wv)
<1>1. /\ h \in [DOMAIN hash -> Slots]
      /\ \/ wk = weakk /\ hash' = h /\ UNCHANGED <<keys, weakKeys>>
         \/ wk /\ ~weakk /\ ToWeak(h)
         \/ ~wk /\ weakk /\ ToStrong(h, wv)
      /\ DOMAIN arr' = DOMAIN arr
      /\ \A i \in DOMAIN arr : arr'[i] = Converted(arr[i], wv)
    BY SetModeParts
<1>2. SlotsSafe /\ UNCHANGED <<held, alive>> /\ Safe(Nil)
    BY SafeSlots, NilAssumption DEF AliveInv, SetMode, Safe, Keys
<1>3. \A i \in DOMAIN arr : Safe(arr'[i])
    BY <1>1, <1>2, SafeStore, PartTypes DEF SlotsSafe
<1>4. \A k \in DOMAIN hash : Safe(h[k])
    BY <1>2, SafeStore, PartTypes DEF SlotsSafe, NewHash
<1> HIDE DEF h
<1>5. SUFFICES SlotsSafe'
    BY <1>2, SafeSlotsNext DEF AliveInv, HeldAlive
<1>6. SUFFICES /\ \A k \in DOMAIN hash' : Safe(k) /\ Safe(hash'[k])
               /\ \A i \in DOMAIN weakKeys' : Safe(weakKeys'[i].val)
    BY <1>1, <1>2, <1>3, SMTT(30) DEF SlotsSafe, Safe
<1>7. CASE hash' = h /\ UNCHANGED weakKeys
    BY <1>1, <1>2, <1>4, <1>7, SMTT(30) DEF SlotsSafe
<1>8. CASE ~weakk /\ ToWeak(h)
    <2>1. DOMAIN hash' = DOMAIN hash /\ \A k \in DOMAIN hash : hash'[k] \in {h[k], Nil}
        BY <1>1, <1>8 DEF ToWeak, DropMigrated, HashDel
    <2>2. DOMAIN hash = {keys[i] : i \in DOMAIN keys} /\ weakKeys = <<>>
        BY <1>8 DEF OneSlotPerKey, KeysListHash, WeakKeysMoved
    <2>3. PICK s : /\ Lists(s, Moved(h))
                   /\ MovedEntries(h, s) \in Seq(Entries)
                   /\ weakKeys' = weakKeys \o MovedEntries(h, s)
        BY <1>1, <1>8, <2>2, ToWeakShape
    <2>4. weakKeys' = MovedEntries(h, s)
        BY <2>2, <2>3
    <2>5. \A i \in 1 .. Len(s) : keys[s[i]] \in DOMAIN hash
        BY <2>2, <2>3 DEF Lists, Moved
    <2>6. \A i \in DOMAIN weakKeys' : Safe(weakKeys'[i].val)
        BY <1>4, <2>4, <2>5 DEF MovedEntries
    <2> QED
        BY <1>2, <1>4, <2>1, <2>6, SMTT(30) DEF SlotsSafe
<1>9. CASE ToStrong(h, wv)
    <2>1. /\ DOMAIN hash' = DOMAIN hash \cup {weakKeys[i].key : i \in New(h)}
          /\ \A k \in DOMAIN hash' : Kept(h, k) \/ Returned(wv, k)
          /\ weakKeys' = <<>>
        BY <1>1, <1>9, ToStrongShape
    <2>2. \A i \in New(h) : Safe(weakKeys[i].key)
        BY DEF New, Back, Safe
    <2>3. \A i \in DOMAIN weakKeys : Safe(Stored(wv, i))
        BY <1>2, SafeStore, PartTypes DEF SlotsSafe, Stored
    <2> QED
        BY <1>2, <1>4, <2>1, <2>2, <2>3 DEF SlotsSafe, Kept, Returned
<1> QED
    BY <1>1, <1>7, <1>8, <1>9

LEMMA AliveStep ==
    ASSUME TypeOK, OneSlotPerKey, AliveInv, ReadsAs, [Next]_vars
    PROVE  AliveInv'
<1>1. ASSUME NEW w \in Keys \cup Floats, Get(w)
      PROVE  AliveInv'
    <2>1. NormKey(w) \in Keys
        BY NormKeyType
    <2>2. Safe(RawGet(NormKey(w))) /\ SlotsSafe /\ Safe(Nil)
        BY <2>1, SafeRead, SafeSlots, NilAssumption DEF AliveInv, Safe, Keys
    <2>3. UNCHANGED <<weakKeys, alive>>
          /\ held' = held \cup ({RawGet(NormKey(w))} \cap Objects)
        BY <1>1 DEF Get
    <2>4. HeldAlive'
        BY <2>2, <2>3 DEF AliveInv, HeldAlive, Safe
    <2>5. /\ DOMAIN arr' = DOMAIN arr /\ \A i \in DOMAIN arr : arr'[i] \in {arr[i], Nil}
          /\ DOMAIN hash' = DOMAIN hash /\ \A k \in DOMAIN hash : hash'[k] \in {hash[k], Nil}
        BY <1>1 DEF Get
    <2>6. SlotsSafe'
        BY <2>2, <2>3, <2>5 DEF SlotsSafe, Safe
    <2> QED
        BY <2>4, <2>6, SafeSlotsNext DEF AliveInv
<1>2. ASSUME UNCHANGED <<fields, alive>>, HeldAlive'
      PROVE  AliveInv'
    BY <1>2 DEF AliveInv, RetainedAlive, Retains, fields
<1>3. CASE Walk
    <2>1. Present(NextKey(cursor))
        BY <1>3, NextKeyPresent DEF Walk
    <2>2. Safe(NextKey(cursor)) /\ Safe(RawGet(NextKey(cursor)))
        BY <2>1, SafeRead DEF Present
    <2>3. /\ held' = held \cup ({NextKey(cursor), RawGet(NextKey(cursor))} \cap Objects)
          /\ UNCHANGED <<fields, alive>>
        BY <1>3 DEF Walk
    <2>4. HeldAlive'
        BY <2>2, <2>3 DEF AliveInv, HeldAlive, Safe
    <2> QED
        BY <1>2, <2>3, <2>4
<1>4. CASE WalkEnds \/ LengthStart \/ LengthStep \/ LengthEnd \/ UNCHANGED vars
    BY <1>2, <1>4 DEF WalkEnds, LengthStart, LengthStep, LengthEnd, vars, AliveInv, HeldAlive
<1>5. ASSUME NEW o \in Objects, Drop(o)
      PROVE  AliveInv'
    BY <1>2, <1>5 DEF Drop, AliveInv, HeldAlive
<1>6. ASSUME NEW o \in Objects, Collect(o)
      PROVE  AliveInv'
    BY <1>6 DEF Collect, AliveInv, HeldAlive, RetainedAlive, Retains, fields
<1> QED
    BY <1>1, <1>3, <1>4, <1>5, <1>6, AliveSet, AliveSetMode DEF Next

\* Every step of the table is a step of the map, or changes nothing of it.
LEMMA MapStep ==
    ASSUME TypeOK, TypeOK', OneSlotPerKey, OneSlotPerKey', AliveInv, [Next]_vars
    PROVE  [Abstract!Next]_(Abstract!vars)
<1> DEFINE c == [k \in Keys |-> RawGet(k)]
<1>1. ReadsAs /\ ReadsAs'
    BY ReadsAsHolds, ReadsAsNext
<1>2. ASSUME SameReads PROVE c' = c
    BY <1>2 DEF SameReads
<1>3. ASSUME SameReads, UNCHANGED held PROVE UNCHANGED Abstract!vars
    BY <1>2, <1>3 DEF Abstract!vars
<1>4. ASSUME NEW S \in SUBSET Objects, SameReads, held' = held \cup S,
             \A o \in S : (o \in Keys /\ c[o] # Nil) \/ \E k \in Keys : c[k] = o
      PROVE  Abstract!Next
    <2>1. Abstract!Obtain(S)
        BY <1>2, <1>4 DEF Abstract!Obtain
    <2> QED
        BY <2>1 DEF Abstract!Next
<1>5. ASSUME NEW w \in Keys \cup Floats, Get(w)
      PROVE  Abstract!Next
    <2> DEFINE S == {RawGet(NormKey(w))} \cap Objects
    <2>1. NormKey(w) \in Keys
        BY NormKeyType
    <2>2. SameReads
        BY <1>1, <1>5, GetReads
    <2>3. held' = held \cup S
        BY <1>5 DEF Get
    <2>4. \A o \in S : \E k \in Keys : c[k] = o
        BY <2>1
    <2> QED
        BY <1>4, <2>2, <2>3, <2>4
<1>6. ASSUME NEW w \in Keys \cup Floats, NEW v \in Values \cup {Nil}, Set(w, v)
      PROVE  Abstract!Next
    <2> DEFINE k == NormKey(w)
    <2>1. k \in Keys /\ v \in Readable
        BY NormKeyType DEF Readable
    <2>2. \/ SetArray(k, v) \/ SetHash(k, v) \/ SetWeakKey(k, v)
          \/ \E m \in Indexes : AppendArray(k, v, m)
        BY <1>6 DEF Set
    <2> HIDE DEF k
    <2>3. ReadsChanged(k, v)
        BY <1>1, <2>1, <2>2, SetArrayReads, SetHashReads, SetWeakKeyReads, AppendArrayReads
    <2>4. ({k, v} \cap Objects) \subseteq held /\ UNCHANGED held
        BY <2>2 DEF SetArray, SetHash, SetWeakKey, AppendArray, Assigned
    <2>5. c' = [c EXCEPT ![k] = v]
        BY <2>1, <2>3 DEF ReadsChanged
    <2>6. Abstract!Assign(k, v)
        BY <2>4, <2>5 DEF Abstract!Assign
    <2> QED
        BY <2>1, <2>6 DEF Abstract!Next, Abstract!Values, Values
<1>7. ASSUME NEW wk \in BOOLEAN, NEW wv \in BOOLEAN, SetMode(wk, wv)
      PROVE  UNCHANGED Abstract!vars
    BY <1>1, <1>3, <1>7, SetModeReads DEF SetMode
<1>8. ASSUME UNCHANGED <<fields, alive>> PROVE SameReads
    BY <1>8 DEF SameReads, RawGet, InWeakList, WeakKeyGet, WeakSlots, WeakIndex,
                HashVal, Deref, fields
<1>9. CASE Walk
    <2> DEFINE k == NextKey(cursor)
               S == {k, RawGet(k)} \cap Objects
    <2>1. k \in Keys /\ RawGet(k) # Nil
        BY <1>1, <1>9, NextKeyPresent DEF Walk, Present
    <2>2. held' = held \cup S /\ SameReads
        BY <1>8, <1>9 DEF Walk
    <2> HIDE DEF k
    <2>3. \A o \in S : (o \in Keys /\ c[o] # Nil) \/ \E j \in Keys : c[j] = o
        BY <2>1
    <2> QED
        BY <1>4, <2>2, <2>3
<1>10. CASE WalkEnds \/ LengthStart \/ LengthStep \/ LengthEnd \/ UNCHANGED vars
    BY <1>3, <1>8, <1>10 DEF WalkEnds, LengthStart, LengthStep, LengthEnd, vars
<1>11. ASSUME NEW o \in Objects, Drop(o)
       PROVE  Abstract!Next
    <2>1. held' = held \ {o} /\ c' = c
        BY <1>2, <1>8, <1>11 DEF Drop
    <2>2. Abstract!Drop(o)
        BY <2>1 DEF Abstract!Drop
    <2> QED
        BY <2>2 DEF Abstract!Next
<1>12. ASSUME NEW o \in Objects, Collect(o)
       PROVE  Abstract!Next
    <2>1. o \notin held /\ UNCHANGED held
        BY <1>12 DEF Collect
    <2>2. c' = [k \in Keys |-> IF k = o \/ c[k] = o THEN Nil ELSE c[k]]
        BY <1>1, <1>12, CollectReads
    <2>3. Abstract!Collect(o)
        BY <2>1, <2>2 DEF Abstract!Collect
    <2> QED
        BY <2>3 DEF Abstract!Next
<1> QED
    BY <1>5, <1>6, <1>7, <1>9, <1>10, <1>11, <1>12 DEF Next

\* The table with its array part, hash part and weak-key list is the map of
\* LuaTable (ltable.go, lgc_weakkey.go): what is assigned reads back until it
\* is assigned again or its object is collected, whatever the code moves
\* between the parts.
THEOREM TableIsAMap == Spec => Refines
<1>1. Init => AliveInv
    BY DEF Init, AliveInv, HeldAlive, RetainedAlive, Retains
<1>2. TypeOK /\ OneSlotPerKey /\ AliveInv /\ [Next]_vars => AliveInv'
    BY AliveStep, ReadsAsHolds
<1>3. Init => Abstract!Init
    <2>1. Deref(Nil) = Nil
        BY NilSlot
    <2>2. Init => \A k \in Keys : RawGet(k) = Nil
        BY <2>1 DEF Init, RawGet, InWeakList, HashVal
    <2> QED
        BY <2>2 DEF Init, Abstract!Init
<1>4. /\ TypeOK /\ TypeOK' /\ OneSlotPerKey /\ OneSlotPerKey' /\ AliveInv /\ [Next]_vars
      => [Abstract!Next]_(Abstract!vars)
    BY MapStep
<1> QED
    BY <1>1, <1>2, <1>3, <1>4, TypeCorrect, KeyHasOneSlot, PTL DEF Spec, Refines, Abstract!Spec

-----------------------------------------------------------------------------
(* A pairs loop.  The places of the three parts, numbered one after        *)
(* another, are the order in which next goes.                              *)

\* Key k is live at place n.
LivesAt(k, n) ==
    \/ /\ n \in DOMAIN arr /\ k = n
       /\ Deref(arr[n]) # Nil
    \/ LET i == n - Len(arr) IN
       /\ i \in DOMAIN keys /\ k = keys[i]
       /\ Deref(hash[k]) # Nil
    \/ LET i == n - Len(arr) - Len(keys) IN
       /\ i \in DOMAIN weakKeys /\ k = weakKeys[i].key
       /\ k \in alive /\ Deref(weakKeys[i].val) # Nil

\* The place where next looks for a key, 0 where a loop begins.
PlaceOf(k) ==
    IF InWeakList(k) THEN Len(arr) + Len(keys) + WeakIndex(k)
    ELSE IF k = Nil THEN 0
    ELSE IF k \in DOMAIN arr THEN k
    ELSE Len(arr) + Min(Places(k))

\* The cursor still has a place: a key of the weak list loses it when cleared.
Found == cursor # Nil /\ (InWeakList(cursor) => WeakSlots(cursor) # {})

\* The cursor is at a place, what the loop has visited and is live is not after
\* it, and what it owes is live after it.
CursorPlaced ==
    cursor # Nil /\ ~InWeakList(cursor) => cursor \in DOMAIN arr \cup DOMAIN hash
DueLive == \A k \in due : RawGet(k) # Nil
SeenBehind ==
    Found => \A k \in seen, n \in Nat : LivesAt(k, n) => n <= PlaceOf(cursor)
DueAhead ==
    Found => \A k \in due, n \in Nat : LivesAt(k, n) => n > PlaceOf(cursor)
NoLoop == cursor = Nil => seen = {} /\ due = {}
LoopInv == NoLoop /\ CursorPlaced /\ DueLive /\ SeenBehind /\ DueAhead

LEMMA LiveType ==
    ASSUME TypeOK, NEW k, NEW n \in Nat, LivesAt(k, n)
    PROVE  k \in Keys /\ k # Nil /\ n > 0
<1>1. /\ DOMAIN arr = 1 .. Len(arr) /\ Len(arr) \in Nat
      /\ DOMAIN keys = 1 .. Len(keys) /\ Len(keys) \in Nat
      /\ DOMAIN weakKeys = 1 .. Len(weakKeys) /\ Len(weakKeys) \in Nat
      /\ DOMAIN arr \subseteq Indexes /\ alive \subseteq Objects
      /\ \A i \in DOMAIN keys : keys[i] \in Keys
    BY PartTypes DEF TypeOK
<1>2. n > 0
    BY <1>1 DEF LivesAt
<1>3. k \in Keys
    BY <1>1 DEF LivesAt, Keys
<1> QED
    BY <1>2, <1>3, NilAssumption

\* One key is live at a place.
LEMMA OneKeyThere ==
    ASSUME TypeOK, NEW j, NEW k, NEW n \in Nat, LivesAt(j, n), LivesAt(k, n)
    PROVE  j = k
BY PartTypes DEF LivesAt

\* A live key has a place, and next looks for it there.
LEMMA LiveIsFound ==
    ASSUME TypeOK, OneSlotPerKey, NEW k, NEW n \in Nat, LivesAt(k, n)
    PROVE  PlaceOf(k) = n /\ (InWeakList(k) => WeakSlots(k) # {})
<1>1. /\ DOMAIN arr = 1 .. Len(arr) /\ Len(arr) \in Nat
      /\ DOMAIN keys = 1 .. Len(keys) /\ Len(keys) \in Nat
      /\ DOMAIN weakKeys = 1 .. Len(weakKeys) /\ Len(weakKeys) \in Nat
      /\ Deref(Nil) = Nil
    BY PartTypes, NilSlot
<1>2. k # Nil /\ k \in Keys
    BY LiveType
<1>3. CASE n \in DOMAIN arr /\ k = n
    <2>1. k \notin Objects
        BY <1>1, <1>3, KeyAssumption
    <2> QED
        BY <1>2, <1>3, <2>1 DEF PlaceOf, InWeakList
<1>4. ASSUME NEW i, i = n - Len(arr), i \in DOMAIN keys, k = keys[i], Deref(hash[k]) # Nil
      PROVE  PlaceOf(k) = n /\ (InWeakList(k) => WeakSlots(k) # {})
    <2>1. k \in DOMAIN hash /\ hash[k] # Nil
        BY <1>1, <1>4 DEF OneSlotPerKey, KeysListHash
    <2>2. ~InWeakList(k) /\ k \notin DOMAIN arr
        BY <1>1, <2>1 DEF OneSlotPerKey, WeakKeysMoved, NothingHidden, InWeakList
    <2>3. i \in Places(k) /\ \A j \in Places(k) : j = i
        BY <1>4 DEF Places, OneSlotPerKey, KeysListHash
    <2>4. Places(k) \in SUBSET Nat
        BY <1>1 DEF Places
    <2>5. Min(Places(k)) = i
        BY <2>3, <2>4, MinPlace
    <2> QED
        BY <1>1, <1>2, <1>4, <2>2, <2>5 DEF PlaceOf
<1>5. ASSUME NEW i, i = n - Len(arr) - Len(keys), i \in DOMAIN weakKeys,
             k = weakKeys[i].key, k \in alive, Deref(weakKeys[i].val) # Nil
      PROVE  PlaceOf(k) = n /\ (InWeakList(k) => WeakSlots(k) # {})
    <2>1. k \in Objects /\ weakk
        BY <1>1, <1>5 DEF TypeOK, OneSlotPerKey, WeakKeysMoved
    <2>2. i \in WeakSlots(k) /\ \A j \in WeakSlots(k) : j = i
        BY <1>5, <2>1 DEF WeakSlots, OneSlotPerKey, WeakListOnce
    <2>3. WeakIndex(k) = i
        BY <2>2, ReadTypes
    <2> QED
        BY <1>1, <1>5, <2>1, <2>2, <2>3 DEF PlaceOf, InWeakList
<1> QED
    BY <1>3, <1>4, <1>5 DEF LivesAt

\* A key that is present is live at some place.
LEMMA PresentIsLive ==
    ASSUME TypeOK, OneSlotPerKey, NEW k \in Keys, RawGet(k) # Nil
    PROVE  \E n \in Nat : LivesAt(k, n)
<1>1. /\ DOMAIN arr = 1 .. Len(arr) /\ Len(arr) \in Nat
      /\ DOMAIN keys = 1 .. Len(keys) /\ Len(keys) \in Nat
      /\ DOMAIN weakKeys = 1 .. Len(weakKeys) /\ Len(weakKeys) \in Nat
      /\ Deref(Nil) = Nil
    BY PartTypes, NilSlot
<1>2. CASE InWeakList(k)
    <2> DEFINE i == WeakIndex(k)
    <2>1. WeakSlots(k) # {} /\ Deref(weakKeys[i].val) # Nil
        BY <1>2 DEF RawGet, WeakKeyGet
    <2>2. i \in WeakSlots(k)
        BY <2>1, ReadTypes
    <2>3. i \in DOMAIN weakKeys /\ weakKeys[i].key = k /\ k \in alive
        BY <2>2 DEF WeakSlots
    <2> HIDE DEF i
    <2>4. LivesAt(k, i + Len(arr) + Len(keys)) /\ i + Len(arr) + Len(keys) \in Nat
        BY <1>1, <2>1, <2>3 DEF LivesAt
    <2> QED
        BY <2>4
<1>3. CASE ~InWeakList(k) /\ k \in DOMAIN arr
    <2>1. LivesAt(k, k) /\ k \in Nat
        BY <1>1, <1>3 DEF RawGet, LivesAt
    <2> QED
        BY <2>1
<1>4. CASE ~InWeakList(k) /\ k \notin DOMAIN arr
    <2>1. k \in DOMAIN hash /\ Deref(hash[k]) # Nil
        BY <1>1, <1>4 DEF RawGet, HashVal
    <2>2. PICK i \in DOMAIN keys : keys[i] = k
        BY <2>1 DEF OneSlotPerKey, KeysListHash
    <2>3. LivesAt(k, i + Len(arr)) /\ i + Len(arr) \in Nat
        BY <1>1, <2>1, <2>2 DEF LivesAt
    <2> QED
        BY <2>3
<1> QED
    BY <1>2, <1>3, <1>4

\* r is the first live key after place p, or there is none.
FirstAfter(p, r) ==
    \/ r = Nil /\ \A k, n : n \in Nat /\ LivesAt(k, n) => n <= p
    \/ \E n \in Nat : /\ n > p /\ LivesAt(r, n)
                      /\ \A k, m : m \in Nat /\ LivesAt(k, m) => m <= p \/ m >= n

LEMMA FirstWeakAfter ==
    ASSUME TypeOK, NEW p \in Nat
    PROVE  FirstAfter(Len(arr) + Len(keys) + p, FirstWeak(p))
<1> DEFINE live == {i \in p + 1 .. Len(weakKeys) : /\ weakKeys[i].key \in alive
                                                   /\ Deref(weakKeys[i].val) # Nil}
           q == Len(arr) + Len(keys)
<1>1. /\ DOMAIN arr = 1 .. Len(arr) /\ Len(arr) \in Nat
      /\ DOMAIN keys = 1 .. Len(keys) /\ Len(keys) \in Nat
      /\ DOMAIN weakKeys = 1 .. Len(weakKeys) /\ Len(weakKeys) \in Nat
    BY PartTypes
<1>2. live \in SUBSET Nat
    BY <1>1
<1>3. \A k, m : m \in Nat /\ LivesAt(k, m) => m <= q + p \/ m - q \in live
    BY <1>1 DEF LivesAt
<1>4. \A i \in live : i > p /\ LivesAt(weakKeys[i].key, q + i) /\ q + i \in Nat
    BY <1>1 DEF LivesAt
<1>5. CASE live = {}
    BY <1>3, <1>5 DEF FirstWeak, FirstAfter
<1>6. CASE live # {}
    <2>1. FirstWeak(p) = weakKeys[Min(live)].key
        BY <1>6 DEF FirstWeak
    <2>2. Min(live) \in live /\ \A i \in live : Min(live) <= i
        BY <1>2, <1>6, MinPlace
    <2> DEFINE j == Min(live)
    <2>3. j \in live /\ j \in Nat /\ \A i \in live : j <= i
        BY <1>2, <2>2
    <2>4. q + j \in Nat /\ q + j > q + p /\ LivesAt(FirstWeak(p), q + j)
        BY <1>1, <1>4, <2>1, <2>3
    <2> HIDE DEF j, live
    <2>5. \A k, m : m \in Nat /\ LivesAt(k, m) => m <= q + p \/ m >= q + j
        <3> SUFFICES ASSUME NEW k, NEW m, m \in Nat, LivesAt(k, m), ~(m <= q + p)
                     PROVE  m >= q + j
            OBVIOUS
        <3>1. j <= m - q
            BY <1>3, <2>3
        <3> QED
            BY <1>1, <2>3, <3>1
    <2> QED
        BY <2>4, <2>5 DEF FirstAfter
<1> QED
    BY <1>5, <1>6

\* A part without live entries is passed over.
LEMMA PassOver ==
    ASSUME NEW p \in Nat, NEW q \in Nat, p <= q, NEW r, FirstAfter(q, r),
           \A k, n : n \in Nat /\ LivesAt(k, n) => n <= p \/ n > q
    PROVE  FirstAfter(p, r)
BY DEF FirstAfter

LEMMA FirstHashAfter ==
    ASSUME TypeOK, NEW p \in Nat, p <= Len(keys)
    PROVE  FirstAfter(Len(arr) + p, FirstHash(p))
<1> DEFINE live == {i \in p + 1 .. Len(keys) : Deref(hash[keys[i]]) # Nil}
           q == Len(arr)
<1>1. /\ DOMAIN arr = 1 .. Len(arr) /\ Len(arr) \in Nat
      /\ DOMAIN keys = 1 .. Len(keys) /\ Len(keys) \in Nat
      /\ DOMAIN weakKeys = 1 .. Len(weakKeys) /\ Len(weakKeys) \in Nat
    BY PartTypes
<1>2. live \in SUBSET Nat
    BY <1>1
<1>3. \A k, m : m \in Nat /\ LivesAt(k, m) =>
                    m <= q + p \/ m > q + Len(keys) \/ m - q \in live
    BY <1>1 DEF LivesAt
<1>4. \A i \in live : i > p /\ i <= Len(keys) /\ LivesAt(keys[i], q + i)
    BY <1>1 DEF LivesAt
<1>5. CASE live = {}
    <2>1. FirstHash(p) = FirstWeak(0)
        BY <1>5 DEF FirstHash
    <2>2. FirstAfter(q + Len(keys), FirstHash(p))
        BY <1>1, <2>1, FirstWeakAfter
    <2>3. q + p \in Nat /\ q + Len(keys) \in Nat /\ q + p <= q + Len(keys)
        BY <1>1
    <2> QED
        BY <1>3, <1>5, <2>2, <2>3, PassOver
<1>6. CASE live # {}
    <2> DEFINE j == Min(live)
    <2>1. FirstHash(p) = keys[j]
        BY <1>6 DEF FirstHash
    <2>2. Min(live) \in live /\ \A i \in live : Min(live) <= i
        BY <1>2, <1>6, MinPlace
    <2>3. j \in live /\ j \in Nat /\ j <= Len(keys) /\ \A i \in live : j <= i
        BY <1>2, <1>4, <2>2
    <2> HIDE DEF j, live
    <2>4. q + j \in Nat /\ q + j > q + p /\ LivesAt(FirstHash(p), q + j)
        BY <1>1, <1>4, <2>1, <2>3
    <2>5. \A k, m : m \in Nat /\ LivesAt(k, m) => m <= q + p \/ m >= q + j
        <3> SUFFICES ASSUME NEW k, NEW m, m \in Nat, LivesAt(k, m), ~(m <= q + p)
                     PROVE  m >= q + j
            OBVIOUS
        <3>1. m > q + Len(keys) \/ j <= m - q
            BY <1>3, <2>3
        <3> QED
            BY <1>1, <2>3, <3>1
    <2> QED
        BY <2>4, <2>5 DEF FirstAfter
<1> QED
    BY <1>5, <1>6

LEMMA FirstArrayAfter ==
    ASSUME TypeOK, NEW p \in Nat, p <= Len(arr)
    PROVE  FirstAfter(p, FirstArray(p))
<1> DEFINE live == {i \in p + 1 .. Len(arr) : Deref(arr[i]) # Nil}
<1>1. /\ DOMAIN arr = 1 .. Len(arr) /\ Len(arr) \in Nat
      /\ DOMAIN keys = 1 .. Len(keys) /\ Len(keys) \in Nat
      /\ DOMAIN weakKeys = 1 .. Len(weakKeys) /\ Len(weakKeys) \in Nat
    BY PartTypes
<1>2. live \in SUBSET Nat
    BY <1>1
<1>3. \A k, m : m \in Nat /\ LivesAt(k, m) => m <= p \/ m > Len(arr) \/ m \in live
    BY <1>1 DEF LivesAt
<1>4. \A i \in live : i > p /\ i <= Len(arr) /\ LivesAt(i, i)
    BY <1>1 DEF LivesAt
<1>5. CASE live = {}
    <2>1. FirstArray(p) = FirstHash(0)
        BY <1>5 DEF FirstArray
    <2>2. FirstAfter(Len(arr) + 0, FirstArray(p))
        BY <1>1, <2>1, FirstHashAfter
    <2>3. Len(arr) + 0 = Len(arr)
        BY <1>1
    <2> QED
        BY <1>1, <1>3, <1>5, <2>2, <2>3, PassOver
<1>6. CASE live # {}
    <2>1. FirstArray(p) = Min(live)
        BY <1>6 DEF FirstArray
    <2>2. Min(live) \in live /\ \A i \in live : Min(live) <= i
        BY <1>2, <1>6, MinPlace
    <2> DEFINE j == Min(live)
    <2>3. j \in live /\ j \in Nat /\ j <= Len(arr) /\ \A i \in live : j <= i
        BY <1>2, <1>4, <2>2
    <2>4. j > p /\ LivesAt(FirstArray(p), j)
        BY <1>4, <2>1, <2>3
    <2> HIDE DEF j, live
    <2>5. \A k, m : m \in Nat /\ LivesAt(k, m) => m <= p \/ m >= j
        <3> SUFFICES ASSUME NEW k, NEW m, m \in Nat, LivesAt(k, m), ~(m <= p)
                     PROVE  m >= j
            OBVIOUS
        <3>1. m > Len(arr) \/ j <= m
            BY <1>3, <2>3
        <3> QED
            BY <1>1, <2>3, <3>1
    <2> QED
        BY <2>3, <2>4, <2>5 DEF FirstAfter
<1> QED
    BY <1>5, <1>6

\* What next returns: the first live key after the place of its argument.
LEMMA NextIsFirst ==
    ASSUME TypeOK, OneSlotPerKey, CursorPlaced, NextKey(cursor) # NotFound
    PROVE  PlaceOf(cursor) \in Nat /\ FirstAfter(PlaceOf(cursor), NextKey(cursor))
<1>1. /\ DOMAIN arr = 1 .. Len(arr) /\ Len(arr) \in Nat
      /\ DOMAIN keys = 1 .. Len(keys) /\ Len(keys) \in Nat
      /\ DOMAIN weakKeys = 1 .. Len(weakKeys) /\ Len(weakKeys) \in Nat
    BY PartTypes
<1>2. CASE InWeakList(cursor)
    <2> DEFINE i == WeakIndex(cursor)
    <2>1. WeakSlots(cursor) # {} /\ NextKey(cursor) = FirstWeak(i)
        BY <1>2 DEF NextKey
    <2>2. i \in Nat
        BY <1>1, <2>1, ReadTypes DEF WeakSlots
    <2>3. PlaceOf(cursor) = Len(arr) + Len(keys) + i
        BY <1>2 DEF PlaceOf
    <2> HIDE DEF i
    <2>4. FirstAfter(Len(arr) + Len(keys) + i, FirstWeak(i))
        BY <2>2, FirstWeakAfter
    <2> QED
        BY <1>1, <2>1, <2>2, <2>3, <2>4
<1>3. CASE ~InWeakList(cursor) /\ cursor = Nil
    <2>1. NextKey(cursor) = FirstArray(0) /\ PlaceOf(cursor) = 0
        BY <1>3 DEF NextKey, PlaceOf
    <2> QED
        BY <1>1, <2>1, FirstArrayAfter
<1>4. CASE ~InWeakList(cursor) /\ cursor # Nil /\ cursor \in DOMAIN arr
    <2>1. NextKey(cursor) = FirstArray(cursor) /\ PlaceOf(cursor) = cursor
        BY <1>4 DEF NextKey, PlaceOf
    <2> QED
        BY <1>1, <1>4, <2>1, FirstArrayAfter
<1>5. CASE ~InWeakList(cursor) /\ cursor # Nil /\ cursor \notin DOMAIN arr
    <2> DEFINE m == Min(Places(cursor))
    <2>1. /\ Places(cursor) # {} /\ NextKey(cursor) = FirstHash(m)
          /\ PlaceOf(cursor) = Len(arr) + m
        BY <1>5 DEF NextKey, PlaceOf
    <2>2. Places(cursor) \in SUBSET Nat
        BY <1>1 DEF Places
    <2>3. m \in Places(cursor)
        BY <2>1, <2>2, MinPlace
    <2>4. m \in Nat /\ m <= Len(keys)
        BY <1>1, <2>3 DEF Places
    <2> HIDE DEF m
    <2> QED
        BY <1>1, <2>1, <2>4, FirstHashAfter
<1> QED
    BY <1>2, <1>3, <1>4, <1>5

\* A loop at a place can go on; one that has lost it fails.
LEMMA FoundGoesOn ==
    ASSUME TypeOK, OneSlotPerKey, CursorPlaced, cursor # Nil
    PROVE  NextKey(cursor) # NotFound <=> Found
<1>1. /\ DOMAIN arr = 1 .. Len(arr) /\ Len(arr) \in Nat
      /\ DOMAIN keys = 1 .. Len(keys) /\ Len(keys) \in Nat
    BY PartTypes
<1>2. ASSUME NEW p, NEW r, FirstAfter(p, r)
      PROVE  r # NotFound
    BY <1>2, LiveType, NilAssumption, NotFoundAssumption DEF FirstAfter
<1>3. CASE InWeakList(cursor)
    <2>1. CASE WeakSlots(cursor) = {}
        BY <1>3, <2>1 DEF NextKey, Found
    <2>2. CASE WeakSlots(cursor) # {}
        <3>1. WeakIndex(cursor) \in Nat
            BY <2>2, ReadTypes, PartTypes DEF WeakSlots
        <3>2. FirstWeak(WeakIndex(cursor)) # NotFound
            BY <1>2, <3>1, FirstWeakAfter
        <3> QED
            BY <1>3, <2>2, <3>2 DEF NextKey, Found
    <2> QED
        BY <2>1, <2>2
<1>4. CASE ~InWeakList(cursor) /\ cursor \in DOMAIN arr
    <2>1. FirstArray(cursor) # NotFound
        BY <1>1, <1>2, <1>4, FirstArrayAfter
    <2> QED
        BY <1>4, <2>1 DEF NextKey, Found
<1>5. CASE ~InWeakList(cursor) /\ cursor \notin DOMAIN arr
    <2>1. Places(cursor) # {} /\ Places(cursor) \in SUBSET (1 .. Len(keys))
        BY <1>1, <1>5 DEF CursorPlaced, OneSlotPerKey, KeysListHash, Places
    <2>2. Min(Places(cursor)) \in 1 .. Len(keys)
        BY <1>1, <2>1, MinPlace
    <2>3. FirstHash(Min(Places(cursor))) # NotFound
        BY <1>1, <1>2, <2>2, FirstHashAfter
    <2> QED
        BY <1>5, <2>1, <2>3 DEF NextKey, Found
<1> QED
    BY <1>3, <1>4, <1>5

\* What happens to a table while a loop runs over it: slots are emptied and
\* keys of the weak list erased, nothing moves and nothing is created.
Thinned ==
    /\ UNCHANGED <<keys, weakk>>
    /\ Len(arr') = Len(arr) /\ DOMAIN arr' = DOMAIN arr
    /\ DOMAIN hash' = DOMAIN hash
    /\ Len(weakKeys') = Len(weakKeys) /\ DOMAIN weakKeys' = DOMAIN weakKeys
    /\ alive' \subseteq alive
    /\ \A i \in DOMAIN arr :
          Shown(alive', arr'[i]) # Nil => Shown(alive, arr[i]) # Nil
    /\ \A k \in DOMAIN hash :
          Shown(alive', hash'[k]) # Nil => Shown(alive, hash[k]) # Nil
    /\ \A i \in DOMAIN weakKeys :
          /\ weakKeys'[i].key \in {weakKeys[i].key, Nil}
          /\ weakKeys'[i].key # Nil /\ Shown(alive', weakKeys'[i].val) # Nil
                => Shown(alive, weakKeys[i].val) # Nil

LEMMA ThinnedLives ==
    ASSUME TypeOK, TypeOK', OneSlotPerKey, Thinned,
           NEW k, NEW n \in Nat, LivesAt(k, n)'
    PROVE  LivesAt(k, n)
<1>1. \A x : Deref(x) = Shown(alive, x)
    BY DEF Deref, Shown
<1>2. Nil \notin alive'
    BY NilAssumption DEF TypeOK, Keys
<1>3. /\ Len(arr') = Len(arr) /\ Len(keys') = Len(keys) /\ keys' = keys
      /\ DOMAIN arr' = DOMAIN arr /\ DOMAIN weakKeys' = DOMAIN weakKeys
      /\ alive' \subseteq alive
    BY DEF Thinned
<1>4. CASE n \in DOMAIN arr' /\ k = n /\ Deref(arr[n])' # Nil
    <2>1. Shown(alive', arr'[n]) # Nil
        BY <1>4 DEF Deref, Shown
    <2> QED
        BY <1>1, <1>3, <1>4, <2>1 DEF Thinned, LivesAt
<1>5. ASSUME NEW i, i = n - Len(arr), i \in DOMAIN keys, k = keys[i], Deref(hash[k])' # Nil
      PROVE  LivesAt(k, n)
    <2>1. Shown(alive', hash'[k]) # Nil /\ k \in DOMAIN hash
        BY <1>5 DEF Deref, Shown, OneSlotPerKey, KeysListHash
    <2>2. Deref(hash[k]) # Nil
        BY <1>1, <2>1 DEF Thinned
    <2> QED
        BY <1>5, <2>2 DEF LivesAt
<1>6. ASSUME NEW i, i = n - Len(arr) - Len(keys), i \in DOMAIN weakKeys,
             k = weakKeys'[i].key, k \in alive', Deref(weakKeys[i].val)' # Nil
      PROVE  LivesAt(k, n)
    <2>1. Shown(alive', weakKeys'[i].val) # Nil /\ weakKeys'[i].key # Nil
        BY <1>2, <1>6 DEF Deref, Shown
    <2>2. Deref(weakKeys[i].val) # Nil /\ k = weakKeys[i].key /\ k \in alive
        BY <1>1, <1>3, <1>6, <2>1 DEF Thinned
    <2> QED
        BY <1>6, <2>2 DEF LivesAt
<1> QED
    BY <1>3, <1>4, <1>5, <1>6 DEF LivesAt

\* A cursor that still has a place has the place it had.
LEMMA ThinnedPlace ==
    ASSUME TypeOK, TypeOK', OneSlotPerKey, Thinned, UNCHANGED cursor, Found'
    PROVE  Found /\ PlaceOf(cursor)' = PlaceOf(cursor)
<1>1. /\ Len(arr') = Len(arr) /\ Len(keys') = Len(keys) /\ keys' = keys
      /\ DOMAIN arr' = DOMAIN arr /\ DOMAIN weakKeys' = DOMAIN weakKeys
      /\ alive' \subseteq alive /\ weakk' = weakk /\ cursor' = cursor
    BY DEF Thinned
<1>2. Nil \notin alive'
    BY NilAssumption DEF TypeOK, Keys
<1>3. Found
    <2> SUFFICES ASSUME InWeakList(cursor) PROVE WeakSlots(cursor) # {}
        BY <1>1 DEF Found
    <2>1. PICK i : i \in DOMAIN weakKeys' /\ weakKeys'[i].key = cursor /\ cursor \in alive'
        BY <1>1 DEF Found, InWeakList, WeakSlots
    <2>2. i \in WeakSlots(cursor)
        BY <1>1, <1>2, <2>1 DEF Thinned, WeakSlots
    <2> QED
        BY <2>2
<1>4. CASE InWeakList(cursor)
    <2>1. PICK i : i \in DOMAIN weakKeys' /\ weakKeys'[i].key = cursor /\ cursor \in alive'
        BY <1>1, <1>4 DEF Found, InWeakList, WeakSlots
    <2>2. cursor \in Objects
        BY <1>4 DEF InWeakList
    <2>3. \A j \in DOMAIN weakKeys' : weakKeys'[j].key = cursor => weakKeys[j].key = cursor
        BY <1>1, <1>2, <2>1 DEF Thinned
    <2>4. \A j \in DOMAIN weakKeys : weakKeys[j].key = cursor => j = i
        BY <1>1, <2>1, <2>2, <2>3 DEF OneSlotPerKey, WeakListOnce, WeakSlots
    <2>5. WeakSlots(cursor)' = {i} /\ WeakSlots(cursor) = {i}
        BY <1>1, <2>1, <2>3, <2>4 DEF WeakSlots
    <2>6. WeakIndex(cursor)' = WeakIndex(cursor)
        BY <2>5 DEF WeakIndex
    <2> QED
        BY <1>1, <1>3, <1>4, <2>6 DEF PlaceOf, InWeakList
<1>5. CASE ~InWeakList(cursor)
    <2>1. Min(Places(cursor))' = Min(Places(cursor))
        BY <1>1 DEF Places
    <2>2. ~InWeakList(cursor)'
        BY <1>1, <1>5 DEF InWeakList
    <2> QED
        BY <1>1, <1>3, <1>5, <2>1, <2>2 DEF PlaceOf
<1> QED
    BY <1>4, <1>5

\* Thinning the table and what the loop owes keeps the loop sound.
LEMMA ThinnedLoop ==
    ASSUME TypeOK, TypeOK', OneSlotPerKey, LoopInv, Thinned,
           UNCHANGED <<cursor, seen>>, due' \subseteq due, DueLive'
    PROVE  LoopInv'
<1>1. NoLoop'
    BY DEF LoopInv, NoLoop
<1>2. CursorPlaced'
    BY DEF LoopInv, CursorPlaced, Thinned, InWeakList
<1>3. SeenBehind'
    <2> SUFFICES ASSUME Found', NEW k \in seen, NEW n \in Nat, LivesAt(k, n)'
                 PROVE  n <= PlaceOf(cursor)'
        BY DEF SeenBehind
    <2>1. LivesAt(k, n)
        BY ThinnedLives
    <2>2. Found /\ PlaceOf(cursor)' = PlaceOf(cursor)
        BY ThinnedPlace
    <2> QED
        BY <2>1, <2>2 DEF LoopInv, SeenBehind
<1>4. DueAhead'
    <2> SUFFICES ASSUME Found', NEW k \in due', NEW n \in Nat, LivesAt(k, n)'
                 PROVE  n > PlaceOf(cursor)'
        BY DEF DueAhead
    <2>1. LivesAt(k, n)
        BY ThinnedLives
    <2>2. Found /\ PlaceOf(cursor)' = PlaceOf(cursor)
        BY ThinnedPlace
    <2> QED
        BY <2>1, <2>2 DEF LoopInv, DueAhead
<1> QED
    BY <1>1, <1>2, <1>3, <1>4 DEF LoopInv

LEMMA ForgottenLoop == LoopForgotten => LoopInv'
BY DEF LoopForgotten, LoopInv, NoLoop, CursorPlaced, DueLive, SeenBehind, DueAhead, Found

\* An assignment to a field that is there, or of nil, thins the table.
LEMMA SetThins ==
    ASSUME TypeOK, OneSlotPerKey, AliveInv, NEW k \in Keys, NEW v \in Readable,
           v # Nil => RawGet(k) # Nil,
           \/ SetArray(k, v) \/ SetHash(k, v) \/ SetWeakKey(k, v)
           \/ \E m \in Indexes : AppendArray(k, v, m)
    PROVE  Thinned
<1>1. Assigned(k, v)
    BY DEF SetArray, SetHash, SetWeakKey, AppendArray
<1>2. UNCHANGED <<weakk, alive>> /\ Shown(alive, WrapVal(v)) = v
    BY <1>1, AssignedReads
<1>3. /\ ReadsAs /\ \A x : Deref(x) = Shown(alive, x)
      /\ Shown(alive, Nil) = Nil
    BY ReadsAsHolds, ShownNil DEF Deref, Shown
<1>4. CASE SetArray(k, v)
    <2>1. /\ k \in DOMAIN arr /\ UNCHANGED <<hash, keys, weakKeys>>
          /\ Len(arr') = Len(arr) /\ DOMAIN arr' = DOMAIN arr
          /\ \A i \in DOMAIN arr : arr'[i] = IF i = k THEN WrapVal(v) ELSE arr[i]
          /\ ~(weakk /\ k \in Objects)
        BY <1>4, PartTypes DEF SetArray, InWeakList, TypeOK
    <2>2. RawGet(k) = Shown(alive, arr[k])
        BY <1>3, <2>1 DEF ReadsAs
    <2> QED
        BY <1>2, <2>1, <2>2 DEF Thinned
<1>5. CASE SetHash(k, v)
    <2>1. UNCHANGED <<arr, weakKeys>> /\ ~(weakk /\ k \in Objects) /\ k \notin DOMAIN arr
        BY <1>5 DEF SetHash, InWeakList
    <2>2. CASE v = Nil
        <3>1. /\ UNCHANGED keys /\ DOMAIN hash' = DOMAIN hash
              /\ \A j \in DOMAIN hash : hash'[j] \in {hash[j], Nil}
            BY <1>5, <2>2 DEF SetHash, HashDel
        <3> QED
            BY <1>2, <1>3, <2>1, <3>1 DEF Thinned
    <2>3. CASE v # Nil
        <3>1. k \in DOMAIN hash /\ RawGet(k) = Shown(alive, hash[k])
            BY <1>3, <2>1, <2>3 DEF ReadsAs
        <3>2. /\ UNCHANGED keys /\ DOMAIN hash' = DOMAIN hash
              /\ \A j \in DOMAIN hash : hash'[j] = IF j = k THEN WrapVal(v) ELSE hash[j]
            BY <1>5, <2>3, <3>1 DEF SetHash, AddKey
        <3> QED
            BY <1>2, <2>1, <2>3, <3>1, <3>2 DEF Thinned
    <2> QED
        BY <2>2, <2>3
<1>6. CASE SetWeakKey(k, v)
    <2>1. UNCHANGED <<arr, hash, keys>> /\ weakk /\ k \in Objects /\ InWeakList(k)
        BY <1>6 DEF SetWeakKey, InWeakList
    <2>2. RawGet(k) = WeakKeyGet(k)
        BY <2>1 DEF RawGet
    <2>3. CASE WeakSlots(k) = {}
        <3>1. RawGet(k) = Nil
            BY <2>2, <2>3 DEF WeakKeyGet
        <3>2. UNCHANGED weakKeys
            BY <1>6, <2>3, <3>1 DEF SetWeakKey
        <3> QED
            BY <1>2, <2>1, <3>2 DEF Thinned
    <2>4. CASE WeakSlots(k) # {}
        <3> DEFINE i == WeakIndex(k)
                   e == [key |-> IF v = Nil THEN Nil ELSE k, val |-> WrapVal(v)]
        <3>1. i \in DOMAIN weakKeys /\ weakKeys[i].key = k
            BY <2>4, ReadTypes DEF WeakSlots
        <3>2. RawGet(k) = Shown(alive, weakKeys[i].val)
            BY <1>3, <2>2, <2>4 DEF WeakKeyGet
        <3>3. weakKeys' = [weakKeys EXCEPT ![i] = e]
            BY <1>6, <2>4 DEF SetWeakKey
        <3>4. e.key \in {k, Nil} /\ (e.key # Nil => v # Nil) /\ e.val = WrapVal(v)
            OBVIOUS
        <3> HIDE DEF i, e
        <3>5. weakKeys \in Seq(Entries)
            BY DEF TypeOK
        <3>6. /\ Len(weakKeys') = Len(weakKeys) /\ DOMAIN weakKeys' = DOMAIN weakKeys
              /\ \A j \in DOMAIN weakKeys :
                    weakKeys'[j] = IF j = i THEN e ELSE weakKeys[j]
            BY <3>1, <3>3, <3>5
        <3> QED
            BY <1>2, <2>1, <3>1, <3>2, <3>4, <3>6 DEF Thinned
    <2> QED
        BY <2>3, <2>4
<1>7. ASSUME NEW m \in Indexes, AppendArray(k, v, m)
      PROVE  FALSE
    <2>1. v # Nil /\ ~InWeakList(k) /\ k = Len(arr) + 1
        BY <1>7 DEF AppendArray
    <2>2. Len(arr) \in Nat /\ DOMAIN arr = 1 .. Len(arr) /\ Deref(Nil) = Nil
        BY PartTypes, NilSlot
    <2>3. k \notin DOMAIN arr /\ k \in 1 .. Len(arr) + 1
        BY <2>1, <2>2
    <2>4. HashVal(k) = Nil
        BY <2>3 DEF HashVal, OneSlotPerKey, NothingHidden
    <2>5. RawGet(k) = Nil
        BY <2>1, <2>2, <2>3, <2>4 DEF RawGet
    <2> QED
        BY <2>1, <2>5
<1> QED
    BY <1>4, <1>5, <1>6, <1>7

LEMMA LoopSet ==
    ASSUME TypeOK, TypeOK', OneSlotPerKey, OneSlotPerKey', AliveInv, LoopInv,
           NEW w \in Keys \cup Floats, NEW v \in Values \cup {Nil}, Set(w, v)
    PROVE  LoopInv'
<1> DEFINE k == NormKey(w)
<1>1. k \in Keys /\ v \in Readable
    BY NormKeyType DEF Readable
<1>2. \/ SetArray(k, v) \/ SetHash(k, v) \/ SetWeakKey(k, v)
      \/ \E m \in Indexes : AppendArray(k, v, m)
    BY DEF Set
<1> HIDE DEF k
<1>3. Assigned(k, v)
    BY <1>2 DEF SetArray, SetHash, SetWeakKey, AppendArray
<1>4. CASE v # Nil /\ RawGet(k) = Nil
    BY <1>3, <1>4, ForgottenLoop DEF Assigned
<1>5. CASE v # Nil => RawGet(k) # Nil
    <2>1. Thinned
        BY <1>1, <1>2, <1>5, SetThins
    <2>2. /\ UNCHANGED <<cursor, seen>>
          /\ due' = IF v = Nil THEN due \ {k} ELSE due
        BY <1>3, <1>5 DEF Assigned
    <2>3. ReadsAs /\ ReadsAs'
        BY ReadsAsHolds, ReadsAsNext
    <2>4. ReadsChanged(k, v)
        BY <1>1, <1>2, <2>3, SetArrayReads, SetHashReads, SetWeakKeyReads, AppendArrayReads
    <2>5. due \subseteq Keys
        BY DEF TypeOK
    <2>6. DueLive'
        BY <2>2, <2>4, <2>5 DEF LoopInv, DueLive, ReadsChanged
    <2> QED
        BY <2>1, <2>2, <2>6, ThinnedLoop
<1> QED
    BY <1>4, <1>5

\* The loop goes on at the first live key after its place, so that nothing it
\* owes is passed over and nothing it has visited comes again.
LEMMA LoopWalk ==
    ASSUME TypeOK, TypeOK', OneSlotPerKey, AliveInv, LoopInv, Walk
    PROVE  LoopInv'
<1> DEFINE k == NextKey(cursor)
           p == PlaceOf(cursor)
<1>1. /\ k \notin {Nil, NotFound} /\ cursor' = k /\ seen' = seen \cup {k}
      /\ due' = (IF cursor = Nil THEN Live ELSE due) \ {k}
      /\ UNCHANGED <<fields, alive>>
    BY DEF Walk
<1>2. p \in Nat /\ FirstAfter(p, k)
    BY <1>1, NextIsFirst DEF LoopInv
<1>3. cursor # Nil => Found
    BY <1>1, FoundGoesOn DEF LoopInv
<1> HIDE DEF k, p
<1>4. PICK n \in Nat : /\ n > p /\ LivesAt(k, n)
                       /\ \A j, m : m \in Nat /\ LivesAt(j, m) => m <= p \/ m >= n
    BY <1>1, <1>2 DEF FirstAfter
<1>5. k \in Keys /\ PlaceOf(k) = n /\ (InWeakList(k) => WeakSlots(k) # {})
    BY <1>4, LiveType, LiveIsFound
<1>6. /\ \A j : PlaceOf(j)' = PlaceOf(j)
      /\ \A j, m : LivesAt(j, m)' <=> LivesAt(j, m)
      /\ \A j : RawGet(j)' = RawGet(j)
      /\ \A j : InWeakList(j)' <=> InWeakList(j)
    BY <1>1 DEF fields, PlaceOf, LivesAt, RawGet, WeakKeyGet, WeakIndex, WeakSlots,
                InWeakList, HashVal, Deref, Places
<1>7. PlaceOf(cursor)' = n
    BY <1>1, <1>5, <1>6
<1>8. NoLoop'
    BY <1>1 DEF NoLoop
<1>9. CursorPlaced'
    <2> SUFFICES ASSUME ~InWeakList(k)
                 PROVE  k \in DOMAIN arr \cup DOMAIN hash
        BY <1>1 DEF CursorPlaced, fields, InWeakList
    <2>1. ~(\E i \in DOMAIN weakKeys : weakKeys[i].key = k /\ k \in alive)
        BY DEF InWeakList, TypeOK, OneSlotPerKey, WeakKeysMoved
    <2> QED
        BY <1>4, <2>1 DEF LivesAt, OneSlotPerKey, KeysListHash
<1>10. DueLive'
    BY <1>1, <1>6 DEF LoopInv, DueLive, Live
<1>11. SeenBehind'
    <2> SUFFICES ASSUME NEW j \in seen', NEW m \in Nat, LivesAt(j, m)
                 PROVE  m <= n
        BY <1>6, <1>7 DEF SeenBehind
    <2>1. CASE j = k
        BY <1>4, <2>1, LiveIsFound
    <2>2. CASE j \in seen
        BY <1>2, <1>3, <1>4, <2>2 DEF LoopInv, NoLoop, SeenBehind, p
    <2> QED
        BY <1>1, <2>1, <2>2
<1>12. DueAhead'
    <2> SUFFICES ASSUME NEW j \in due', NEW m \in Nat, LivesAt(j, m)
                 PROVE  m > n
        BY <1>6, <1>7 DEF DueAhead
    <2>1. m >= n
        <3>1. m > p
            <4>1. CASE cursor = Nil
                <5>1. p = 0
                    BY <4>1, NilAssumption DEF p, PlaceOf, InWeakList, Keys
                <5> QED
                    BY <5>1, LiveType
            <4>2. CASE cursor # Nil
                BY <1>1, <1>3, <4>2 DEF LoopInv, DueAhead, p
            <4> QED
                BY <4>1, <4>2
        <3> QED
            BY <1>2, <1>4, <3>1
    <2>2. m # n
        <3>1. j # k
            BY <1>1
        <3> QED
            BY <1>4, <3>1, OneKeyThere
    <2> QED
        BY <2>1, <2>2
<1> QED
    BY <1>8, <1>9, <1>10, <1>11, <1>12 DEF LoopInv

LEMMA LoopStep ==
    ASSUME TypeOK, TypeOK', OneSlotPerKey, OneSlotPerKey', AliveInv, LoopInv, [Next]_vars
    PROVE  LoopInv'
<1>1. ReadsAs /\ ReadsAs'
    BY ReadsAsHolds, ReadsAsNext
<1>2. ASSUME UNCHANGED <<fields, alive, loop>>
      PROVE  LoopInv'
    <2>1. /\ \A j : RawGet(j)' = RawGet(j)
          /\ Thinned /\ UNCHANGED <<cursor, seen, due>>
        BY <1>2 DEF fields, loop, RawGet, WeakKeyGet, WeakIndex, WeakSlots,
                    InWeakList, HashVal, Deref, Thinned
    <2> QED
        BY <2>1, ThinnedLoop DEF LoopInv, DueLive
<1>3. ASSUME NEW w \in Keys \cup Floats, Get(w)
      PROVE  LoopInv'
    <2> DEFINE k == NormKey(w)
    <2>1. k \in Keys /\ SameReads
        BY <1>1, <1>3, NormKeyType, GetReads
    <2>2. /\ UNCHANGED <<keys, weakKeys, weakk, alive, cursor, seen, due>>
          /\ Len(arr') = Len(arr) /\ DOMAIN arr' = DOMAIN arr
          /\ \A i \in DOMAIN arr : arr'[i] \in {arr[i], Nil}
          /\ DOMAIN hash' = DOMAIN hash
          /\ \A j \in DOMAIN hash : hash'[j] \in {hash[j], Nil}
        BY <1>3, PartTypes DEF Get, loop, TypeOK
    <2>3. Thinned
        BY <2>2, ShownNil DEF Thinned
    <2>4. DueLive'
        BY <2>1, <2>2 DEF SameReads, LoopInv, DueLive, TypeOK
    <2> QED
        BY <2>2, <2>3, <2>4, ThinnedLoop
<1>4. CASE WalkEnds \/ \E wk, wv \in BOOLEAN : SetMode(wk, wv)
    BY <1>4, ForgottenLoop DEF WalkEnds, SetMode
<1>5. CASE LengthStart \/ LengthStep \/ LengthEnd \/ UNCHANGED vars
    BY <1>2, <1>5 DEF LengthStart, LengthStep, LengthEnd, vars
<1>6. ASSUME NEW o \in Objects, Drop(o)
      PROVE  LoopInv'
    BY <1>2, <1>6 DEF Drop
<1>7. ASSUME NEW o \in Objects, Collect(o)
      PROVE  LoopInv'
    <2>1. /\ UNCHANGED <<fields, cursor, seen>> /\ alive' = alive \ {o}
          /\ due' = {k \in due : RawGet(k)' # Nil}
        BY <1>7 DEF Collect
    <2>2. \A x : Shown(alive', x) # Nil => Shown(alive, x) # Nil
        BY <2>1, NilAssumption DEF Shown, Cells, Keys
    <2>3. Thinned
        BY <2>1, <2>2 DEF Thinned, fields
    <2>4. DueLive' /\ due' \subseteq due
        BY <2>1 DEF DueLive
    <2> QED
        BY <2>1, <2>3, <2>4, ThinnedLoop
<1> QED
    BY <1>3, <1>4, <1>5, <1>6, <1>7, LoopSet, LoopWalk DEF Next

LEMMA LoopInvSound ==
    ASSUME TypeOK, OneSlotPerKey, LoopInv
    PROVE  LoopIsSound
<1>1. OrdinaryNextFinds
    BY FoundGoesOn DEF LoopInv, OrdinaryNextFinds, Found
<1>2. ASSUME cursor # Nil, NextKey(cursor) \in seen
      PROVE  FALSE
    <2>1. NextKey(cursor) # NotFound /\ NextKey(cursor) # Nil
        BY <1>2, NotFoundAssumption, NilAssumption DEF TypeOK
    <2>2. Found /\ FirstAfter(PlaceOf(cursor), NextKey(cursor)) /\ PlaceOf(cursor) \in Nat
        BY <1>2, <2>1, FoundGoesOn, NextIsFirst DEF LoopInv
    <2>3. PICK n \in Nat : n > PlaceOf(cursor) /\ LivesAt(NextKey(cursor), n)
        BY <2>1, <2>2 DEF FirstAfter
    <2> QED
        BY <1>2, <2>2, <2>3 DEF LoopInv, SeenBehind
<1>3. ASSUME cursor # Nil, NextKey(cursor) = Nil, NEW k \in due
      PROVE  FALSE
    <2>1. NextKey(cursor) # NotFound
        BY <1>3, NilAssumption
    <2>2. Found /\ FirstAfter(PlaceOf(cursor), Nil) /\ PlaceOf(cursor) \in Nat
        BY <1>3, <2>1, FoundGoesOn, NextIsFirst DEF LoopInv
    <2>3. \A j, n : n \in Nat /\ LivesAt(j, n) => n <= PlaceOf(cursor)
        BY <2>2, LiveType DEF FirstAfter
    <2>4. k \in Keys /\ RawGet(k) # Nil
        BY DEF LoopInv, DueLive, TypeOK
    <2>5. PICK n \in Nat : LivesAt(k, n)
        BY <2>4, PresentIsLive
    <2> QED
        BY <2>2, <2>3, <2>5 DEF LoopInv, DueAhead
<1> QED
    BY <1>1, <1>2, <1>3 DEF LoopIsSound, LoopNeverRepeats, LoopVisitsAll

\* A pairs loop whose body clears fields, assigns to those there are and lets
\* objects be collected can always go on, visits no key twice and misses none
\* that stays (next, nextHash and weakKeyNext in ltable.go and
\* lgc_weakkey.go), except that a collectable key of a table with weak keys
\* cannot be continued from once it is cleared.
THEOREM LoopsAreSound == Spec => []LoopIsSound
<1>1. Init => AliveInv
    BY DEF Init, AliveInv, HeldAlive, RetainedAlive, Retains
<1>2. TypeOK /\ OneSlotPerKey /\ AliveInv /\ [Next]_vars => AliveInv'
    BY AliveStep, ReadsAsHolds
<1>3. Init => LoopInv
    BY DEF Init, LoopInv, NoLoop, CursorPlaced, DueLive, SeenBehind, DueAhead, Found
<1>4. /\ TypeOK /\ TypeOK' /\ OneSlotPerKey /\ OneSlotPerKey' /\ AliveInv
      /\ LoopInv /\ [Next]_vars
      => LoopInv'
    BY LoopStep
<1>5. TypeOK /\ OneSlotPerKey /\ LoopInv => LoopIsSound
    BY LoopInvSound
<1> QED
    BY <1>1, <1>2, <1>3, <1>4, <1>5, TypeCorrect, KeyHasOneSlot, PTL DEF Spec
=============================================================================
