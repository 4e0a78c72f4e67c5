------------------------------- MODULE Table -------------------------------
(***************************************************************************)
(* The table (lua/ltable.go, lgc_weak.go, lgc_weakkey.go): an array part,  *)
(* a hash part with its keys in insertion order, and, in a table with weak *)
(* keys, a list of entries for collectable keys.  Where values are weak a  *)
(* slot holds a cell that the Go collector empties at any moment, also     *)
(* between two reads of one length().                                      *)
(***************************************************************************)
EXTENDS Integers, Sequences, FiniteSets, FiniteSetsExt

CONSTANTS
    Indexes,    \* integer keys
    Names,      \* other keys that are not collectable: strings, fractions...
    Objects,    \* tables, functions, userdata and threads: keys and values
    Plain,      \* values that are not collectable
    Floats,     \* floats with an integral value, as the program writes them
    IntOf,      \* the integer such a float equals
    Nil,
    NotFound,   \* next's found = false
    MaxEntries  \* bound: slots of the weak-key list

Keys == Indexes \cup Names \cup Objects
Values == Plain \cup Objects

ASSUME KeyAssumption ==
    /\ Indexes \subseteq Int /\ Names \cap Int = {} /\ Objects \cap Int = {}
    /\ Names \cap Objects = {} /\ Floats \cap Keys = {}
    /\ IntOf \in [Floats -> Indexes]
ASSUME NilAssumption == Nil \notin Keys \cup Values \cup {NotFound}
ASSUME NotFoundAssumption == NotFound \notin Keys
ASSUME PlainAssumption == Plain \cap Objects = {}
ASSUME BoundAssumption == MaxEntries \in Nat

VARIABLES
    arr, hash, keys, weakKeys, weakk, weakv,  \* the fields of Table
    held,      \* objects the program can reach without this table
    alive,     \* objects the Go collector has not reclaimed
    cursor,    \* the control variable of a pairs loop, Nil outside one
    seen,      \* history: keys the loop has visited
    due,       \* history: keys present since the loop began, not yet visited
    search     \* the bounds of a running length()

fields == <<arr, hash, keys, weakKeys, weakk, weakv>>
loop == <<cursor, seen, due>>
vars == <<fields, held, alive, loop, search>>

\* A slot holds a value or a weak cell; Nil is an empty slot or a dead node.
Cells == [cell : Objects]
Slots == {Nil} \cup Values \cup Cells
Entries == [key : Objects \cup {Nil}, val : Slots]
ASSUME CellAssumption == Cells \cap (Values \cup {Nil}) = {}
NoSearch == [lo |-> 0, hi |-> 0]

Init ==
    /\ arr = <<>> /\ hash = [k \in {} |-> Nil] /\ keys = <<>> /\ weakKeys = <<>>
    /\ weakk = FALSE /\ weakv = FALSE
    /\ held = Objects /\ alive = Objects
    /\ cursor = Nil /\ seen = {} /\ due = {}
    /\ search = NoSearch

-----------------------------------------------------------------------------
(* Slots *)

\* Mutant: values that are not collectable are wrapped too.
MkWeakAny(v) == [cell |-> v]

\* mkWeak wraps collectable values, once.
MkWeak(v) == IF v \in Objects THEN [cell |-> v] ELSE v

\* An emptied cell reads as nil.
Deref(v) == IF v \notin Cells THEN v ELSE IF v.cell \in alive THEN v.cell ELSE Nil

WrapVal(v) == IF weakv THEN MkWeak(v) ELSE v

\* A float with an integral value is the same key as the integer.
NormKey(w) == IF w \in Floats THEN IntOf[w] ELSE w

HashVal(k) == IF k \in DOMAIN hash THEN hash[k] ELSE Nil

\* weakKeyIndex: the slot of a live key; emptied and deleted ones are skipped.
WeakSlots(k) == {i \in DOMAIN weakKeys : weakKeys[i].key = k /\ k \in alive}
WeakIndex(k) == Min(WeakSlots(k))

WeakKeyGet(k) ==
    IF WeakSlots(k) = {} THEN Nil ELSE Deref(weakKeys[WeakIndex(k)].val)

\* Collectable keys of a table with weak keys live in the list.
InWeakList(k) == weakk /\ k \in Objects

RawGet(k) ==
    IF InWeakList(k) THEN WeakKeyGet(k)
    ELSE IF k \in DOMAIN arr THEN Deref(arr[k])
    ELSE Deref(HashVal(k))

Live == {k \in Keys : RawGet(k) # Nil}

\* The thread executes the program, not a part of length().
Running == search = NoSearch

-----------------------------------------------------------------------------
(* Reading *)

\* rawget and its variants for integers and strings drop an emptied cell.
Get(w) ==
    LET k == NormKey(w)
        inArray == ~InWeakList(k) /\ k \in DOMAIN arr
        inHash == ~InWeakList(k) /\ ~inArray /\ k \in DOMAIN hash
        read == RawGet(k)
    IN /\ Running
       /\ w \in Objects => w \in held
       /\ arr' = IF inArray /\ read = Nil THEN [arr EXCEPT ![k] = Nil] ELSE arr
       /\ hash' = IF inHash /\ read = Nil THEN [hash EXCEPT ![k] = Nil] ELSE hash
       /\ held' = held \cup ({read} \cap Objects)
       /\ UNCHANGED <<keys, weakKeys, weakk, weakv, alive, loop, search>>

-----------------------------------------------------------------------------
(* Assignment: t[k] = v *)

\* A pairs loop is over, or has done what makes next unpredictable and is not
\* followed any more (its calls of next read the table and change nothing).
LoopForgotten == cursor' = Nil /\ seen' = {} /\ due' = {}

\* What an assignment means to a pairs loop: the body may change and clear
\* fields, not create them.
Assigned(k, v) ==
    /\ Running
    /\ ({k, v} \cap Objects) \subseteq held
    /\ IF v # Nil /\ RawGet(k) = Nil THEN LoopForgotten
       ELSE /\ due' = IF v = Nil THEN due \ {k} ELSE due
            /\ UNCHANGED <<cursor, seen>>
    /\ UNCHANGED <<weakk, weakv, held, alive, search>>

\* rawsetInt inside the array part.
SetArray(k, v) ==
    /\ ~InWeakList(k) /\ k \in DOMAIN arr
    /\ Assigned(k, v)
    /\ arr' = [arr EXCEPT ![k] = WrapVal(v)]
    /\ UNCHANGED <<hash, keys, weakKeys>>

\* hashdel: an entry becomes a dead node and keeps its place in keys.
HashDel(h, S) == [k \in DOMAIN h |-> IF k \in S THEN Nil ELSE h[k]]

\* Mutant: absorbFromHash is not called.
AbsorbsNothing(n, m) == m = n

\* absorbFromHash continues from n to m: the entries up to m are there, the
\* one after m is not.
Absorbs(n, m) ==
    /\ m >= n
    /\ \A j \in n + 1 .. m : HashVal(j) # Nil
    /\ HashVal(m + 1) = Nil

\* rawsetInt appends and takes over the entries that follow.
AppendArray(k, v, m) ==
    /\ ~InWeakList(k) /\ k = Len(arr) + 1 /\ v # Nil
    /\ Absorbs(k, m)
    /\ Assigned(k, v)
    /\ arr' = [i \in 1 .. m |-> IF i < k THEN arr[i]
                                ELSE IF i = k THEN WrapVal(v) ELSE hash[i]]
    /\ hash' = HashDel(hash, k + 1 .. m)
    /\ UNCHANGED <<keys, weakKeys>>

\* Mutant: the key gets a second place when its node is dead.
AddKeyAgain(k) == IF HashVal(k) # Nil THEN keys ELSE Append(keys, k)

\* A key gets a place in keys once.
AddKey(k) == IF k \in DOMAIN hash THEN keys ELSE Append(keys, k)

\* hashset, from rawset or from rawsetInt.
SetHash(k, v) ==
    /\ ~InWeakList(k) /\ k \notin DOMAIN arr
    /\ k = Len(arr) + 1 => v = Nil
    /\ Assigned(k, v)
    /\ IF v = Nil
       THEN /\ hash' = HashDel(hash, {k})
            /\ UNCHANGED keys
       ELSE /\ hash' = [j \in DOMAIN hash \cup {k} |->
                            IF j = k THEN WrapVal(v) ELSE hash[j]]
            /\ keys' = AddKey(k)
    /\ UNCHANGED <<arr, weakKeys>>

\* weakKeySet; an entry assigned nil loses its key as well.
SetWeakKey(k, v) ==
    /\ InWeakList(k)
    /\ Assigned(k, v)
    /\ IF WeakSlots(k) # {}
       THEN weakKeys' = [weakKeys EXCEPT ![WeakIndex(k)] =
                [key |-> IF v = Nil THEN Nil ELSE k, val |-> WrapVal(v)]]
       ELSE IF v = Nil THEN UNCHANGED weakKeys
       ELSE /\ Len(weakKeys) < MaxEntries
            /\ weakKeys' = Append(weakKeys, [key |-> k, val |-> WrapVal(v)])
    /\ UNCHANGED <<arr, hash, keys>>

Set(w, v) ==
    LET k == NormKey(w) IN
    \/ SetArray(k, v) \/ SetHash(k, v) \/ SetWeakKey(k, v)
    \/ \E m \in Indexes : AppendArray(k, v, m)

-----------------------------------------------------------------------------
(* setmetatable: refreshWeak and migrateWeakKeys *)

\* The elements of a set of positions in increasing order.
Sorted(I) ==
    {s \in [1 .. Cardinality(I) -> I] :
        /\ \A i, j \in DOMAIN s : i < j => s[i] < s[j]
        /\ \A x \in I : \E i \in DOMAIN s : s[i] = x}

\* A value slot under the new mode.
Converted(v, wv) ==
    IF wv /\ ~weakv THEN MkWeak(v) ELSE IF ~wv /\ weakv THEN Deref(v) ELSE v

\* Mutant: the migrated entries stay in the hash part too.
LeaveMigrated(h, S) == h

\* migrateWeakKeys drops the entries it has moved.
DropMigrated(h, S) == HashDel(h, S)

\* Collectable keys move to the weak list, h being the converted hash part.
ToWeak(h) ==
    LET moved == {i \in DOMAIN keys : keys[i] \in Objects /\ h[keys[i]] # Nil} IN
    /\ \E s \in Sorted(moved) :
           weakKeys' = weakKeys \o
               [i \in 1 .. Len(s) |-> [key |-> keys[s[i]], val |-> h[keys[s[i]]]]]
    /\ hash' = DropMigrated(h, {keys[i] : i \in moved})
    /\ UNCHANGED keys

\* Surviving keys move back to the hash part, under the new value mode.
ToStrong(h, wv) ==
    LET live == {i \in DOMAIN weakKeys : /\ weakKeys[i].key \in alive
                                         /\ Deref(weakKeys[i].val) # Nil}
        new == {i \in live : weakKeys[i].key \notin DOMAIN h}
        stored(i) == LET v == Deref(weakKeys[i].val)
                     IN IF wv THEN MkWeak(v) ELSE v
        from(k) == {i \in live : weakKeys[i].key = k}
    IN /\ hash' = [k \in DOMAIN h \cup {weakKeys[i].key : i \in new} |->
                       IF from(k) = {} THEN h[k] ELSE stored(Min(from(k)))]
       /\ \E s \in Sorted(new) :
              keys' = keys \o [i \in 1 .. Len(s) |-> weakKeys[s[i]].key]
       /\ weakKeys' = <<>>

\* setmetatable with a __mode; entries a pairs loop has not reached may move.
SetMode(wk, wv) ==
    LET h == [k \in DOMAIN hash |-> Converted(hash[k], wv)] IN
    /\ Running
    /\ arr' = [i \in DOMAIN arr |-> Converted(arr[i], wv)]
    /\ weakk' = wk /\ weakv' = wv
    /\ \/ wk = weakk /\ hash' = h /\ UNCHANGED <<keys, weakKeys>>
       \/ wk /\ ~weakk /\ ToWeak(h)
       \/ ~wk /\ weakk /\ ToStrong(h, wv)
    /\ LoopForgotten
    /\ UNCHANGED <<held, alive, search>>

-----------------------------------------------------------------------------
(* next and a pairs loop *)

\* The first live entry after place p, and of the parts that follow.
FirstWeak(p) ==
    LET live == {i \in p + 1 .. Len(weakKeys) : /\ weakKeys[i].key \in alive
                                                /\ Deref(weakKeys[i].val) # Nil}
    IN IF live = {} THEN Nil ELSE weakKeys[Min(live)].key

FirstHash(p) ==
    LET live == {i \in p + 1 .. Len(keys) : Deref(hash[keys[i]]) # Nil}
    IN IF live = {} THEN FirstWeak(0) ELSE keys[Min(live)]

\* Mutant: the array part is left one element early.
FirstArrayShort(p) ==
    LET live == {i \in p + 1 .. Len(arr) - 1 : Deref(arr[i]) # Nil}
    IN IF live = {} THEN FirstHash(0) ELSE Min(live)

FirstArray(p) ==
    LET live == {i \in p + 1 .. Len(arr) : Deref(arr[i]) # Nil}
    IN IF live = {} THEN FirstHash(0) ELSE Min(live)

\* Mutant: a dead node is not found.
LivePlaces(k) == {i \in DOMAIN keys : keys[i] = k /\ hash[k] # Nil}

\* nextHash finds a key by its first place, dead node or not.
Places(k) == {i \in DOMAIN keys : keys[i] = k}

NextKey(k) ==
    IF InWeakList(k)
    THEN IF WeakSlots(k) = {} THEN NotFound ELSE FirstWeak(WeakIndex(k))
    ELSE IF k = Nil THEN FirstArray(0)
    ELSE IF k \in DOMAIN arr THEN FirstArray(k)
    ELSE IF Places(k) = {} THEN NotFound ELSE FirstHash(Min(Places(k)))

\* The loop goes round once more.
Walk ==
    LET k == NextKey(cursor) IN
    /\ Running
    /\ k \notin {Nil, NotFound}
    /\ cursor' = k
    /\ seen' = seen \cup {k}
    /\ due' = (IF cursor = Nil THEN Live ELSE due) \ {k}
    /\ held' = held \cup ({k, RawGet(k)} \cap Objects)
    /\ UNCHANGED <<fields, alive, search>>

\* The loop ends: next returns nil or raises an error, or the body breaks.
WalkEnds ==
    /\ Running
    /\ cursor # Nil
    /\ LoopForgotten
    /\ UNCHANGED <<fields, held, alive, search>>

-----------------------------------------------------------------------------
(* length *)

\* The border is looked for in the array part when its last slot is empty, and
\* is its last slot otherwise (where an entry after it would be read next).
LengthStart ==
    LET n == Len(arr) IN
    /\ Running
    /\ search' = IF n > 0 /\ Deref(arr[n]) = Nil
                 THEN [lo |-> 0, hi |-> n] ELSE [lo |-> n, hi |-> n + 1]
    /\ UNCHANGED <<fields, held, alive, loop>>

\* Mutant: the halves are swapped.
HalfSwapped(m) ==
    IF Deref(arr[m]) = Nil THEN [search EXCEPT !.lo = m] ELSE [search EXCEPT !.hi = m]

Half(m) ==
    IF Deref(arr[m]) = Nil THEN [search EXCEPT !.hi = m] ELSE [search EXCEPT !.lo = m]

LengthStep ==
    /\ search.hi - search.lo > 1
    /\ search' = Half((search.lo + search.hi) \div 2)
    /\ UNCHANGED <<fields, held, alive, loop>>

LengthEnd ==
    /\ search.hi - search.lo = 1
    /\ search' = NoSearch
    /\ UNCHANGED <<fields, held, alive, loop>>

-----------------------------------------------------------------------------
(* The program's references and the Go collector *)

Drop(o) ==
    /\ Running
    /\ o \in held /\ o # cursor
    /\ held' = held \ {o}
    /\ UNCHANGED <<fields, alive, loop, search>>

\* The table's own references: strong values, and the keys of the hash part,
\* those of dead nodes included.
Retains(o) ==
    \/ o \in DOMAIN hash
    \/ \E i \in DOMAIN arr : arr[i] = o
    \/ \E k \in DOMAIN hash : hash[k] = o
    \/ \E i \in DOMAIN weakKeys : weakKeys[i].val = o

Collect(o) ==
    /\ o \in alive \ held
    /\ ~Retains(o)
    /\ alive' = alive \ {o}
    /\ UNCHANGED <<fields, held, cursor, seen, search>>
    /\ due' = {k \in due : RawGet(k)' # Nil}

Next ==
    \/ \E w \in Keys \cup Floats : Get(w)
    \/ \E w \in Keys \cup Floats, v \in Values \cup {Nil} : Set(w, v)
    \/ \E wk, wv \in BOOLEAN : SetMode(wk, wv)
    \/ Walk \/ WalkEnds
    \/ LengthStart \/ LengthStep \/ LengthEnd
    \/ \E o \in Objects : Drop(o) \/ Collect(o)

Spec == Init /\ [][Next]_vars

-----------------------------------------------------------------------------
(* Properties *)

TypeOK ==
    /\ arr \in Seq(Slots) /\ DOMAIN arr \subseteq Indexes
    /\ DOMAIN hash \subseteq Keys /\ hash \in [DOMAIN hash -> Slots]
    /\ keys \in Seq(Keys)
    /\ weakKeys \in Seq(Entries)
    /\ weakk \in BOOLEAN /\ weakv \in BOOLEAN
    /\ held \subseteq Objects /\ alive \subseteq Objects
    /\ cursor \in Keys \cup {Nil}
    /\ seen \subseteq Keys /\ due \subseteq Keys
    /\ search \in [lo : Nat, hi : Nat]

\* A key has one live slot at most, whatever has been appended, absorbed,
\* deleted and migrated: "the key stays uniquely represented in t.keys"
\* (ltable.go:319), no entry hides behind the array part, and the first key
\* after the array part is absent, so that length() never leaves it.
KeysListHash ==
    /\ \A i, j \in DOMAIN keys : keys[i] = keys[j] => i = j
    /\ DOMAIN hash = {keys[i] : i \in DOMAIN keys}
NothingHidden == \A k \in DOMAIN hash \cap (1 .. Len(arr) + 1) : hash[k] = Nil
WeakListOnce == \A o \in Objects : \A i, j \in WeakSlots(o) : i = j
WeakKeysMoved ==
    /\ weakk => \A o \in DOMAIN hash \cap Objects : hash[o] = Nil
    /\ ~weakk => weakKeys = <<>>
OneSlotPerKey == KeysListHash /\ NothingHidden /\ WeakListOnce /\ WeakKeysMoved

\* "length returns a border n (t[n] non-nil, t[n+1] nil)" (ltable.go:334):
\* the search brackets one, and does so even if cells are emptied while it
\* runs (the lower end may then be emptied after it was read).
SearchBracketsBorder ==
    ~Running =>
        /\ search.lo < search.hi
        /\ RawGet(search.hi) = Nil
        /\ search.lo > 0 /\ ~weakv => RawGet(search.lo) # Nil

\* A loop that creates no field can always go on: next finds the key
\* it returned last even if its field has been cleared.  Collectable keys of a
\* table with weak keys are excepted.
OrdinaryNextFinds ==
    cursor # Nil /\ ~InWeakList(cursor) => NextKey(cursor) # NotFound

\* Such a loop visits no key twice...
LoopNeverRepeats ==
    cursor # Nil => NextKey(cursor) \notin seen

\* ...and when it is over it has visited every key that was there all along.
LoopVisitsAll ==
    cursor # Nil /\ NextKey(cursor) = Nil => due = {}

\* A pairs loop over an ordinary table is sound under clearing and collection
\* (next, nextHash, weakKeyNext).
LoopIsSound == OrdinaryNextFinds /\ LoopNeverRepeats /\ LoopVisitsAll

\* "the slot is never physically removed so the index a paused next() captured
\* stays valid" (lgc_weakkey.go:14): clearing a field never stops a loop.
NextFinds == cursor # Nil => NextKey(cursor) # NotFound

\* The table is the map of LuaTable: assignments change the entry they name,
\* collection removes the entries of objects the program does not hold, and
\* reads, loops, length, absorption and changes of __mode change nothing.
Abstract == INSTANCE LuaTable WITH contents <- [k \in Keys |-> RawGet(k)]
Refines == Abstract!Spec
=============================================================================
