-------------------------- MODULE FinalizersProofs --------------------------
(***************************************************************************)
(* Proofs about Finalizers, for every set of objects and every nesting.    *)
(***************************************************************************)
EXTENDS Finalizers, SequenceTheorems, TLAPS

-----------------------------------------------------------------------------
(* The inductive invariant. *)

\* Every drain but the innermost is below a __gc function: drains nest only
\* through Lua code.
OuterDrainsWait ==
    \A i \in DOMAIN drains : i < Len(drains) => drains[i].pc = "gc"

Queued(o) == \E i \in DOMAIN finQueue : finQueue[i] = o
BeingTaken(o) == drains # <<>> /\ Last(drains) = [pc |-> "taken", obj |-> o]

\* A registered object passes once through: armed, due, queued, taken, run.
OncePath(o) ==
    /\ ran[o] <= 1
    /\ ran[o] = 1 => o \notin armed \cup due /\ ~Queued(o) /\ ~BeingTaken(o)
    /\ ~finReg[o] => o \notin armed \cup due /\ ~Queued(o) /\ ~BeingTaken(o)
    /\ o \in armed => o \notin due
    /\ o \in armed \cup due => ~Queued(o) /\ ~BeingTaken(o)
    /\ Queued(o) => ~BeingTaken(o)
    /\ ~finReg[o] => ran[o] = 0

QueuedOnce ==
    \A i, j \in DOMAIN finQueue : finQueue[i] = finQueue[j] => i = j

OnceInv == QueuedOnce /\ \A o \in Objects : OncePath(o)

-----------------------------------------------------------------------------
(* What the steps of a drain do to the stack of drains. *)

\* The innermost drain moves on: the stack keeps its height and its outer part.
LEMMA GotoMoves ==
    ASSUME TypeOK, drains # <<>>, NEW p, NEW o,
           [pc |-> p, obj |-> o] \in Drain
    PROVE  /\ Goto(p, o) \in Seq(Drain)
           /\ Goto(p, o) # <<>>
           /\ Len(Goto(p, o)) = Len(drains)
           /\ Last(Goto(p, o)) = [pc |-> p, obj |-> o]
           /\ \A i \in 1 .. Len(drains) - 1 : Goto(p, o)[i] = drains[i]
<1> DEFINE n == Len(drains)
           r == [pc |-> p, obj |-> o]
<1>1. drains \in Seq(Drain) /\ n \in Nat /\ n > 0
    BY LenProperties, EmptySeq DEF TypeOK
<1>2. r \in Drain
    OBVIOUS
<1>3. n \in 1 .. Len(drains)
    BY <1>1
<1>4. Goto(p, o) = [drains EXCEPT ![n] = r]
    BY DEF Goto
<1> HIDE DEF n, r
<1>5. Goto(p, o) \in Seq(Drain) /\ Len(Goto(p, o)) = Len(drains)
    BY <1>1, <1>2, <1>3, <1>4, ExceptSeq
<1>6. DOMAIN drains = 1 .. Len(drains)
    BY <1>1, LenProperties
<1>7. Goto(p, o)[n] = r /\ \A i \in 1 .. n - 1 : Goto(p, o)[i] = drains[i]
    BY <1>1, <1>3, <1>4, <1>6
<1>8. Goto(p, o) # <<>>
    BY <1>1, <1>5, EmptySeq DEF n
<1> QED
    BY <1>5, <1>7, <1>8 DEF n, r, Last

\* A new drain starts at the top of its loop.
LEMMA NewDrain ==
    ASSUME TypeOK
    PROVE  /\ Append(drains, Looping) \in Seq(Drain)
           /\ Append(drains, Looping) # <<>>
           /\ Len(Append(drains, Looping)) = Len(drains) + 1
           /\ Last(Append(drains, Looping)) = Looping
           /\ \A i \in 1 .. Len(drains) : Append(drains, Looping)[i] = drains[i]
<1>1. Looping \in Drain /\ drains \in Seq(Drain) /\ Len(drains) \in Nat
    BY LenProperties DEF TypeOK, Looping, Drain
<1>2. /\ Append(drains, Looping) \in Seq(Drain)
      /\ Len(Append(drains, Looping)) = Len(drains) + 1
      /\ \A i \in 1 .. Len(drains) : Append(drains, Looping)[i] = drains[i]
      /\ Append(drains, Looping)[Len(drains) + 1] = Looping
    BY <1>1, AppendProperties
<1>3. Append(drains, Looping) # <<>>
    BY <1>1, AppendProperties
<1> QED
    BY <1>2, <1>3 DEF Last

\* A drain's place and object.
LEMMA TopDrain ==
    ASSUME TypeOK, drains # <<>>
    PROVE  /\ Len(drains) \in Nat /\ Len(drains) > 0
           /\ Last(drains) \in Drain
           /\ Last(drains).pc \in {"loop", "taken", "gc"}
           /\ Last(drains).pc \in {"taken", "gc"} =>
                /\ Last(drains).obj \in Objects
                /\ Last(drains) = [pc |-> Last(drains).pc, obj |-> Last(drains).obj]
<1>1. drains \in Seq(Drain) /\ Len(drains) \in Nat /\ Len(drains) > 0
    BY LenProperties, EmptySeq DEF TypeOK
<1>2. Last(drains) \in Drain
    BY <1>1, ElementOfSeq DEF Last
<1>3. CASE Last(drains) = Looping
    BY <1>1, <1>2, <1>3 DEF Looping
<1>4. CASE Last(drains) \in [pc : {"taken", "gc"}, obj : Objects]
    BY <1>1, <1>2, <1>4
<1> QED
    BY <1>2, <1>3, <1>4 DEF Drain

\* A stack or a queue cut back.
LEMMA CutBack ==
    ASSUME NEW S, NEW s \in Seq(S), NEW n \in Int, n <= Len(s)
    PROVE  /\ SubSeq(s, 1, n) \in Seq(S)
           /\ n >= 0 => Len(SubSeq(s, 1, n)) = n
           /\ \A i \in 1 .. n : SubSeq(s, 1, n)[i] = s[i]
<1>1. \A i \in 1 .. n : s[i] \in S
    BY LenProperties, ElementOfSeq
<1> QED
    BY <1>1, SubSeqProperties

\* Where a drain may go on.
LEMMA DrainPlaces ==
    /\ [pc |-> "loop", obj |-> NoObject] \in Drain
    /\ \A o \in Objects : /\ [pc |-> "taken", obj |-> o] \in Drain
                          /\ [pc |-> "gc", obj |-> o] \in Drain
BY DEF Drain, Looping

\* The queue loses its last object.
LEMMA TakeFromQueue ==
    ASSUME TypeOK, finQueue # <<>>
    PROVE  /\ Len(finQueue) \in Nat /\ Len(finQueue) > 0
           /\ Last(finQueue) \in Objects
           /\ Front(finQueue) \in Seq(Objects)
           /\ Len(Front(finQueue)) = Len(finQueue) - 1
           /\ \A i \in 1 .. Len(finQueue) - 1 : Front(finQueue)[i] = finQueue[i]
<1>1. finQueue \in Seq(Objects) /\ Len(finQueue) \in Nat /\ Len(finQueue) > 0
    BY LenProperties, EmptySeq DEF TypeOK
<1>2. Last(finQueue) \in Objects
    BY <1>1, ElementOfSeq DEF Last
<1>3. Len(finQueue) - 1 \in Int /\ Len(finQueue) - 1 <= Len(finQueue) /\ Len(finQueue) - 1 >= 0
    BY <1>1
<1> QED
    BY <1>1, <1>2, <1>3, CutBack DEF Front

-----------------------------------------------------------------------------
(* Type correctness. *)

\* Every step keeps the types.
LEMMA TypeStep ==
    ASSUME TypeOK, [Next]_vars
    PROVE  TypeOK'
<1>1. ASSUME NEW o \in Objects, NEW gc \in BOOLEAN, SetMetatable(o, gc)
      PROVE  TypeOK'
    <2>1. CASE Registers(o, gc)
        BY <1>1, <2>1 DEF TypeOK, SetMetatable
    <2>2. CASE ~Registers(o, gc)
        BY <1>1, <2>2 DEF TypeOK, SetMetatable
    <2> QED
        BY <2>1, <2>2
<1>2. ASSUME NEW S \in SUBSET held, Drop(S)
      PROVE  TypeOK'
    BY <1>2 DEF TypeOK, Drop, collector
<1>3. ASSUME NEW i \in 0 .. MaxNesting, GCPanics(i)
      PROVE  TypeOK'
    <2>1. i \in Int /\ i <= Len(drains) /\ drains \in Seq(Drain)
        BY <1>3, LenProperties, NestingAssumption DEF TypeOK, GCPanics
    <2>2. drains' \in Seq(Drain)
        BY <1>3, <2>1, CutBack DEF GCPanics
    <2> QED
        BY <1>3, <2>2 DEF TypeOK, GCPanics, program, collector
<1>4. ASSUME NEW o \in Objects, Enqueue(o)
      PROVE  TypeOK'
    <2>1. Append(finQueue, o) \in Seq(Objects)
        BY AppendProperties DEF TypeOK
    <2> QED
        BY <1>4, <2>1 DEF TypeOK, Enqueue, program
<1>5. CASE Resurrect
    <2>1. Last(drains).obj \in Objects
        BY <1>5, TopDrain DEF Resurrect
    <2> QED
        BY <1>5, <2>1 DEF TypeOK, Resurrect, collector
<1>6. CASE GoCollect
    BY <1>6 DEF TypeOK, GoCollect, Collected, Unreachable, program
<1>7. CASE CountEnqueued
    BY <1>7 DEF TypeOK, CountEnqueued, program
<1>8. CASE Poll
    BY <1>8, NewDrain DEF TypeOK, Poll, program, collector
<1>9. CASE FinalizeAll
    BY <1>9, NewDrain DEF TypeOK, FinalizeAll, Collected, Unreachable, program
<1>10. CASE Take
    <2>1. /\ Last(finQueue) \in Objects /\ Front(finQueue) \in Seq(Objects)
        BY <1>10, TakeFromQueue DEF Take
    <2>2. drains' \in Seq(Drain)
        BY <1>10, <2>1, GotoMoves, DrainPlaces DEF Take
    <2> QED
        BY <1>10, <2>1, <2>2 DEF TypeOK, Take, program, collector
<1>11. CASE RunGCMetamethod
    <2> DEFINE o == Last(drains).obj
    <2>1. drains # <<>> /\ o \in Objects
        BY <1>11, TopDrain DEF RunGCMetamethod
    <2>2. Goto("gc", o) \in Seq(Drain) /\ Goto("loop", NoObject) \in Seq(Drain)
        BY <2>1, GotoMoves, DrainPlaces
    <2>3. drains' \in Seq(Drain)
        <3>1. drains' = Goto("gc", o) \/ drains' = Goto("loop", NoObject)
            BY <1>11 DEF RunGCMetamethod
        <3> QED
            BY <3>1, <2>2
    <2>4. ran' \in [Objects -> Nat]
        <3>1. ran' = [ran EXCEPT ![o] = @ + 1] \/ ran' = ran
            BY <1>11 DEF RunGCMetamethod
        <3> HIDE DEF o
        <3>2. [ran EXCEPT ![o] = @ + 1] \in [Objects -> Nat]
            BY <2>1 DEF TypeOK
        <3> QED
            BY <3>1, <3>2 DEF TypeOK
    <2>5. finPending' \in Int
        BY <1>11 DEF TypeOK, RunGCMetamethod, AfterTake
    <2> QED
        BY <1>11, <2>3, <2>4, <2>5 DEF TypeOK, RunGCMetamethod, program, collector
<1>12. CASE GCReturns
    BY <1>12, GotoMoves, DrainPlaces DEF TypeOK, GCReturns, program, collector
<1>13. CASE EndDrain
    <2>1. drains' \in Seq(Drain)
        <3>1. drains \in Seq(Drain) /\ Len(drains) - 1 \in Int /\ Len(drains) - 1 <= Len(drains)
            BY LenProperties DEF TypeOK
        <3> QED
            BY <1>13, <3>1, CutBack DEF EndDrain, Front
    <2> QED
        BY <1>13, <2>1 DEF TypeOK, EndDrain, program, collector
<1>14. CASE UNCHANGED vars
    BY <1>14 DEF TypeOK, vars, program, collector
<1> QED
    BY <1>1, <1>2, <1>3, <1>4, <1>5, <1>6, <1>7, <1>8, <1>9, <1>10, <1>11,
       <1>12, <1>13, <1>14 DEF Next

\* The types of the finalizer state (lstate.go:124-140), for any objects.
THEOREM TypeCorrect == Spec => []TypeOK
<1>1. Init => TypeOK
    BY EmptySeq DEF Init, TypeOK
<1>2. TypeOK /\ [Next]_vars => TypeOK'
    BY TypeStep
<1> QED
    BY <1>1, <1>2, PTL DEF Spec

-----------------------------------------------------------------------------
(* The counter. *)

\* Cutting the stack of drains back leaves no drain in the middle of a take.
LEMMA CutDrains ==
    ASSUME TypeOK, NEW i \in Nat, i < Len(drains),
           i > 0 => drains[i].pc = "gc", OuterDrainsWait,
           drains' = SubSeq(drains, 1, i)
    PROVE  OuterDrainsWait' /\ Taken' = 0
<1>1. drains \in Seq(Drain) /\ Len(drains) \in Nat /\ i \in Int
    BY LenProperties DEF TypeOK
<1>2. /\ drains' \in Seq(Drain) /\ Len(drains') = i
      /\ \A j \in 1 .. i : drains'[j] = drains[j]
    BY <1>1, CutBack
<1>3. DOMAIN drains' = 1 .. i /\ DOMAIN drains = 1 .. Len(drains)
    BY <1>1, <1>2, LenProperties
<1>4. OuterDrainsWait'
    BY <1>1, <1>2, <1>3 DEF OuterDrainsWait
<1>5. drains' # <<>> => Last(drains').pc = "gc"
    <2>1. drains' # <<>> => i > 0
        BY <1>2, EmptySeq
    <2> QED
        BY <1>1, <1>2, <2>1 DEF Last
<1> QED
    BY <1>4, <1>5 DEF Taken

\* A drain that starts leaves the ones below it waiting.
LEMMA PushDrain ==
    ASSUME TypeOK, OuterDrainsWait, InLua, drains' = Append(drains, Looping)
    PROVE  OuterDrainsWait' /\ Taken' = 0 /\ Taken = 0
<1>1. /\ drains' \in Seq(Drain) /\ drains' # <<>>
      /\ Len(drains') = Len(drains) + 1 /\ Last(drains') = Looping
      /\ \A i \in 1 .. Len(drains) : drains'[i] = drains[i]
    BY NewDrain
<1>2. /\ Len(drains) \in Nat
      /\ DOMAIN drains = 1 .. Len(drains) /\ DOMAIN drains' = 1 .. Len(drains')
    BY <1>1, LenProperties DEF TypeOK
<1>3. Len(drains) > 0 => drains[Len(drains)].pc = "gc"
    BY EmptySeq DEF InLua, Last, TypeOK
<1>4. OuterDrainsWait'
    BY <1>1, <1>2, <1>3 DEF OuterDrainsWait
<1> QED
    BY <1>1, <1>4 DEF Taken, InLua, Looping

\* A drain that moves on leaves the ones below it waiting.
LEMMA MoveDrain ==
    ASSUME TypeOK, OuterDrainsWait, drains # <<>>, NEW p, NEW o,
           [pc |-> p, obj |-> o] \in Drain, drains' = Goto(p, o)
    PROVE  /\ OuterDrainsWait' /\ drains' # <<>>
           /\ Last(drains') = [pc |-> p, obj |-> o]
           /\ Taken' = IF p = "taken" THEN 1 ELSE 0
<1>1. /\ drains' \in Seq(Drain) /\ drains' # <<>>
      /\ Len(drains') = Len(drains) /\ Last(drains') = [pc |-> p, obj |-> o]
      /\ \A i \in 1 .. Len(drains) - 1 : drains'[i] = drains[i]
    BY GotoMoves
<1>2. /\ Len(drains) \in Nat
      /\ DOMAIN drains = 1 .. Len(drains) /\ DOMAIN drains' = 1 .. Len(drains')
    BY <1>1, LenProperties DEF TypeOK
<1>3. OuterDrainsWait'
    BY <1>1, <1>2 DEF OuterDrainsWait
<1> QED
    BY <1>1, <1>3 DEF Taken

\* The queue, the counter and the drains agree after every step.
LEMMA PendingStep ==
    ASSUME TypeOK, OuterDrainsWait, PendingMirrorsQueue, [Next]_vars
    PROVE  OuterDrainsWait' /\ PendingMirrorsQueue'
<1> DEFINE same == UNCHANGED <<finQueue, finPending, drains, adding>>
<1>1. ASSUME same
      PROVE  OuterDrainsWait' /\ PendingMirrorsQueue'
    BY <1>1 DEF OuterDrainsWait, PendingMirrorsQueue, Appended, Taken
<1>2. ASSUME NEW o \in Objects, NEW gc \in BOOLEAN, SetMetatable(o, gc)
      PROVE  same
    BY <1>2 DEF SetMetatable
<1>3. ASSUME NEW S \in SUBSET held, Drop(S)
      PROVE  same
    BY <1>3 DEF Drop, collector
<1>4. ASSUME Resurrect \/ GoCollect \/ UNCHANGED vars
      PROVE  same
    BY <1>4 DEF Resurrect, GoCollect, vars, collector
<1>5. ASSUME NEW o \in Objects, Enqueue(o)
      PROVE  OuterDrainsWait' /\ PendingMirrorsQueue'
    <2>1. Len(finQueue') = Len(finQueue) + 1 /\ Len(finQueue) \in Nat
        BY <1>5, AppendProperties, LenProperties DEF TypeOK, Enqueue
    <2>2. UNCHANGED <<drains, finPending>> /\ Appended = 0 /\ Appended' = 1
        BY <1>5, NoObjectAssumption DEF Enqueue, Appended
    <2> QED
        BY <2>1, <2>2 DEF TypeOK, OuterDrainsWait, PendingMirrorsQueue, Taken
<1>6. ASSUME CountEnqueued
      PROVE  OuterDrainsWait' /\ PendingMirrorsQueue'
    <2>1. /\ UNCHANGED <<drains, finQueue>> /\ Appended = 1 /\ Appended' = 0
          /\ finPending' = finPending + 1
        BY <1>6 DEF CountEnqueued, Appended
    <2> QED
        BY <2>1, LenProperties DEF TypeOK, OuterDrainsWait, PendingMirrorsQueue, Taken
<1>7. ASSUME Poll \/ FinalizeAll
      PROVE  OuterDrainsWait' /\ PendingMirrorsQueue'
    <2>1. /\ UNCHANGED <<finQueue, finPending, adding>> /\ InLua
          /\ drains' = Append(drains, Looping)
        BY <1>7 DEF Poll, FinalizeAll, collector
    <2> QED
        BY <2>1, PushDrain DEF PendingMirrorsQueue, Appended
<1>8. ASSUME Take
      PROVE  OuterDrainsWait' /\ PendingMirrorsQueue'
    <2>1. /\ Last(finQueue) \in Objects /\ Len(finQueue) \in Nat
          /\ Len(finQueue') = Len(finQueue) - 1
        BY <1>8, TakeFromQueue DEF Take
    <2>2. OuterDrainsWait' /\ Taken' = 1
        BY <1>8, <2>1, DrainPlaces, MoveDrain DEF Take
    <2>3. Taken = 0 /\ UNCHANGED <<finPending, adding>>
        BY <1>8 DEF Take, Taken, collector
    <2> QED
        BY <2>1, <2>2, <2>3 DEF TypeOK, PendingMirrorsQueue, Appended
<1>9. ASSUME RunGCMetamethod
      PROVE  OuterDrainsWait' /\ PendingMirrorsQueue'
    <2>1. /\ drains # <<>> /\ Last(drains).obj \in Objects
          /\ Taken = 1 /\ UNCHANGED <<finQueue, adding>>
        BY <1>9, TopDrain DEF RunGCMetamethod, Taken, collector
    <2>2. finPending' = finPending - 1
        BY <1>9 DEF RunGCMetamethod, AfterTake
    <2>3. \/ drains' = Goto("gc", Last(drains).obj)
          \/ drains' = Goto("loop", NoObject)
        BY <1>9 DEF RunGCMetamethod
    <2> DEFINE o == Last(drains).obj
    <2>7. o \in Objects
        BY <2>1
    <2> HIDE DEF o
    <2>8. [pc |-> "gc", obj |-> o] \in Drain
        BY <2>7, DrainPlaces
    <2>4. drains' = Goto("gc", o) => OuterDrainsWait' /\ Taken' = 0
        BY <2>1, <2>8, MoveDrain
    <2>5. drains' = Goto("loop", NoObject) => OuterDrainsWait' /\ Taken' = 0
        BY <2>1, DrainPlaces, MoveDrain
    <2>6. OuterDrainsWait' /\ Taken' = 0
        BY <2>3, <2>4, <2>5 DEF o
    <2> QED
        BY <2>1, <2>2, <2>6, LenProperties DEF TypeOK, PendingMirrorsQueue, Appended
<1>10. ASSUME GCReturns
       PROVE  OuterDrainsWait' /\ PendingMirrorsQueue'
    <2>1. /\ drains # <<>> /\ Taken = 0 /\ UNCHANGED <<finQueue, finPending, adding>>
          /\ drains' = Goto("loop", NoObject)
        BY <1>10 DEF GCReturns, Taken, collector
    <2>2. OuterDrainsWait' /\ Taken' = 0
        BY <2>1, DrainPlaces, MoveDrain
    <2> QED
        BY <2>1, <2>2 DEF PendingMirrorsQueue, Appended
<1>11. ASSUME NEW i \in 0 .. MaxNesting, GCPanics(i)
       PROVE  OuterDrainsWait' /\ PendingMirrorsQueue'
    <2>1. /\ Taken = 0 /\ UNCHANGED <<finQueue, finPending, adding>>
          /\ i < Len(drains) /\ (i > 0 => drains[i].pc = "gc")
          /\ drains' = SubSeq(drains, 1, i) /\ i \in Nat
        BY <1>11, NestingAssumption DEF GCPanics, Taken, collector
    <2>2. OuterDrainsWait' /\ Taken' = 0
        BY <2>1, CutDrains
    <2> QED
        BY <2>1, <2>2 DEF PendingMirrorsQueue, Appended
<1>12. ASSUME EndDrain
       PROVE  OuterDrainsWait' /\ PendingMirrorsQueue'
    <2> DEFINE i == Len(drains) - 1
    <2>1. /\ Taken = 0 /\ UNCHANGED <<finQueue, finPending, adding>>
          /\ drains # <<>> /\ drains' = SubSeq(drains, 1, i)
        BY <1>12 DEF EndDrain, Taken, collector, Front
    <2>2. Len(drains) \in Nat /\ Len(drains) > 0
        BY <2>1, TopDrain
    <2>3. i \in Nat /\ i < Len(drains) /\ (i > 0 => i \in DOMAIN drains)
        BY <2>2, LenProperties DEF TypeOK
    <2> HIDE DEF i
    <2>4. i > 0 => drains[i].pc = "gc"
        BY <2>3 DEF OuterDrainsWait
    <2>5. OuterDrainsWait' /\ Taken' = 0
        BY <2>1, <2>3, <2>4, CutDrains
    <2> QED
        BY <2>1, <2>5 DEF PendingMirrorsQueue, Appended
<1> HIDE DEF same
<1> QED
    BY <1>1, <1>2, <1>3, <1>4, <1>5, <1>6, <1>7, <1>8, <1>9, <1>10, <1>11, <1>12
       DEF Next

\* finPending mirrors the queue (lstate.go:129) but for the object on its way
\* in and the one on its way out, whatever the interleaving of the collector's
\* goroutine with nested drains and panics.
THEOREM PendingIsExact == Spec => []PendingMirrorsQueue
<1>1. Init => OuterDrainsWait /\ PendingMirrorsQueue
    BY DEF Init, OuterDrainsWait, PendingMirrorsQueue, Appended, Taken
<1>2. TypeOK /\ OuterDrainsWait /\ PendingMirrorsQueue /\ [Next]_vars
        => OuterDrainsWait' /\ PendingMirrorsQueue'
    BY PendingStep
<1> QED
    BY <1>1, <1>2, TypeCorrect, PTL DEF Spec

-----------------------------------------------------------------------------
(* Once only. *)

\* A drain that is not in the middle of a take holds no object.
LEMMA NothingTaken ==
    ASSUME Taken' = 0
    PROVE  \A o \in Objects : ~BeingTaken(o)'
BY DEF Taken, BeingTaken

\* A step that moves objects only from armed to due keeps every object's path.
LEMMA QuietStep ==
    ASSUME TypeOK, OnceInv, UNCHANGED <<finReg, finQueue, ran>>,
           NEW S \in SUBSET armed, armed' = armed \ S, due' = due \cup S,
           \A o \in Objects : BeingTaken(o)' => BeingTaken(o)
    PROVE  OnceInv'
<1>1. QueuedOnce' /\ \A o \in Objects : Queued(o)' <=> Queued(o)
    BY DEF OnceInv, QueuedOnce, Queued
<1>2. ASSUME NEW o \in Objects
      PROVE  OncePath(o)'
    <2>1. OncePath(o) /\ (BeingTaken(o)' => BeingTaken(o)) /\ (Queued(o)' <=> Queued(o))
        BY <1>1 DEF OnceInv
    <2>2. /\ (o \in armed' <=> o \in armed /\ o \notin S)
          /\ (o \in due' <=> o \in due \/ o \in S)
          /\ (o \in S => o \in armed)
        OBVIOUS
    <2>3. ran'[o] = ran[o] /\ finReg'[o] = finReg[o]
        OBVIOUS
    <2> QED
        BY <2>1, <2>2, <2>3 DEF OncePath
<1> QED
    BY <1>1, <1>2 DEF OnceInv

\* So does a step that moves none.
LEMMA StillStep ==
    ASSUME TypeOK, OnceInv, UNCHANGED <<finReg, armed, due, finQueue, ran>>,
           \A o \in Objects : BeingTaken(o)' => BeingTaken(o)
    PROVE  OnceInv'
<1>1. {} \in SUBSET armed /\ armed' = armed \ {} /\ due' = due \cup {}
    OBVIOUS
<1> QED
    BY <1>1, QuietStep

\* The queue gains an object that was nowhere else.
LEMMA EnqueueOnce ==
    ASSUME TypeOK, OnceInv, NEW o \in Objects, Enqueue(o)
    PROVE  OnceInv'
<1>1. /\ Len(finQueue) \in Nat /\ finQueue' \in Seq(Objects)
      /\ Len(finQueue') = Len(finQueue) + 1
      /\ finQueue'[Len(finQueue) + 1] = o
      /\ \A i \in 1 .. Len(finQueue) : finQueue'[i] = finQueue[i]
    BY AppendProperties, LenProperties DEF TypeOK, Enqueue
<1>2. DOMAIN finQueue = 1 .. Len(finQueue) /\ DOMAIN finQueue' = 1 .. Len(finQueue')
    BY <1>1, LenProperties DEF TypeOK
<1>3. /\ o \in due /\ armed' = armed /\ due' = due \ {o}
      /\ UNCHANGED <<finReg, drains, ran>>
    BY DEF Enqueue
<1>4. ~Queued(o) /\ ~BeingTaken(o) /\ o \notin armed /\ ran[o] # 1 /\ finReg[o]
    BY <1>3 DEF OnceInv, OncePath, TypeOK
<1>5. QueuedOnce'
    BY <1>1, <1>2, <1>4 DEF OnceInv, QueuedOnce, Queued
<1>6. \A p \in Objects : Queued(p)' => Queued(p) \/ p = o
    BY <1>1, <1>2 DEF Queued
<1>7. ASSUME NEW p \in Objects
      PROVE  OncePath(p)'
    <2>1. OncePath(p) /\ (BeingTaken(p)' <=> BeingTaken(p))
        BY <1>3 DEF OnceInv, BeingTaken
    <2>2. CASE p = o
        BY <1>3, <1>4, <2>1, <2>2 DEF OncePath
    <2>3. CASE p # o
        BY <1>3, <1>6, <2>1, <2>3 DEF OncePath
    <2> QED
        BY <2>2, <2>3
<1> QED
    BY <1>5, <1>7 DEF OnceInv

\* The object a drain takes leaves the queue.
LEMMA TakeOnce ==
    ASSUME TypeOK, OuterDrainsWait, OnceInv, Take
    PROVE  OnceInv'
<1> DEFINE o == Last(finQueue)
<1>1. /\ Len(finQueue) \in Nat /\ Len(finQueue) > 0 /\ o \in Objects
      /\ finQueue' \in Seq(Objects) /\ Len(finQueue') = Len(finQueue) - 1
      /\ \A i \in 1 .. Len(finQueue) - 1 : finQueue'[i] = finQueue[i]
    BY TakeFromQueue DEF Take
<1>2. DOMAIN finQueue = 1 .. Len(finQueue) /\ DOMAIN finQueue' = 1 .. Len(finQueue')
    BY <1>1, LenProperties DEF TypeOK
<1>3. o = finQueue[Len(finQueue)]
    BY DEF Last
<1>4. drains # <<>> /\ drains' = Goto("taken", o)
    BY DEF Take
<1> HIDE DEF o
<1>5. drains' # <<>> /\ Last(drains') = [pc |-> "taken", obj |-> o]
    BY <1>1, <1>4, DrainPlaces, MoveDrain
<1>6. \A p \in Objects : BeingTaken(p)' => p = o
    BY <1>5 DEF BeingTaken
<1>7. QueuedOnce'
    BY <1>1, <1>2 DEF OnceInv, QueuedOnce
<1>8. \A p \in Objects : Queued(p)' => Queued(p) /\ p # o
    BY <1>1, <1>2, <1>3 DEF OnceInv, QueuedOnce, Queued
<1>9. Queued(o)
    BY <1>1, <1>2, <1>3 DEF Queued
<1>10. UNCHANGED <<finReg, armed, due, ran>>
    BY DEF Take, collector
<1>11. ASSUME NEW p \in Objects
       PROVE  OncePath(p)'
    <2>1. OncePath(p) /\ OncePath(o)
        BY <1>1 DEF OnceInv
    <2>2. CASE p = o
        BY <1>8, <1>9, <1>10, <2>1, <2>2 DEF OncePath
    <2>3. CASE p # o
        BY <1>6, <1>8, <1>10, <2>1, <2>3 DEF OncePath
    <2> QED
        BY <2>2, <2>3
<1> QED
    BY <1>7, <1>11 DEF OnceInv

\* The object whose __gc function is called had not run and is nowhere else.
LEMMA RunOnce ==
    ASSUME TypeOK, OuterDrainsWait, OnceInv, RunGCMetamethod
    PROVE  OnceInv'
<1> DEFINE o == Last(drains).obj
<1>1. /\ drains # <<>> /\ o \in Objects
      /\ Last(drains) = [pc |-> "taken", obj |-> o]
    BY TopDrain DEF RunGCMetamethod
<1>2. /\ drains' = Goto("gc", o) \/ drains' = Goto("loop", NoObject)
      /\ ran' = [ran EXCEPT ![o] = @ + 1] \/ ran' = ran
      /\ UNCHANGED <<finReg, armed, due, finQueue>>
    BY DEF RunGCMetamethod, collector
<1> HIDE DEF o
<1>3. [pc |-> "gc", obj |-> o] \in Drain /\ [pc |-> "loop", obj |-> NoObject] \in Drain
    BY <1>1, DrainPlaces
<1>4. drains' = Goto("gc", o) => Taken' = 0
    BY <1>1, <1>3, MoveDrain
<1>5. drains' = Goto("loop", NoObject) => Taken' = 0
    BY <1>1, <1>3, MoveDrain
<1>6. \A p \in Objects : ~BeingTaken(p)'
    BY <1>2, <1>4, <1>5, NothingTaken
<1>7. QueuedOnce' /\ \A p \in Objects : Queued(p)' <=> Queued(p)
    BY <1>2 DEF OnceInv, QueuedOnce, Queued
<1>8. BeingTaken(o)
    BY <1>1 DEF BeingTaken
<1>9. ASSUME NEW p \in Objects
      PROVE  OncePath(p)'
    <2>1. OncePath(p) /\ OncePath(o) /\ ran[p] \in Nat /\ ran[o] \in Nat
        BY <1>1 DEF OnceInv, TypeOK
    <2>2. CASE p = o
        <3>1. ran[o] = 0 /\ o \notin armed \cup due /\ ~Queued(o) /\ finReg[o]
            BY <1>8, <2>1 DEF OncePath
        <3>2. ran'[o] \in {0, 1}
            BY <1>1, <1>2, <3>1 DEF TypeOK
        <3> QED
            BY <1>2, <1>6, <1>7, <2>2, <3>1, <3>2 DEF OncePath
    <2>3. CASE p # o
        <3>1. ran'[p] = ran[p]
            BY <1>1, <1>2, <2>3 DEF TypeOK
        <3> QED
            BY <1>2, <1>6, <1>7, <2>1, <3>1 DEF OncePath
    <2> QED
        BY <2>2, <2>3
<1> QED
    BY <1>7, <1>9 DEF OnceInv

\* Every step keeps every object on its path.
LEMMA OnceStep ==
    ASSUME TypeOK, OuterDrainsWait, OnceInv, [Next]_vars
    PROVE  OnceInv'
<1>1. ASSUME NEW o \in Objects, NEW gc \in BOOLEAN, SetMetatable(o, gc)
      PROVE  OnceInv'
    <2>1. UNCHANGED <<due, finQueue, drains, ran>>
        BY <1>1 DEF SetMetatable
    <2>2. /\ QueuedOnce'
          /\ \A p \in Objects : (Queued(p)' <=> Queued(p)) /\ (BeingTaken(p)' <=> BeingTaken(p))
        BY <2>1 DEF OnceInv, QueuedOnce, Queued, BeingTaken
    <2>3. CASE Registers(o, gc)
        <3>1. /\ ~finReg[o] /\ finReg' = [finReg EXCEPT ![o] = TRUE]
              /\ armed' = armed \cup {o}
            BY <1>1, <2>3 DEF SetMetatable, Registers
        <3>2. ASSUME NEW p \in Objects
              PROVE  OncePath(p)'
            <4>1. OncePath(p)
                BY DEF OnceInv
            <4>2. CASE p = o
                <5>1. /\ ran[o] = 0 /\ o \notin due /\ ~Queued(o)
                      /\ ~BeingTaken(o) /\ finReg'[o]
                    BY <3>1, <4>1, <4>2 DEF OncePath, TypeOK
                <5> QED
                    BY <2>1, <2>2, <4>2, <5>1 DEF OncePath
            <4>3. CASE p # o
                <5>1. finReg'[p] = finReg[p] /\ (p \in armed' <=> p \in armed)
                    BY <3>1, <4>3 DEF TypeOK
                <5> QED
                    BY <2>1, <2>2, <4>1, <5>1 DEF OncePath
            <4> QED
                BY <4>2, <4>3
        <3> QED
            BY <2>2, <3>2 DEF OnceInv
    <2>4. CASE ~Registers(o, gc)
        <3>1. UNCHANGED <<finReg, armed>>
            BY <1>1, <2>4 DEF SetMetatable
        <3> QED
            BY <2>1, <2>2, <3>1, StillStep
    <2> QED
        BY <2>3, <2>4
<1>2. ASSUME \/ \E S \in SUBSET held : Drop(S)
             \/ Resurrect \/ CountEnqueued \/ UNCHANGED vars
      PROVE  OnceInv'
    <2>1. UNCHANGED <<finReg, armed, due, finQueue, drains, ran>>
        BY <1>2 DEF Drop, Resurrect, CountEnqueued, vars, collector
    <2>2. \A o \in Objects : BeingTaken(o)' => BeingTaken(o)
        BY <2>1 DEF BeingTaken
    <2> QED
        BY <2>1, <2>2, StillStep
<1>3. ASSUME GoCollect
      PROVE  OnceInv'
    <2>1. /\ UNCHANGED <<finReg, finQueue, drains, ran>>
          /\ armed' = armed \ Unreachable /\ due' = due \cup Unreachable
          /\ Unreachable \in SUBSET armed
        BY <1>3 DEF GoCollect, Collected, Unreachable
    <2>2. \A o \in Objects : BeingTaken(o)' => BeingTaken(o)
        BY <2>1 DEF BeingTaken
    <2> QED
        BY <2>1, <2>2, QuietStep
<1>4. ASSUME FinalizeAll
      PROVE  OnceInv'
    <2>1. /\ UNCHANGED <<finReg, finQueue, ran>>
          /\ armed' = armed \ Unreachable /\ due' = due \cup Unreachable
          /\ Unreachable \in SUBSET armed
          /\ InLua /\ drains' = Append(drains, Looping)
        BY <1>4 DEF FinalizeAll, Collected, Unreachable
    <2>2. \A o \in Objects : ~BeingTaken(o)'
        BY <2>1, PushDrain, NothingTaken
    <2> QED
        BY <2>1, <2>2, QuietStep
<1>5. ASSUME UNCHANGED <<finReg, armed, due, finQueue, ran>>, Taken' = 0
      PROVE  OnceInv'
    <2>1. \A o \in Objects : ~BeingTaken(o)'
        BY <1>5, NothingTaken
    <2> QED
        BY <1>5, <2>1, StillStep
<1>6. ASSUME Poll
      PROVE  OnceInv'
    BY <1>5, <1>6, PushDrain DEF Poll, collector
<1>7. ASSUME GCReturns
      PROVE  OnceInv'
    <2>1. Taken' = 0
        BY <1>7, DrainPlaces, MoveDrain DEF GCReturns
    <2> QED
        BY <1>5, <1>7, <2>1 DEF GCReturns, collector
<1>8. ASSUME NEW i \in 0 .. MaxNesting, GCPanics(i)
      PROVE  OnceInv'
    <2>1. Taken' = 0
        BY <1>8, CutDrains, NestingAssumption DEF GCPanics
    <2> QED
        BY <1>5, <1>8, <2>1 DEF GCPanics, collector
<1>9. ASSUME EndDrain
      PROVE  OnceInv'
    <2> DEFINE i == Len(drains) - 1
    <2>1. drains # <<>> /\ drains' = SubSeq(drains, 1, i)
        BY <1>9 DEF EndDrain, Front
    <2>2. Len(drains) \in Nat /\ Len(drains) > 0
        BY <2>1, TopDrain
    <2>3. i \in Nat /\ i < Len(drains) /\ (i > 0 => i \in DOMAIN drains)
        BY <2>2, LenProperties DEF TypeOK
    <2> HIDE DEF i
    <2>4. i > 0 => drains[i].pc = "gc"
        BY <2>3 DEF OuterDrainsWait
    <2>5. Taken' = 0
        BY <2>1, <2>3, <2>4, CutDrains
    <2> QED
        BY <1>5, <1>9, <2>5 DEF EndDrain, collector
<1> QED
    BY <1>1, <1>2, <1>3, <1>4, <1>6, <1>7, <1>8, <1>9, EnqueueOnce, TakeOnce,
       RunOnce DEF Next

\* A __gc metamethod runs at most once for each object (lgc.go:11-20), however
\* its registration, collection, resurrection and drains interleave.
THEOREM FinalizedOnce == Spec => []OnceOnly
<1>1. Init => OnceInv
    BY DEF Init, OnceInv, QueuedOnce, OncePath, Queued, BeingTaken
<1>2. TypeOK /\ OuterDrainsWait /\ OnceInv /\ [Next]_vars => OnceInv'
    BY OnceStep
<1>3. Init => OuterDrainsWait /\ PendingMirrorsQueue
    BY DEF Init, OuterDrainsWait, PendingMirrorsQueue, Appended, Taken
<1>4. TypeOK /\ OuterDrainsWait /\ PendingMirrorsQueue /\ [Next]_vars
        => OuterDrainsWait' /\ PendingMirrorsQueue'
    BY PendingStep
<1>5. OnceInv => OnceOnly
    BY DEF OnceInv, OncePath, OnceOnly
<1> QED
    BY <1>1, <1>2, <1>3, <1>4, <1>5, TypeCorrect, PTL DEF Spec
=============================================================================
