----------------------------- MODULE Finalizers -----------------------------
(***************************************************************************)
(* __gc finalizers (lua/lgc.go).  The Go collector calls enqueueFinalizer  *)
(* on a goroutine of its own, which appends the object to finQueue under   *)
(* finMu and, after unlocking, counts it in finPending.  The thread that   *)
(* runs Lua reads finPending every finGCPoll instructions and drains the   *)
(* queue, last object first; collectgarbage and Close drain it             *)
(* unconditionally.  A __gc function is ordinary Lua code: it may reach a  *)
(* poll or call collectgarbage itself, so drains nest.                     *)
(***************************************************************************)
EXTENDS Integers, Sequences, FiniteSets, SequencesExt

CONSTANTS
    Objects,     \* tables and full userdata
    NoObject,    \* no object
    MaxNesting   \* Go-level calls left: how deep __gc functions may nest

ASSUME NoObjectAssumption == NoObject \notin Objects
ASSUME NestingAssumption == MaxNesting \in Nat

VARIABLES
    meta,        \* the object's metatable: does it have a __gc field?
    held,        \* objects the Lua program can reach
    finReg,      \* Table.finReg, userData.finReg
    armed,       \* objects with a Go finalizer attached (runtime.SetFinalizer)
    due,         \* objects the collector has handed to its finalizer goroutine
    adding,      \* the object enqueueFinalizer has appended and not counted yet
    finQueue,    \* coState.finQueue
    finPending,  \* coState.finPending
    drains,      \* active drainFinalizers calls, the innermost last
    ran          \* history: how often the object's __gc has been called

program == <<meta, held>>
collector == <<armed, due, adding>>
vars == <<program, finReg, collector, finQueue, finPending, drains, ran>>

\* Where a drain is: about to take from the queue, before finPending--, or
\* below the __gc function of obj.
Looping == [pc |-> "loop", obj |-> NoObject]
Drain == {Looping} \cup [pc : {"taken", "gc"}, obj : Objects]

\* The thread executes Lua instructions: the program's or a __gc function's.
InLua == drains # <<>> => Last(drains).pc = "gc"

\* The object whose __gc function is running.
Finalized == IF drains = <<>> THEN NoObject ELSE Last(drains).obj

Init ==
    /\ meta = [o \in Objects |-> FALSE]
    /\ held = Objects
    /\ finReg = [o \in Objects |-> FALSE]
    /\ armed = {} /\ due = {} /\ adding = NoObject
    /\ finQueue = <<>> /\ finPending = 0
    /\ drains = <<>>
    /\ ran = [o \in Objects |-> 0]

-----------------------------------------------------------------------------
(* The Lua program *)
\* Mutant: finReg is not tested.
RegistersAgain(o, gc) == gc

\* checkFinalizer attaches a finalizer the first time only.
Registers(o, gc) == gc /\ ~finReg[o]

\* setmetatable and checkFinalizer.
SetMetatable(o, gc) ==
    /\ InLua
    /\ o \in held \/ o = Finalized
    /\ meta' = [meta EXCEPT ![o] = gc]
    /\ IF Registers(o, gc)
       THEN /\ finReg' = [finReg EXCEPT ![o] = TRUE]
            /\ armed' = armed \cup {o}
       ELSE UNCHANGED <<finReg, armed>>
    /\ UNCHANGED <<held, due, adding, finQueue, finPending, drains, ran>>

\* The program gives up its last reference to some objects.
Drop(S) ==
    /\ InLua
    /\ held' = held \ S
    /\ UNCHANGED <<meta, finReg, collector, finQueue, finPending, drains, ran>>

\* A __gc function stores its argument: the object lives on.
Resurrect ==
    /\ drains # <<>> /\ Last(drains).pc = "gc"
    /\ held' = held \cup {Last(drains).obj}
    /\ UNCHANGED <<meta, finReg, collector, finQueue, finPending, drains, ran>>

-----------------------------------------------------------------------------
(* The Go collector and its finalizer goroutine *)

\* Objects nothing refers to: the queue and the running drains do.
Unreachable ==
    {o \in armed : /\ o \notin held
                   /\ \A i \in DOMAIN finQueue : finQueue[i] # o
                   /\ \A i \in DOMAIN drains : drains[i].obj # o}

\* A collection cycle: SetFinalizer is one-shot.
Collected ==
    /\ due' = due \cup Unreachable
    /\ armed' = armed \ Unreachable

GoCollect ==
    /\ Unreachable # {}
    /\ Collected
    /\ UNCHANGED <<program, finReg, adding, finQueue, finPending, drains, ran>>

\* enqueueFinalizer up to finMu.Unlock, for an object of the collector's choice.
Enqueue(o) ==
    /\ o \in due /\ adding = NoObject
    /\ due' = due \ {o}
    /\ finQueue' = Append(finQueue, o)
    /\ adding' = o
    /\ UNCHANGED <<program, finReg, armed, finPending, drains, ran>>

\* enqueueFinalizer's atomic.AddInt32.
CountEnqueued ==
    /\ adding # NoObject
    /\ finPending' = finPending + 1
    /\ adding' = NoObject
    /\ UNCHANGED <<program, finReg, armed, due, finQueue, drains, ran>>

-----------------------------------------------------------------------------
(* The thread that runs Lua *)

\* pollFinalizers finds something queued.
Poll ==
    /\ InLua
    /\ finPending > 0
    /\ drains' = Append(drains, Looping)
    /\ UNCHANGED <<program, finReg, collector, finQueue, finPending, ran>>

\* finalizeAll: collectgarbage("collect"), collectgarbage("step"), Close.
FinalizeAll ==
    /\ InLua
    /\ Collected
    /\ drains' = Append(drains, Looping)
    /\ UNCHANGED <<program, finReg, adding, finQueue, finPending, ran>>

\* Mutant: the drain keeps the object it is done with.
GotoHolding(pc, o) ==
    [drains EXCEPT ![Len(drains)] =
        [pc |-> pc, obj |-> IF o = NoObject THEN Last(drains).obj ELSE o]]

\* The innermost drain goes on at pc, holding o.
Goto(pc, o) == [drains EXCEPT ![Len(drains)] = [pc |-> pc, obj |-> o]]

\* drainFinalizers takes the last object, under the lock.
Take ==
    /\ drains # <<>> /\ Last(drains).pc = "loop"
    /\ finQueue # <<>>
    /\ drains' = Goto("taken", Last(finQueue))
    /\ finQueue' = Front(finQueue)
    /\ UNCHANGED <<program, finReg, collector, finPending, ran>>
\* Mutant: the counter is reset, not decremented.
AfterTakeReset(n) == 0

\* drainFinalizers' atomic.AddInt32.
AfterTake(n) == n - 1

\* Go-level calls in use: the call raises "C stack overflow" when none is left.
Nesting == Cardinality({i \in DOMAIN drains : drains[i].pc = "gc"})

\* finPending-- and runGCMetamethod up to the call of the __gc function, which
\* is looked up only now; the error of a refused call is swallowed.
RunGCMetamethod ==
    /\ drains # <<>> /\ Last(drains).pc = "taken"
    /\ finPending' = AfterTake(finPending)
    /\ LET o == Last(drains).obj IN
       IF meta[o] /\ Nesting < MaxNesting
       THEN /\ drains' = Goto("gc", o)
            /\ ran' = [ran EXCEPT ![o] = @ + 1]
       ELSE /\ drains' = Goto("loop", NoObject)
            /\ UNCHANGED ran
    /\ UNCHANGED <<program, finReg, collector, finQueue>>

\* The __gc function returns, or raises a Lua error that is swallowed.
GCReturns ==
    /\ drains # <<>> /\ Last(drains).pc = "gc"
    /\ drains' = Goto("loop", NoObject)
    /\ UNCHANGED <<program, finReg, collector, finQueue, finPending, ran>>

\* The __gc function panics with something else: runGCMetamethod panics again,
\* and the drains above the function (or the host) that recovers are gone.
GCPanics(i) ==
    /\ drains # <<>> /\ Last(drains).pc = "gc"
    /\ i < Len(drains) /\ (i > 0 => drains[i].pc = "gc")
    /\ drains' = SubSeq(drains, 1, i)
    /\ UNCHANGED <<program, finReg, collector, finQueue, finPending, ran>>

EndDrain ==
    /\ drains # <<>> /\ Last(drains).pc = "loop"
    /\ finQueue = <<>>
    /\ drains' = Front(drains)
    /\ UNCHANGED <<program, finReg, collector, finQueue, finPending, ran>>

Next ==
    \/ \E o \in Objects, gc \in BOOLEAN : SetMetatable(o, gc)
    \/ \E S \in SUBSET held : Drop(S)
    \/ \E i \in 0..MaxNesting : GCPanics(i)
    \/ \E o \in Objects : Enqueue(o)
    \/ Resurrect \/ GoCollect \/ CountEnqueued \/ Poll \/ FinalizeAll
    \/ Take \/ RunGCMetamethod \/ GCReturns \/ EndDrain

Spec == Init /\ [][Next]_vars

\* The finalizer goroutine runs, the VM keeps executing instructions and so
\* reaches its poll, and __gc functions end.
Fairness ==
    /\ WF_vars(CountEnqueued)
    /\ WF_vars(Poll) /\ WF_vars(Take) /\ WF_vars(RunGCMetamethod)
    /\ WF_vars(GCReturns) /\ WF_vars(EndDrain)

FairSpec == Spec /\ Fairness

-----------------------------------------------------------------------------
(* Properties *)

TypeOK ==
    /\ meta \in [Objects -> BOOLEAN]
    /\ held \subseteq Objects
    /\ finReg \in [Objects -> BOOLEAN]
    /\ armed \subseteq Objects /\ due \subseteq Objects
    /\ adding \in Objects \cup {NoObject}
    /\ finQueue \in Seq(Objects)
    /\ finPending \in Int
    /\ drains \in Seq(Drain)
    /\ ran \in [Objects -> Nat]

\* "finPending mirrors len(finQueue)" (lstate.go:129), made exact: the counter
\* differs from the queue's length only by the object being appended and the
\* object being taken, so at rest the poll neither misses one nor spins.
Appended == IF adding = NoObject THEN 0 ELSE 1
Taken == IF drains # <<>> /\ Last(drains).pc = "taken" THEN 1 ELSE 0
PendingMirrorsQueue == finPending + Appended = Len(finQueue) + Taken

\* "once only" (lgc.go:12): an object's __gc is called at most once, however
\* often it is given a metatable, dropped and resurrected.
OnceOnly == \A o \in Objects : ran[o] <= 1

\* An object the collector queued is eventually finalized, even if a __gc
\* function panics in the middle of a drain.
QueueDrains ==
    \A o \in Objects : (\E i \in DOMAIN finQueue : finQueue[i] = o)
                         ~> (\A i \in DOMAIN finQueue : finQueue[i] # o)
=============================================================================
