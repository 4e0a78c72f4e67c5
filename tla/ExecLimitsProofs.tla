-------------------------- MODULE ExecLimitsProofs --------------------------
(***************************************************************************)
(* Proofs about ExecLimits, for any number of coroutines, contexts, limits *)
(* and any poll interval: cancellation reaches every thread started under  *)
(* the State's context; every instruction executed under a budget is in    *)
(* its count, in a tick, with a gate that polls finalizers, or in a lost   *)
(* quantum; and the budget bounds what is executed accordingly.            *)
(***************************************************************************)
EXTENDS ExecLimits, SequenceTheorems, FiniteSetTheorems, WellFoundedInduction, TLAPS

\* Every heir has the context of the main thread: newThread hands it down, and
\* a new context starts a new set of heirs.
HeirsAgree == \A t \in heirs : ctx[t] = ctx[Main]
HeirsExist == heirs \subseteq created \cup {Main}
ContextInv ==
    /\ DOMAIN ctx = Threads /\ created \subseteq Coroutines
    /\ HeirsExist /\ HeirsAgree

LEMMA ContextStep ==
    ASSUME ContextInv, [Next]_vars
    PROVE  ContextInv'
<1>1. ASSUME UNCHANGED <<ctx, created, heirs>>
      PROVE  ContextInv'
    BY <1>1 DEF ContextInv, HeirsAgree, HeirsExist
<1>2. ASSUME NEW t \in Threads, NEW co \in Coroutines, Spawn(t, co)
      PROVE  ContextInv'
    <2>1. /\ co \notin created /\ created' = created \cup {co}
          /\ ctx' = [ctx EXCEPT ![co] = ctx[t]]
          /\ heirs' = IF t \in heirs THEN heirs \cup {co} ELSE heirs
        BY <1>2 DEF Spawn, InheritedContext
    <2>2. co # Main /\ co \in Threads
        BY ThreadAssumption DEF Threads
    <2>3. \A u \in Threads : ctx'[u] = IF u = co THEN ctx[t] ELSE ctx[u]
        BY <2>1 DEF ContextInv
    <2>4. co \notin heirs /\ heirs \subseteq Threads /\ Main \in Threads
        BY <2>1, <2>2 DEF ContextInv, HeirsExist, Threads
    <2>5. DOMAIN ctx' = Threads /\ created' \subseteq Coroutines /\ HeirsExist'
        BY <2>1 DEF ContextInv, HeirsExist
    <2>6. HeirsAgree'
        BY <2>1, <2>2, <2>3, <2>4 DEF ContextInv, HeirsAgree
    <2> QED
        BY <2>5, <2>6 DEF ContextInv
<1>3. ASSUME NEW c \in Contexts \cup {NoContext}, SetContext(c)
      PROVE  ContextInv'
    BY <1>3 DEF SetContext, ContextInv, HeirsAgree, HeirsExist
<1>4. ASSUME NEW n \in Limits, SetInstructionLimit(n)
      PROVE  UNCHANGED <<ctx, created, heirs>>
    BY <1>4 DEF SetInstructionLimit
<1>5. ASSUME NEW c \in Contexts, Cancel(c)
      PROVE  UNCHANGED <<ctx, created, heirs>>
    BY <1>5 DEF Cancel, limits
<1>6. ASSUME NEW co \in Coroutines, Resume(co)
      PROVE  UNCHANGED <<ctx, created, heirs>>
    BY <1>6 DEF Resume, limits
<1>7. ASSUME NEW t \in Threads,
             \/ Execute(t) \/ ReachGate(t) \/ RunFinalizer(t)
             \/ GateCancelled(t) \/ GateBudget(t) \/ GateFree(t)
      PROVE  UNCHANGED <<ctx, created, heirs>>
    BY <1>7 DEF Execute, ReachGate, RunFinalizer, GateCancelled, GateBudget, GateFree, limits
<1>8. ASSUME \/ ClearInstructionLimit \/ Run \/ RunEnds \/ Yield \/ Finish \/ FinalizerEnds
             \/ \E i \in 0 .. Len(chain) : GoPanic(i)
             \/ UNCHANGED vars
      PROVE  UNCHANGED <<ctx, created, heirs>>
    BY <1>8 DEF ClearInstructionLimit, Run, RunEnds, Yield, Finish, FinalizerEnds, GoPanic,
                limits, vars
<1> QED
    BY <1>1, <1>2, <1>3, <1>4, <1>5, <1>6, <1>7, <1>8 DEF Next, ThreadStep

LEMMA GateStep ==
    ASSUME ContextInv, ~missed, [Next]_vars
    PROVE  ~missed'
<1>1. ASSUME NEW t \in Threads, GateBudget(t) \/ GateFree(t)
      PROVE  ~missed'
    <2>1. /\ ctx[t] \notin done
          /\ missed' = (missed \/ (t \in heirs /\ ctx[Main] \in done))
        BY <1>1 DEF GateBudget, GateFree, Cancelled, Passes
    <2>2. t \in heirs => ctx[Main] = ctx[t]
        BY DEF ContextInv, HeirsAgree
    <2> QED
        BY <2>1, <2>2
<1>2. ASSUME NEW t \in Threads,
             \/ \E co \in Coroutines : Spawn(t, co)
             \/ Execute(t) \/ ReachGate(t) \/ RunFinalizer(t) \/ GateCancelled(t)
      PROVE  UNCHANGED missed
    BY <1>2 DEF Execute, ReachGate, RunFinalizer, GateCancelled, Spawn
<1>3. ASSUME \/ \E n \in Limits : SetInstructionLimit(n)
             \/ \E c \in Contexts \cup {NoContext} : SetContext(c)
             \/ \E c \in Contexts : Cancel(c)
             \/ \E co \in Coroutines : Resume(co)
      PROVE  UNCHANGED missed
    BY <1>3 DEF SetInstructionLimit, SetContext, Cancel, Resume
<1>4. ASSUME \/ ClearInstructionLimit \/ Run \/ RunEnds \/ Yield \/ Finish \/ FinalizerEnds
             \/ \E i \in 0 .. Len(chain) : GoPanic(i)
             \/ UNCHANGED vars
      PROVE  UNCHANGED missed
    BY <1>4 DEF ClearInstructionLimit, Run, RunEnds, Yield, Finish, FinalizerEnds, GoPanic, vars
<1> QED
    BY <1>1, <1>2, <1>3, <1>4 DEF Next, ThreadStep

\* A cancelled context stops every thread that started under it
\* (lcorolib.go:62): the poll gate lets none of them pass once it is done.
THEOREM CancellationReachesAll == Spec => []CancelStopsEveryThread
<1>1. Init => ContextInv /\ ~missed
    BY DEF Init, ContextInv, HeirsAgree, HeirsExist, Threads
<1>2. ContextInv /\ ~missed /\ [Next]_vars => ContextInv' /\ ~missed'
    BY ContextStep, GateStep
<1>3. ~missed => CancelStopsEveryThread
    BY DEF CancelStopsEveryThread
<1> QED
    BY <1>1, <1>2, <1>3, PTL DEF Spec
-----------------------------------------------------------------------------
(***************************************************************************)
(* The budget.  The argument is an account: what was executed under the    *)
(* budget is what its gates counted, what its threads have not taken to a  *)
(* gate yet, and a quantum for each gate that still polls or was unwound.  *)
(* The second is a sum over the threads.  The invariant does not speak of  *)
(* the fold that defines it: it says that there is a function that adds up *)
(* like a sum, and gives each set of threads its uncounted instructions.   *)
(* That function is the fold (SumIsUnique, below).                         *)
(***************************************************************************)
Known == created \cup {Main}

Slack == finGCPoll - 1

\* The threads that run exist; only a __gc function may run on the thread below it.
Linked(c) ==
    /\ c \in Seq(Activation)
    /\ \A i \in 1 .. Len(c) : c[i].thread \in Known
    /\ \A i \in 2 .. Len(c) : c[i - 1].pc = "code" => c[i].thread \in created

\* Types; a thread that was not created has executed nothing.
BudgetType ==
    /\ TypeOK
    /\ Linked(chain)
    /\ spawned \subseteq Known /\ Main \in spawned /\ IsFiniteSet(spawned)
    /\ \A t \in Threads \ Known : finGCTick[t] = 0 /\ budget[t] = 0

\* A thread was created under the present budget iff it points to it.
SharedBudget ==
    /\ \A t \in spawned : budget[t] = budget[Main]
    /\ Limited => \A t \in Threads \ spawned : budget[t] # budget[Main]

\* uncounted adds up ticks over sets of threads, and no thread has more than the slack.
AddsUp(uncounted, threads, ticks) ==
    /\ uncounted \in [SUBSET threads -> Int]
    /\ uncounted[{}] = 0
    /\ \A A \in SUBSET threads : \A t \in threads \ A :
           uncounted[A \cup {t}] = uncounted[A] + ticks[t]
    /\ \A A \in SUBSET threads : uncounted[A] <= Slack * Cardinality(A)

\* Quanta that are neither in a tick nor in the count.
Quanta == Held(chain) + lost

Balanced(uncounted) ==
    Limited => Present.count + uncounted[spawned] + finGCPoll * Quanta = executed + offset

Account == \E uncounted : AddsUp(uncounted, spawned, finGCTick) /\ Balanced(uncounted)

\* Until the error is raised the limit has not been counted up to.
NotSpent == Limited /\ ~exceeded => Present.count < Present.limit

BudgetInv == BudgetType /\ SharedBudget /\ Account /\ NotSpent

LEMMA SlackType == Slack \in Nat /\ finGCPoll \in Nat /\ finGCPoll = Slack + 1
BY LimitAssumption DEF Slack

LEMMA LimitType == \A l \in Limits : l \in Int
<1> SUFFICES ASSUME NEW l \in Limits PROVE l \in Int
    OBVIOUS
<1>1. l \in Nat \ {0}
    BY LimitAssumption, Zenon
<1> QED
    BY <1>1

LEMMA SlackTimes ==
    ASSUME NEW k \in Nat
    PROVE  Slack * (k + 1) = Slack * k + Slack /\ Slack * k \in Nat /\ Slack * 0 = 0
<1>1. Slack \in Nat
    BY SlackType
<1> QED
    BY <1>1

\* A sum over one thread.
LEMMA OneAddsUp ==
    ASSUME NEW t, NEW ticks, ticks[t] \in 0 .. Slack
    PROVE  \E u : AddsUp(u, {t}, ticks) /\ u[{t}] = ticks[t]
<1> DEFINE u == [A \in SUBSET {t} |-> IF t \in A THEN ticks[t] ELSE 0]
<1>1. u \in [SUBSET {t} -> Int] /\ u[{}] = 0 /\ u[{t}] = ticks[t]
    OBVIOUS
<1>2. \A A \in SUBSET {t} : \A x \in {t} \ A : A = {} /\ A \cup {x} = {t} /\ x = t
    OBVIOUS
<1>3. \A A \in SUBSET {t} : \A x \in {t} \ A : u[A \cup {x}] = u[A] + ticks[x]
    <2> SUFFICES ASSUME NEW A \in SUBSET {t}, NEW x \in {t} \ A
                 PROVE  u[A \cup {x}] = u[A] + ticks[x]
        OBVIOUS
    <2> HIDE DEF u
    <2>1. A = {} /\ A \cup {x} = {t} /\ x = t
        BY <1>2
    <2>2. u[A \cup {x}] = ticks[t]
        BY <1>1, <2>1, Zenon
    <2>3. u[A] = 0
        BY <1>1, <2>1, Zenon
    <2> QED
        BY <2>1, <2>2, <2>3
<1>4. \A A \in SUBSET {t} : u[A] <= Slack * Cardinality(A)
    <2>1. Cardinality({}) = 0 /\ Cardinality({t}) = 1
        BY FS_EmptySet, FS_Singleton
    <2>2. Slack * 0 = 0 /\ Slack * 1 = Slack
        BY SlackType
    <2>3. \A A \in SUBSET {t} : A = {} \/ A = {t}
        OBVIOUS
    <2> HIDE DEF u
    <2>4. u[{}] <= Slack * Cardinality({}) /\ u[{t}] <= Slack * Cardinality({t})
        BY <1>1, <2>1, <2>2, SlackType
    <2> QED
        BY <2>3, <2>4, Zenon
<1> QED
    BY <1>1, <1>3, <1>4 DEF AddsUp

\* One more thread with nothing uncounted.
LEMMA MoreAddsUp ==
    ASSUME NEW T, IsFiniteSet(T), NEW t, t \notin T, NEW ticks, ticks[t] = 0,
           NEW u, AddsUp(u, T, ticks)
    PROVE  \E v : AddsUp(v, T \cup {t}, ticks) /\ v[T \cup {t}] = u[T]
<1> DEFINE v == [A \in SUBSET (T \cup {t}) |-> u[A \ {t}]]
<1>1. \A A \in SUBSET (T \cup {t}) : A \ {t} \in SUBSET T /\ v[A] = u[A \ {t}] /\ u[A \ {t}] \in Int
    BY DEF AddsUp
<1>2. v \in [SUBSET (T \cup {t}) -> Int]
    BY <1>1
<1>3. (T \cup {t}) \ {t} = T /\ {} \ {t} = {}
    OBVIOUS
<1>4. v[{}] = 0 /\ v[T \cup {t}] = u[T]
    BY <1>3 DEF AddsUp
<1> HIDE DEF v
<1>5. ASSUME NEW A \in SUBSET (T \cup {t}), NEW x \in (T \cup {t}) \ A
      PROVE  v[A \cup {x}] = v[A] + ticks[x]
    <2>1. v[A \cup {x}] = u[(A \cup {x}) \ {t}] /\ v[A] = u[A \ {t}] /\ u[A \ {t}] \in Int
        BY <1>1, <1>5
    <2>2. CASE x = t
        <3>1. (A \cup {x}) \ {t} = A \ {t}
            BY <2>2
        <3>2. v[A \cup {x}] = v[A]
            BY <2>1, <3>1, Zenon
        <3> QED
            BY <2>1, <2>2, <3>2
    <2>3. CASE x # t
        <3>1. (A \cup {x}) \ {t} = (A \ {t}) \cup {x} /\ A \ {t} \in SUBSET T /\ x \in T \ (A \ {t})
            BY <1>5, <2>3
        <3>2. u[(A \ {t}) \cup {x}] = u[A \ {t}] + ticks[x]
            BY <3>1, Zenon DEF AddsUp
        <3> QED
            BY <2>1, <3>1, <3>2, Zenon
    <2> QED
        BY <2>2, <2>3
<1>6. ASSUME NEW A \in SUBSET (T \cup {t})
      PROVE  v[A] <= Slack * Cardinality(A)
    <2>1. A \ {t} \in SUBSET T /\ IsFiniteSet(A \ {t}) /\ Cardinality(A \ {t}) \in Nat
        BY <1>1, <1>6, FS_Subset, FS_CardinalityType
    <2>2. v[A] <= Slack * Cardinality(A \ {t}) /\ v[A] \in Int
        BY <1>1, <2>1 DEF AddsUp
    <2>3. CASE t \in A
        <3>1. A = (A \ {t}) \cup {t} /\ t \notin A \ {t}
            BY <2>3
        <3>2. Cardinality(A) = Cardinality(A \ {t}) + 1
            BY <2>1, <3>1, FS_AddElement
        <3>3. Slack * Cardinality(A) = Slack * Cardinality(A \ {t}) + Slack
            BY <2>1, <3>2, SlackTimes
        <3>4. Slack * Cardinality(A \ {t}) \in Nat
            BY <2>1, SlackTimes
        <3> QED
            BY <2>2, <3>3, <3>4, SlackType
    <2>4. CASE t \notin A
        <3>1. A \ {t} = A
            BY <2>4
        <3> QED
            BY <2>2, <3>1
    <2> QED
        BY <2>3, <2>4
<1> QED
    BY <1>2, <1>4, <1>5, <1>6 DEF AddsUp

\* The ticks of one thread change.
LEMMA ChangeAddsUp ==
    ASSUME NEW T, IsFiniteSet(T), NEW t, t \in T,
           NEW ticks, \A x \in T : ticks[x] \in Int,
           NEW new, \A x \in T : x # t => new[x] = ticks[x],
           NEW k, k \in 0 .. Slack, new[t] = k,
           NEW u, AddsUp(u, T, ticks)
    PROVE  \E v : AddsUp(v, T, new) /\ v[T] = u[T] + k - ticks[t]
<1> DEFINE v == [A \in SUBSET T |-> IF t \in A THEN u[A] + k - ticks[t] ELSE u[A]]
<1>1. /\ u \in [SUBSET T -> Int] /\ u[{}] = 0
      /\ \A A \in SUBSET T : \A x \in T \ A : u[A \cup {x}] = u[A] + ticks[x]
      /\ \A A \in SUBSET T : u[A] <= Slack * Cardinality(A)
    BY DEF AddsUp
<1>2. /\ new[t] = k /\ k \in Int /\ ticks[t] \in Int
      /\ \A x \in T : x # t => new[x] = ticks[x]
      /\ \A x \in T : ticks[x] \in Int
    BY SlackType
<1>3. /\ v \in [SUBSET T -> Int] /\ v[{}] = 0
      /\ \A A \in SUBSET T : v[A] = IF t \in A THEN u[A] + k - ticks[t] ELSE u[A]
      /\ v[T] = u[T] + k - ticks[t]
    BY <1>1, <1>2
<1> HIDE DEF v
<1>4. ASSUME NEW A \in SUBSET T, NEW x \in T \ A
      PROVE  v[A \cup {x}] = v[A] + new[x]
    <2>1. /\ A \cup {x} \in SUBSET T /\ u[A] \in Int
          /\ u[A \cup {x}] = u[A] + ticks[x]
        BY <1>1
    <2>2. CASE x = t
        <3>1. v[A] = u[A] /\ v[A \cup {x}] = u[A \cup {x}] + k - ticks[t]
            BY <1>3, <2>1, <2>2
        <3> QED
            BY <1>2, <2>1, <2>2, <3>1
    <2>3. CASE x # t /\ t \in A
        <3>1. v[A] = u[A] + k - ticks[t] /\ v[A \cup {x}] = u[A \cup {x}] + k - ticks[t]
            BY <1>3, <2>1, <2>3
        <3> QED
            BY <1>2, <2>1, <2>3, <3>1
    <2>4. CASE x # t /\ t \notin A
        <3>1. v[A] = u[A] /\ v[A \cup {x}] = u[A \cup {x}]
            BY <1>3, <2>1, <2>4
        <3> QED
            BY <1>2, <2>1, <2>4, <3>1
    <2> QED
        BY <2>2, <2>3, <2>4
<1>5. ASSUME NEW A \in SUBSET T
      PROVE  v[A] <= Slack * Cardinality(A)
    <2>1. CASE t \notin A
        BY <1>1, <1>3, <2>1
    <2>2. CASE t \in A
        <3> DEFINE B == A \ {t}
        <3>1. B \in SUBSET T /\ t \in T \ B /\ A = B \cup {t}
            BY <2>2
        <3>2. IsFiniteSet(B) /\ Cardinality(B) \in Nat /\ Cardinality(A) = Cardinality(B) + 1
            BY <3>1, FS_Subset, FS_CardinalityType, FS_AddElement
        <3>3. v[A] = v[B] + k /\ v[B] = u[B] /\ u[B] \in Int
            <4>1. v[B \cup {t}] = v[B] + new[t]
                BY <1>4, <3>1, Zenon
            <4>2. v[B] = u[B]
                BY <1>3, <3>1, Zenon
            <4>3. u[B] \in Int
                BY <1>1, <3>1
            <4> QED
                BY <1>2, <3>1, <4>1, <4>2, <4>3, Zenon
        <3>4. u[B] <= Slack * Cardinality(B)
            BY <1>1, <3>1
        <3> HIDE DEF B
        <3> QED
            BY <1>2, <3>2, <3>3, <3>4, SlackTimes, SlackType
    <2> QED
        BY <2>1, <2>2
<1> QED
    BY <1>3, <1>4, <1>5 DEF AddsUp
-----------------------------------------------------------------------------
(* The steps that keep the account. *)

\* A thread's tick is set to k.
LEMMA TickAddsUp ==
    ASSUME BudgetType, NEW t, t \in Threads, NEW k, k \in 0 .. Slack,
           finGCTick' = [finGCTick EXCEPT ![t] = k],
           NEW u, AddsUp(u, spawned, finGCTick)
    PROVE  \E v : /\ AddsUp(v, spawned, finGCTick')
                  /\ v[spawned] = IF t \in spawned THEN u[spawned] + k - finGCTick[t]
                                                   ELSE u[spawned]
<1>1. /\ IsFiniteSet(spawned) /\ finGCTick'[t] = k
      /\ \A x \in spawned : finGCTick[x] \in Int /\ (x # t => finGCTick'[x] = finGCTick[x])
    BY SlackType DEF BudgetType, TypeOK
<1>2. CASE t \in spawned
    <2> DEFINE new == finGCTick'
    <2>1. /\ \A x \in spawned : finGCTick[x] \in Int
          /\ \A x \in spawned : x # t => new[x] = finGCTick[x]
          /\ new[t] = k
        BY <1>1
    <2> HIDE DEF new
    <2>2. \E v : AddsUp(v, spawned, new) /\ v[spawned] = u[spawned] + k - finGCTick[t]
        BY ONLY <1>1, <1>2, <2>1, ChangeAddsUp, k \in 0 .. Slack, AddsUp(u, spawned, finGCTick)
    <2> QED
        BY <1>2, <2>2, Zenon DEF new
<1>3. CASE t \notin spawned
    <2>1. \A x \in spawned : finGCTick'[x] = finGCTick[x]
        BY <1>1, <1>3
    <2>2. AddsUp(u, spawned, finGCTick')
        BY <2>1, Zenon DEF AddsUp
    <2> QED
        BY <1>3, <2>2
<1> QED
    BY <1>2, <1>3

-----------------------------------------------------------------------------
(* The chain of activations, and the quanta that its gates hold. *)

LEMMA LinkedPrefix ==
    ASSUME NEW c, Linked(c), NEW n \in 0 .. Len(c)
    PROVE  /\ Linked(SubSeq(c, 1, n)) /\ Len(SubSeq(c, 1, n)) = n
           /\ \A i \in 1 .. n : SubSeq(c, 1, n)[i] = c[i]
<1>1. Len(c) \in Nat /\ n \in Nat /\ n <= Len(c)
    BY LenProperties DEF Linked
<1>2. \A i \in 1 .. n : c[i] \in Activation
    BY <1>1, ElementOfSeq DEF Linked
<1>3. /\ SubSeq(c, 1, n) \in Seq(Activation) /\ Len(SubSeq(c, 1, n)) = n
      /\ \A i \in 1 .. n : SubSeq(c, 1, n)[i] = c[i]
    BY <1>1, <1>2, SubSeqProperties
<1> HIDE DEF Activation
<1>4. Linked(SubSeq(c, 1, n))
    BY <1>1, <1>3 DEF Linked
<1> QED
    BY <1>3, <1>4

LEMMA LinkedFront ==
    ASSUME Linked(chain), ~Idle
    PROVE  /\ Len(chain) \in Nat \ {0} /\ Last(chain) = chain[Len(chain)]
           /\ Last(chain) \in Activation /\ Last(chain).thread \in Known
           /\ Linked(Front(chain)) /\ Len(Front(chain)) = Len(chain) - 1
           /\ \A i \in 1 .. Len(chain) - 1 : Front(chain)[i] = chain[i]
<1>1. Len(chain) \in Nat \ {0}
    BY EmptySeq DEF Linked, Idle
<1>2. chain[Len(chain)] \in Activation /\ chain[Len(chain)].thread \in Known
    BY <1>1, ElementOfSeq DEF Linked
<1>3. Len(chain) - 1 \in 0 .. Len(chain)
    BY <1>1
<1> QED
    BY <1>1, <1>2, <1>3, LinkedPrefix DEF Front, Last

LEMMA LinkedPush ==
    ASSUME NEW c, Linked(c), NEW a \in Activation, a.thread \in Known,
           Len(c) > 0 /\ c[Len(c)].pc = "code" => a.thread \in created
    PROVE  /\ Linked(Append(c, a)) /\ Len(Append(c, a)) = Len(c) + 1
           /\ \A i \in 1 .. Len(c) : Append(c, a)[i] = c[i]
           /\ Append(c, a)[Len(c) + 1] = a
<1>1. /\ c \in Seq(Activation) /\ Len(c) \in Nat
      /\ Append(c, a) \in Seq(Activation) /\ Len(Append(c, a)) = Len(c) + 1
      /\ \A i \in 1 .. Len(c) : Append(c, a)[i] = c[i]
      /\ Append(c, a)[Len(c) + 1] = a
    BY LenProperties, AppendProperties DEF Linked
<1>2. \A i \in 1 .. Len(c) + 1 : i \in 1 .. Len(c) \/ i = Len(c) + 1
    BY <1>1
<1>3. \A i \in 2 .. Len(c) + 1 : i - 1 \in 1 .. Len(c) /\ (i \in 2 .. Len(c) \/ i = Len(c) + 1)
    BY <1>1
<1> DEFINE d == Append(c, a)
<1> HIDE DEF d, Activation
<1>4. \A i \in 1 .. Len(d) : d[i].thread \in Known
    BY <1>1, <1>2 DEF Linked, d
<1>5. \A i \in 2 .. Len(d) : d[i - 1].pc = "code" => d[i].thread \in created
    BY <1>1, <1>3 DEF Linked, d
<1> QED
    BY <1>1, <1>4, <1>5 DEF Linked, d

LEMMA LinkedGoto ==
    ASSUME Linked(chain), ~Idle, NEW pc \in {"code", "gate"}
    PROVE  /\ Linked(Goto(pc)) /\ Len(Goto(pc)) = Len(chain)
           /\ \A i \in 1 .. Len(chain) - 1 : Goto(pc)[i] = chain[i]
           /\ Goto(pc)[Len(chain)] = [thread |-> Last(chain).thread, pc |-> pc]
<1> DEFINE n == Len(chain)
           a == [chain[n] EXCEPT !.pc = pc]
<1>1. n \in Nat \ {0} /\ chain[n] \in Activation /\ chain[n] = Last(chain) /\ chain \in Seq(Activation)
    BY LinkedFront DEF Linked
<1>2. /\ a = [thread |-> Last(chain).thread, pc |-> pc] /\ a \in Activation
      /\ a.thread = chain[n].thread /\ Goto(pc) = [chain EXCEPT ![n] = a]
    BY <1>1 DEF Activation, Goto
<1> HIDE DEF n, a, Activation
<1>3. /\ Goto(pc) \in Seq(Activation) /\ Len(Goto(pc)) = n
      /\ \A i \in 1 .. n : Goto(pc)[i] = IF i = n THEN a ELSE chain[i]
    BY <1>1, <1>2, ExceptSeq DEF n
<1>4. \A i \in 1 .. n : Goto(pc)[i].thread = chain[i].thread
    BY <1>2, <1>3
<1>5. \A i \in 2 .. n : i \in 1 .. n /\ i - 1 \in 1 .. n /\ i - 1 # n
    BY <1>1
<1>6. Linked(Goto(pc))
    BY <1>1, <1>3, <1>4, <1>5 DEF Linked, n
<1> QED
    BY <1>1, <1>2, <1>3, <1>6 DEF n

HeldAt(c) == {i \in DOMAIN c : c[i].pc = "gate" /\ c[i].thread \in spawned}

LEMMA HeldType ==
    ASSUME NEW c \in Seq(Activation)
    PROVE  /\ Held(c) = Cardinality(HeldAt(c)) /\ IsFiniteSet(HeldAt(c)) /\ Held(c) \in Nat
           /\ DOMAIN c = 1 .. Len(c) /\ Len(c) \in Nat
<1>1. DOMAIN c = 1 .. Len(c) /\ Len(c) \in Nat
    BY LenProperties
<1>2. HeldAt(c) \in SUBSET (1 .. Len(c)) /\ IsFiniteSet(1 .. Len(c))
    BY <1>1, FS_Interval DEF HeldAt
<1>3. IsFiniteSet(HeldAt(c)) /\ Cardinality(HeldAt(c)) \in Nat
    BY <1>2, FS_Subset, FS_CardinalityType
<1> QED
    BY <1>1, <1>3 DEF Held, HeldAt

\* A chain that is cut holds no more.
LEMMA HeldCut ==
    ASSUME NEW c \in Seq(Activation), NEW d \in Seq(Activation), Len(d) <= Len(c),
           \A i \in 1 .. Len(d) : d[i] = c[i]
    PROVE  Held(d) <= Held(c)
<1>1. HeldAt(d) \in SUBSET HeldAt(c)
    BY HeldType DEF HeldAt
<1> QED
    BY <1>1, HeldType, FS_Subset

\* An activation that executes code holds nothing.
LEMMA HeldCode ==
    ASSUME NEW c \in Seq(Activation), NEW d \in Seq(Activation), Len(d) = Len(c) + 1,
           \A i \in 1 .. Len(c) : d[i] = c[i], d[Len(d)].pc = "code"
    PROVE  Held(d) = Held(c)
<1>1. Len(c) \in Nat /\ DOMAIN c = 1 .. Len(c) /\ DOMAIN d = 1 .. Len(c) + 1
    BY HeldType
<1>2. \A i \in 1 .. Len(c) + 1 : i \in 1 .. Len(c) \/ i = Len(d)
    BY <1>1
<1>3. HeldAt(d) = HeldAt(c)
    BY <1>1, <1>2 DEF HeldAt
<1> QED
    BY <1>3, HeldType

LEMMA OneMore ==
    ASSUME NEW G, NEW H, NEW x, x \notin G, \A i : i # x => (i \in G <=> i \in H)
    PROVE  (x \in H => H = G \cup {x}) /\ (x \notin H => H = G)
OBVIOUS

\* The innermost gate holds one quantum, if its thread runs under the budget.
LEMMA HeldGate ==
    ASSUME NEW c \in Seq(Activation), NEW d \in Seq(Activation), NEW n \in Nat,
           Len(c) = n + 1, c[n + 1].pc = "gate", \A i \in 1 .. n : d[i] = c[i],
           Len(d) = n \/ (Len(d) = n + 1 /\ d[n + 1].pc = "code")
    PROVE  Held(c) = IF c[n + 1].thread \in spawned THEN Held(d) + 1 ELSE Held(d)
<1>1. DOMAIN c = 1 .. n + 1 /\ DOMAIN d = 1 .. Len(d)
    BY HeldType, Zenon
<1>2. ASSUME NEW i
      PROVE  /\ i \in 1 .. n + 1 <=> i \in 1 .. n \/ i = n + 1
             /\ i \in 1 .. n => i # n + 1
    BY SMT
<1>3. n + 1 \notin HeldAt(d)
    <2>1. CASE Len(d) = n
        BY <1>1, <1>2, <2>1, Zenon DEF HeldAt
    <2>2. CASE d[n + 1].pc = "code"
        BY <2>2 DEF HeldAt
    <2> QED
        BY <2>1, <2>2
<1>4. ASSUME NEW i, i # n + 1
      PROVE  i \in HeldAt(d) <=> i \in HeldAt(c)
    <2>1. i \in DOMAIN c <=> i \in 1 .. n
        BY <1>1, <1>2, <1>4, Zenon
    <2>2. i \in DOMAIN d <=> i \in 1 .. n
        BY <1>1, <1>2, <1>4, Zenon
    <2> QED
        BY <2>1, <2>2, Zenon DEF HeldAt
<1>5. n + 1 \in HeldAt(c) <=> c[n + 1].thread \in spawned
    BY <1>1, <1>2, Zenon DEF HeldAt
<1>6. /\ c[n + 1].thread \in spawned => HeldAt(c) = HeldAt(d) \cup {n + 1}
      /\ c[n + 1].thread \notin spawned => HeldAt(c) = HeldAt(d)
    <2>1. \A i : i # n + 1 => (i \in HeldAt(d) <=> i \in HeldAt(c))
        BY <1>4
    <2>2. /\ n + 1 \in HeldAt(c) => HeldAt(c) = HeldAt(d) \cup {n + 1}
          /\ n + 1 \notin HeldAt(c) => HeldAt(c) = HeldAt(d)
        BY ONLY <1>3, <2>1, OneMore
    <2> QED
        BY ONLY <1>5, <2>2
<1> QED
    BY <1>3, <1>6, HeldType, FS_AddElement

LEMMA QuantaType ==
    ASSUME BudgetType
    PROVE  Held(chain) \in Nat /\ lost \in Nat /\ Quanta \in Nat
BY HeldType DEF BudgetType, TypeOK, Quanta

LEMMA QuantaTimes ==
    ASSUME NEW k \in Nat
    PROVE  finGCPoll * (k + 1) = finGCPoll * k + finGCPoll /\ finGCPoll * k \in Nat
           /\ finGCPoll * 0 = 0
<1>1. finGCPoll \in Nat
    BY SlackType
<1> QED
    BY <1>1

\* Threads that exist are threads.
LEMMA KnownThreads ==
    ASSUME created \subseteq Coroutines
    PROVE  Known \subseteq Threads
BY DEF Known, Threads
LEMMA Booleans ==
    ASSUME BudgetType
    PROVE  exceeded \in BOOLEAN /\ missed \in BOOLEAN
BY Zenon DEF BudgetType, TypeOK

\* The running thread leaves an activation that executes code, ...
LEMMA PopCode ==
    ASSUME Linked(chain), ~Idle, Last(chain).pc = "code"
    PROVE  Linked(Front(chain)) /\ Held(Front(chain)) = Held(chain)
<1>1. /\ Len(chain) \in Nat \ {0} /\ chain[Len(chain)].pc = "code"
      /\ Linked(Front(chain)) /\ Len(Front(chain)) = Len(chain) - 1
      /\ \A i \in 1 .. Len(chain) - 1 : Front(chain)[i] = chain[i]
    BY LinkedFront
<1>2. /\ Front(chain) \in Seq(Activation) /\ chain \in Seq(Activation)
      /\ Len(chain) = Len(Front(chain)) + 1
      /\ \A i \in 1 .. Len(Front(chain)) : chain[i] = Front(chain)[i]
    BY <1>1 DEF Linked
<1>3. Held(chain) = Held(Front(chain))
    BY ONLY <1>1, <1>2, HeldCode
<1> QED
    BY <1>1, <1>3

\* ... or a thread enters one.
LEMMA PushCode ==
    ASSUME Linked(chain), created \subseteq Coroutines, NEW t \in Known,
           ~Idle /\ Last(chain).pc = "code" => t \in created
    PROVE  Linked(Append(chain, Coded(t))) /\ Held(Append(chain, Coded(t))) = Held(chain)
<1>1. Coded(t) \in Activation /\ Coded(t).thread = t /\ Coded(t).pc = "code"
    BY KnownThreads DEF Coded, Activation
<1>2. Len(chain) > 0 /\ chain[Len(chain)].pc = "code" => t \in created
    <2>1. Len(chain) > 0 => ~Idle
        BY EmptySeq DEF Idle
    <2> QED
        BY <2>1 DEF Last
<1>3. /\ Linked(Append(chain, Coded(t))) /\ Len(Append(chain, Coded(t))) = Len(chain) + 1
      /\ \A i \in 1 .. Len(chain) : Append(chain, Coded(t))[i] = chain[i]
      /\ Append(chain, Coded(t))[Len(chain) + 1] = Coded(t)
    BY <1>1, <1>2, LinkedPush
<1>4. Held(Append(chain, Coded(t))) = Held(chain)
    BY <1>1, <1>3, HeldCode DEF Linked
<1> QED
    BY <1>3, <1>4

LEMMA GateTop ==
    ASSUME NEW t, AtGate(t)
    PROVE  ~Idle /\ Last(chain).thread = t /\ Last(chain).pc = "gate"
BY DEF AtGate

\* A gate is left for the code behind it or unwound with its activation.
LEMMA LeaveGate ==
    ASSUME Linked(chain), NEW t, AtGate(t), NEW c, c = Goto("code") \/ c = Front(chain)
    PROVE  /\ Linked(c) /\ t \in Known
           /\ Held(chain) = IF t \in spawned THEN Held(c) + 1 ELSE Held(c)
<1>1. ~Idle /\ Last(chain).thread = t /\ Last(chain).pc = "gate"
    BY GateTop, ZenonT(60)
<1>2. PICK n \in Nat : Len(chain) = n + 1 /\ Len(chain) - 1 = n
    <2>1. Len(chain) \in Nat \ {0}
        BY <1>1, LinkedFront
    <2>2. Len(chain) - 1 \in Nat /\ Len(chain) = (Len(chain) - 1) + 1
        BY ONLY <2>1
    <2> QED
        BY ONLY <2>2
<1>3. /\ chain[n + 1].pc = "gate" /\ chain[n + 1].thread = t
      /\ t \in Known /\ chain \in Seq(Activation)
      /\ Linked(c) /\ \A i \in 1 .. n : c[i] = chain[i]
      /\ Len(c) = n \/ (Len(c) = n + 1 /\ c[n + 1].pc = "code")
    <2>1. /\ chain[n + 1].pc = "gate" /\ chain[n + 1].thread = t
          /\ t \in Known /\ chain \in Seq(Activation)
        BY <1>1, <1>2, LinkedFront DEF Linked
    <2>2. CASE c = Front(chain)
        <3>1. /\ Linked(Front(chain)) /\ Len(Front(chain)) = n
              /\ \A i \in 1 .. n : Front(chain)[i] = chain[i]
            BY <1>1, <1>2, LinkedFront, Zenon
        <3> QED
            BY <2>1, <2>2, <3>1, Zenon
    <2>3. CASE c = Goto("code")
        <3>1. /\ Linked(Goto("code")) /\ Len(Goto("code")) = n + 1
              /\ \A i \in 1 .. n : Goto("code")[i] = chain[i]
              /\ Goto("code")[n + 1].pc = "code"
            <4>1. /\ Linked(Goto("code")) /\ Len(Goto("code")) = Len(chain)
                  /\ \A i \in 1 .. Len(chain) - 1 : Goto("code")[i] = chain[i]
                  /\ Goto("code")[Len(chain)].pc = "code"
                BY <1>1, LinkedGoto
            <4> QED
                BY <1>2, <4>1, Zenon
        <3> QED
            BY <2>1, <2>3, <3>1, Zenon
    <2> QED
        BY <2>2, <2>3
<1>4. Held(chain) = IF t \in spawned THEN Held(c) + 1 ELSE Held(c)
    <2>1. c \in Seq(Activation)
        BY <1>3 DEF Linked
    <2> QED
        BY ONLY <1>2, <1>3, <2>1, HeldGate
<1> QED
    BY ONLY <1>3, <1>4

\* Steps that switch between activations: no thread executes, nothing is counted,
\* and a quantum that leaves a gate is lost.
LEMMA MoveBudget ==
    ASSUME BudgetInv,
           UNCHANGED <<budget, budgets, finGCTick, created, spawned, executed, offset, exceeded>>,
           Linked(chain'), suspended' \subseteq created, lost' \in Nat, missed' \in BOOLEAN,
           ctx' \in [Threads -> Contexts \cup {NoContext}], done' \subseteq Contexts,
           heirs' \subseteq Threads,
           Limited => Held(chain') + lost' = Held(chain) + lost
    PROVE  BudgetInv'
<1>1. Linked(chain)' /\ Known' = Known /\ chain' \in Seq(Activation)
    BY DEF Linked, Known
<1>2. {exceeded', missed'} \subseteq BOOLEAN
    BY Booleans DEF BudgetInv
<1>3. TypeOK'
    BY <1>1, <1>2 DEF BudgetInv, BudgetType, TypeOK
<1>4. BudgetType'
    BY <1>1, <1>3 DEF BudgetInv, BudgetType
<1>5. SharedBudget' /\ NotSpent'
    BY DEF BudgetInv, SharedBudget, NotSpent, Limited, Present
<1>6. Account'
    <2>1. PICK u : AddsUp(u, spawned, finGCTick) /\ Balanced(u)
        BY DEF BudgetInv, Account
    <2>2. Limited' <=> Limited
        BY DEF Limited
    <2>3. Limited => Quanta' = Quanta
        BY DEF Quanta, Held
    <2>4. Present'.count = Present.count
        BY DEF Present
    <2>5. Balanced(u)'
        BY <2>1, <2>2, <2>3, <2>4 DEF Balanced
    <2> QED
        BY <2>1, <2>5 DEF Account
<1> QED
    BY <1>4, <1>5, <1>6 DEF BudgetInv

LEMMA HostBudget ==
    ASSUME BudgetInv,
           \/ \E c \in Contexts \cup {NoContext} : SetContext(c)
           \/ \E c \in Contexts : Cancel(c)
           \/ Run \/ RunEnds
    PROVE  BudgetInv'
<1> USE ThreadAssumption
<1>1. /\ UNCHANGED <<budget, budgets, finGCTick, account, created, suspended, missed>>
      /\ chain' = chain \/ (chain = <<>> /\ chain' = <<Coded(Main)>>)
                        \/ (chain = <<Coded(Main)>> /\ chain' = <<>>)
    BY DEF SetContext, Cancel, Run, RunEnds, limits, Idle
<1>2. ctx' \in [Threads -> Contexts \cup {NoContext}] /\ done' \subseteq Contexts
      /\ heirs' \subseteq Threads
    BY DEF SetContext, Cancel, Run, RunEnds, limits, BudgetInv, BudgetType, TypeOK, Threads
<1>3. Linked(chain') /\ Held(chain') = Held(chain)
    <2>1. /\ Linked(chain)
          /\ Linked(<<>>) /\ <<>> \in Seq(Activation) /\ Len(<<>>) = 0
        BY EmptySeq DEF Linked, BudgetInv, BudgetType
    <2>2. /\ Coded(Main) \in Activation /\ Coded(Main).thread \in Known /\ Coded(Main).pc = "code"
        BY DEF Coded, Activation, Threads, Known
    <2> DEFINE a == Coded(Main)
    <2> HIDE DEF a, Activation
    <2>3. <<a>> \in Seq(Activation) /\ Len(<<a>>) = 1 /\ <<a>>[1] = a
        BY <2>2 DEF a
    <2>4. Linked(<<a>>)
        BY <2>2, <2>3 DEF Linked, a
    <2> DEFINE e == <<>>
               d == <<a>>
    <2>5. /\ e \in Seq(Activation) /\ d \in Seq(Activation) /\ Len(d) = Len(e) + 1
          /\ \A i \in 1 .. Len(e) : d[i] = e[i]
          /\ d[Len(d)].pc = "code"
        BY <2>1, <2>2, <2>3 DEF a
    <2> HIDE DEF d, e
    <2>6. Held(d) = Held(e)
        BY ONLY <2>5, HeldCode
    <2> QED
        BY <1>1, <2>1, <2>4, <2>6 DEF a, d, e
<1>4. missed' \in BOOLEAN /\ lost' = lost /\ lost \in Nat /\ suspended' \subseteq created
    BY <1>1, Booleans DEF BudgetInv, BudgetType, TypeOK, account
<1> QED
    BY <1>1, <1>2, <1>3, <1>4, MoveBudget DEF account

\* What a step of the running thread leaves alone.
LEMMA Frame ==
    ASSUME BudgetInv, UNCHANGED <<limits, done, created>>
    PROVE  /\ ctx' \in [Threads -> Contexts \cup {NoContext}] /\ done' \subseteq Contexts
           /\ heirs' \subseteq Threads /\ UNCHANGED <<budget, budgets>>
           /\ lost \in Nat /\ missed \in BOOLEAN /\ exceeded \in BOOLEAN
           /\ suspended \subseteq created /\ created \subseteq Coroutines
           /\ Linked(chain)
BY Booleans DEF BudgetInv, BudgetType, TypeOK, limits

LEMMA SwitchBudget ==
    ASSUME BudgetInv,
           \/ \E co \in Coroutines : Resume(co)
           \/ Yield \/ Finish \/ FinalizerEnds
           \/ \E t \in Threads : RunFinalizer(t)
    PROVE  BudgetInv'
<1>1. UNCHANGED <<limits, done, created, finGCTick, account, missed>>
    BY DEF Resume, Yield, Finish, FinalizerEnds, RunFinalizer
<1>2. /\ Linked(chain) /\ suspended \subseteq created /\ created \subseteq Coroutines
      /\ lost \in Nat /\ missed \in BOOLEAN
    BY <1>1, Frame
<1>3. Linked(chain') /\ Held(chain') = Held(chain) /\ suspended' \subseteq created
    <2>1. ASSUME NEW co \in Coroutines, Resume(co)
          PROVE  Linked(chain') /\ Held(chain') = Held(chain) /\ suspended' \subseteq created
        <3>1. co \in Known /\ co \in created
            BY <1>2, <2>1 DEF Resume, Known
        <3> QED
            BY <1>2, <2>1, <3>1, PushCode DEF Resume
    <2>2. ASSUME NEW t \in Threads, RunFinalizer(t)
          PROVE  Linked(chain') /\ Held(chain') = Held(chain) /\ suspended' \subseteq created
        <3>1. ~Idle /\ Last(chain).thread = t /\ Last(chain).pc = "gate" /\ chain' = Append(chain, Coded(t))
              /\ suspended' = suspended
            BY <2>2 DEF RunFinalizer, AtGate
        <3>2. t \in Known
            BY <1>2, <3>1, LinkedFront
        <3> QED
            BY <1>2, <3>1, <3>2, PushCode
    <2>3. CASE Yield \/ Finish \/ FinalizerEnds
        <3>1. /\ Len(chain) > 1 /\ Last(chain).pc = "code" /\ chain' = Front(chain)
            BY <2>3 DEF Yield, Finish, FinalizerEnds, InCoroutine, InGC
        <3>2. ~Idle
            <4>1. chain = <<>> => Len(chain) = 0
                OBVIOUS
            <4> QED
                BY <3>1, <4>1 DEF Idle
        <3>3. suspended' \subseteq created
            <4>1. CASE Yield
                <5>1. suspended' = suspended \cup {Last(chain).thread} /\ InCoroutine
                    BY <4>1 DEF Yield
                <5>2. Len(chain) \in Nat /\ Len(chain) - 1 \in 1 .. Len(chain) /\ Len(chain) \in 2 .. Len(chain)
                    BY <1>2, <3>1, <3>2, LinkedFront
                <5>3. chain[Len(chain) - 1].pc = "code"
                    <6>1. chain[Len(chain) - 1] \in Activation
                        BY <1>2, <5>2, ElementOfSeq DEF Linked
                    <6>2. chain[Len(chain) - 1].pc # "gate"
                        BY <3>1, <5>1 DEF InCoroutine, InGC
                    <6> QED
                        BY <6>1, <6>2 DEF Activation
                <5>4. chain[Len(chain)].thread \in created
                    BY <1>2, <5>2, <5>3 DEF Linked
                <5> QED
                    BY <1>2, <5>1, <5>4 DEF Last
            <4>2. CASE Finish \/ FinalizerEnds
                BY <1>2, <4>2 DEF Finish, FinalizerEnds
            <4> QED
                BY <2>3, <4>1, <4>2
        <3> QED
            BY <1>2, <3>1, <3>2, <3>3, PopCode
    <2> QED
        BY <2>1, <2>2, <2>3
<1> QED
    BY <1>1, <1>2, <1>3, Frame, MoveBudget DEF account

\* A panic unwinds gates, and their quanta are lost.
LEMMA PanicBudget ==
    ASSUME BudgetInv, NEW i \in 0 .. Len(chain), GoPanic(i)
    PROVE  BudgetInv'
<1> DEFINE c == SubSeq(chain, 1, i)
<1>1. /\ UNCHANGED <<limits, done, created, finGCTick, suspended, spawned, executed, offset, exceeded, missed>>
      /\ chain' = c /\ lost' = LostWith(c)
    BY DEF GoPanic
<1>2. /\ Linked(chain) /\ suspended \subseteq created
      /\ lost \in Nat /\ missed \in BOOLEAN
    BY <1>1, Frame
<1>3. Linked(c) /\ Len(c) = i /\ \A j \in 1 .. i : c[j] = chain[j]
    BY <1>2, LinkedPrefix
<1> HIDE DEF c
<1>4. /\ chain \in Seq(Activation) /\ c \in Seq(Activation)
      /\ Len(c) <= Len(chain)
    BY <1>2, <1>3, LenProperties DEF Linked
<1>5. Held(c) <= Held(chain) /\ Held(c) \in Nat /\ Held(chain) \in Nat
    BY <1>3, <1>4, HeldCut, HeldType
<1>6. lost' \in Nat /\ (Limited => Held(c) + lost' = Held(chain) + lost)
    BY <1>1, <1>2, <1>5 DEF LostWith, Limited
<1> QED
    BY <1>1, <1>2, <1>3, <1>6, Frame, MoveBudget

\* A gate that counts nothing: its thread has no budget, or its context is done.
LEMMA UncountedBudget ==
    ASSUME BudgetInv, NEW t \in Threads, GateCancelled(t) \/ GateFree(t)
    PROVE  BudgetInv'
<1>1. /\ UNCHANGED <<limits, done, created, finGCTick, suspended, spawned, executed, offset, exceeded>>
      /\ AtGate(t) /\ (chain' = Goto("code") \/ chain' = Front(chain))
    BY DEF GateCancelled, GateFree, Throw
<1>2. /\ Linked(chain) /\ suspended \subseteq created
      /\ lost \in Nat /\ missed \in BOOLEAN
    BY <1>1, Frame
<1>3. missed' \in BOOLEAN
    BY <1>2 DEF GateCancelled, GateFree, Passes
<1>4. Linked(chain') /\ Held(chain) = IF t \in spawned THEN Held(chain') + 1 ELSE Held(chain')
    BY <1>1, <1>2, LeaveGate
<1>5. Held(chain') \in Nat
    BY <1>4, HeldType DEF Linked
<1>6. lost' \in Nat /\ (Limited => Held(chain') + lost' = Held(chain) + lost)
    <2>1. CASE GateCancelled(t)
        <3>1. lost' = IF Limited /\ t \in spawned THEN lost + 1 ELSE lost
            BY <2>1 DEF GateCancelled, Counted, Limited
        <3> QED
            BY <1>2, <1>4, <1>5, <3>1
    <2>2. CASE GateFree(t)
        <3>1. lost' = lost /\ (Limited => t \notin spawned)
            BY <2>2 DEF GateFree, BudgetInv, SharedBudget, Limited
        <3> QED
            BY <1>2, <1>4, <1>5, <3>1
    <2> QED
        BY <2>1, <2>2
<1> QED
    BY <1>1, <1>2, <1>3, <1>4, <1>6, Frame, MoveBudget

\* A thread's budget is one of those allocated.
LEMMA BudgetExists ==
    ASSUME BudgetType, NEW t \in Threads, budget[t] # 0
    PROVE  /\ budget[t] \in DOMAIN budgets
           /\ budgets[budget[t]] \in [limit : Limits, count : Nat]
<1>1. budgets \in Seq([limit : Limits, count : Nat]) /\ budget[t] \in 0 .. Len(budgets)
    BY DEF BudgetType, TypeOK
<1>2. Len(budgets) \in Nat /\ DOMAIN budgets = 1 .. Len(budgets)
    BY <1>1, LenProperties
<1>3. budget[t] \in 1 .. Len(budgets)
    BY <1>1, <1>2
<1> QED
    BY <1>1, <1>2, <1>3, ElementOfSeq

\* The State's budget, when there is one.
LEMMA PresentType ==
    ASSUME BudgetType, Limited
    PROVE  Present.limit \in Int /\ Present.count \in Int
<1>1. Main \in Threads /\ budget[Main] # 0
    BY DEF Threads, Limited
<1>2. Present \in [limit : Limits, count : Nat]
    BY <1>1, BudgetExists DEF Present
<1>3. Present.limit \in Limits /\ Present.count \in Nat
    BY <1>2
<1> QED
    BY <1>3, LimitType

\* A new budget, or none: the account is opened again with the ticks that Main
\* has already made.
LEMMA SetLimitBudget ==
    ASSUME BudgetInv, (\E n \in Limits : SetInstructionLimit(n)) \/ ClearInstructionLimit
    PROVE  BudgetInv'
<1> USE ThreadAssumption
<1>1. /\ spawned' = {Main} /\ executed' = 0 /\ lost' = 0 /\ exceeded' = FALSE
      /\ offset' = finGCTick[Main] /\ chain = <<>>
      /\ UNCHANGED <<ctx, heirs, done, created, finGCTick, chain, suspended, missed>>
    BY DEF SetInstructionLimit, ClearInstructionLimit, Restart, Idle
<1>2. /\ Main \in Threads /\ Main \in Known /\ finGCTick[Main] \in 0 .. Slack
      /\ IsFiniteSet({Main}) /\ Known' = Known
    <2>1. Main \in Threads /\ Main \in Known /\ Known' = Known
        BY <1>1 DEF Threads, Known
    <2>2. finGCTick[Main] \in 0 .. Slack
        BY <2>1 DEF BudgetInv, BudgetType, TypeOK, Slack
    <2> QED
        BY <2>1, <2>2, FS_Singleton
<1>3. PICK u : AddsUp(u, {Main}, finGCTick) /\ u[{Main}] = finGCTick[Main]
    BY <1>2, OneAddsUp
<1>4. /\ spawned' \subseteq Threads /\ spawned' \subseteq Known'
      /\ Main \in spawned' /\ IsFiniteSet(spawned')
      /\ executed' \in 0 .. MaxExecuted /\ offset' \in Nat /\ lost' \in Nat
      /\ {exceeded', missed'} \subseteq BOOLEAN
    <2>1. {exceeded', missed'} \subseteq BOOLEAN
        BY <1>1, Zenon DEF BudgetInv, BudgetType, TypeOK
    <2> QED
        BY <1>1, <1>2, <2>1, LimitAssumption, SlackType
<1>5. Linked(chain)' /\ chain' \in Seq(Activation)
    BY <1>1, <1>2 DEF Linked, BudgetInv, BudgetType
\* No gate polls while the host sets a limit.
<1>6. Quanta' = 0 /\ finGCPoll * Quanta' = 0
    <2>1. DOMAIN chain' = {}
        BY <1>1, <1>5, EmptySeq
    <2>2. Held(chain)' = 0
        <3>1. {i \in DOMAIN chain' : chain'[i].pc = "gate" /\ chain'[i].thread \in spawned'} = {}
            BY <2>1
        <3> QED
            BY <3>1, FS_EmptySet DEF Held
    <2>3. Quanta' = 0
        BY <1>1, <2>2 DEF Quanta
    <2>4. finGCPoll * 0 = 0
        BY SlackType
    <2> QED
        BY <2>3, <2>4, Zenon
<1>7. ASSUME NEW n \in Limits, SetInstructionLimit(n)
      PROVE  BudgetInv'
    <2> DEFINE b == [limit |-> n, count |-> 0]
               L == Len(budgets)
    <2>1. /\ budgets \in Seq([limit : Limits, count : Nat])
          /\ b \in [limit : Limits, count : Nat] /\ b.count = 0 /\ b.limit = n /\ n > 0 /\ n \in Nat
          /\ budgets' = Append(budgets, b)
          /\ budget' = [budget EXCEPT ![Main] = L + 1]
          /\ budget \in [Threads -> 0 .. L]
        BY <1>7, LimitAssumption DEF SetInstructionLimit, BudgetInv, BudgetType, TypeOK
    <2> HIDE DEF b
    <2>2. /\ budgets' \in Seq([limit : Limits, count : Nat])
          /\ Len(budgets') = L + 1 /\ L \in Nat /\ budgets'[L + 1] = b
        BY <2>1, AppendProperties, LenProperties
    <2> HIDE DEF L
    <2>3. /\ budget'[Main] = L + 1 /\ \A t \in Threads : t # Main => budget'[t] = budget[t] /\ budget[t] <= L
          /\ budget' \in [Threads -> 0 .. L + 1]
        BY <1>2, <2>1, <2>2
    <2>4. Present' = b /\ Limited'
        BY <2>2, <2>3 DEF Present, Limited
    <2>5. BudgetType'
        BY <1>1, <1>2, <1>4, <1>5, <2>2, <2>3 DEF BudgetType, TypeOK, BudgetInv
    <2>6. SharedBudget'
        BY <1>1, <2>2, <2>3 DEF SharedBudget
    <2>7. Account'
        <3>1. u[spawned'] = finGCTick[Main] /\ AddsUp(u, spawned', finGCTick')
            BY <1>1, <1>3, Zenon
        <3>2. /\ executed' = 0 /\ Present'.count = 0
              /\ u[spawned'] = offset' /\ offset' \in Int
            BY <1>1, <1>2, <2>1, <2>4, <3>1, SlackType
        <3>3. Balanced(u)'
            BY <1>6, <3>2 DEF Balanced
        <3> QED
            BY <3>1, <3>3 DEF Account
    <2>8. NotSpent'
        BY <2>1, <2>4 DEF NotSpent
    <2> QED
        BY <2>5, <2>6, <2>7, <2>8 DEF BudgetInv
<1>8. CASE ClearInstructionLimit
    <2>1. budget' = [budget EXCEPT ![Main] = 0] /\ budgets' = budgets
        BY <1>8 DEF ClearInstructionLimit
    <2>2. Len(budgets) \in Nat /\ budget \in [Threads -> 0 .. Len(budgets)]
        BY LenProperties DEF BudgetInv, BudgetType, TypeOK
    <2>3. budget'[Main] = 0 /\ ~Limited' /\ budget' \in [Threads -> 0 .. Len(budgets)]
          /\ \A t \in Threads : t # Main => budget'[t] = budget[t]
        BY <1>2, <2>1, <2>2 DEF Limited
    <2>4. BudgetType'
        BY <1>1, <1>2, <1>4, <1>5, <2>1, <2>3 DEF BudgetType, TypeOK, BudgetInv
    <2>5. SharedBudget' /\ Account' /\ NotSpent'
        BY <1>1, <1>3, <2>3 DEF SharedBudget, Account, Balanced, NotSpent
    <2> QED
        BY <2>4, <2>5 DEF BudgetInv
<1> QED
    BY <1>7, <1>8

\* The innermost running thread exists.
LEMMA RunnerExists ==
    ASSUME BudgetType, NEW t, Runs(t)
    PROVE  /\ t \in Known /\ ~Idle /\ Last(chain).pc = "code" /\ Last(chain).thread = t
           /\ Linked(chain) /\ chain \in Seq(Activation)
<1>1. ~Idle /\ Last(chain).pc = "code" /\ Last(chain).thread = t
    BY DEF Runs, Coded
<1> QED
    BY <1>1, LinkedFront DEF BudgetType, Linked

\* A coroutine joins the budget of its creator with nothing uncounted; no gate is its.
LEMMA SpawnBudget ==
    ASSUME BudgetInv, NEW t \in Threads, NEW co \in Coroutines, Spawn(t, co)
    PROVE  BudgetInv'
<1> USE ThreadAssumption
<1>1. /\ t \in Known /\ co \notin created /\ created' = created \cup {co}
      /\ budget' = [budget EXCEPT ![co] = budget[t]]
      /\ ctx' = [ctx EXCEPT ![co] = ctx[t]]
      /\ suspended' = suspended \cup {co}
      /\ heirs' = IF t \in heirs THEN heirs \cup {co} ELSE heirs
      /\ spawned' = IF t \in spawned THEN spawned \cup {co} ELSE spawned
      /\ UNCHANGED <<budgets, done, finGCTick, chain, executed, offset, lost, exceeded, missed>>
    BY RunnerExists DEF Spawn, InheritedBudget, InheritedContext, BudgetInv
<1>2. /\ co \in Threads \ Known /\ co # Main /\ co \notin spawned /\ finGCTick[co] = 0
      /\ Known' = Known \cup {co} /\ Main \in spawned /\ Main \in Threads
    BY <1>1 DEF Known, Threads, BudgetInv, BudgetType
<1>3. /\ budget'[co] = budget[t] /\ \A x \in Threads : x # co => budget'[x] = budget[x]
      /\ budget' \in [Threads -> 0 .. Len(budgets)]
    BY <1>1, <1>2 DEF BudgetInv, BudgetType, TypeOK
<1>4. IsFiniteSet(spawned')
    BY <1>1, FS_AddElement DEF BudgetInv, BudgetType
<1>5. Linked(chain)'
    BY <1>1, <1>2 DEF Linked, BudgetInv, BudgetType
<1>6. Quanta' = Quanta
    <2>1. \A i \in DOMAIN chain : chain[i].thread # co
        BY <1>2, HeldType DEF Linked, BudgetInv, BudgetType
    <2>2. \A i \in DOMAIN chain : chain[i].thread \in spawned' <=> chain[i].thread \in spawned
        BY <1>1, <2>1
    <2>3. Held(chain)' = Held(chain)
        BY <1>1, <2>2, Zenon DEF Held
    <2> QED
        BY <1>1, <2>3 DEF Quanta
<1>7. TypeOK'
    BY <1>1, <1>2, <1>3 DEF BudgetInv, BudgetType, TypeOK
<1>8. BudgetType'
    BY <1>1, <1>2, <1>3, <1>4, <1>5, <1>7 DEF BudgetInv, BudgetType
<1>9. SharedBudget' /\ (Limited' <=> Limited) /\ (Limited => Present' = Present)
    BY <1>1, <1>2, <1>3 DEF BudgetInv, SharedBudget, Limited, Present
<1>10. Account'
    <2>1. PICK u : AddsUp(u, spawned, finGCTick) /\ Balanced(u)
        BY DEF BudgetInv, Account
    <2>2. CASE t \in spawned
        <3>1. PICK v : AddsUp(v, spawned \cup {co}, finGCTick) /\ v[spawned \cup {co}] = u[spawned]
            BY <1>2, <2>1, MoreAddsUp DEF BudgetInv, BudgetType
        <3>2. AddsUp(v, spawned', finGCTick') /\ v[spawned'] = u[spawned]
            BY <1>1, <2>2, <3>1
        <3> QED
            BY <1>1, <1>6, <1>9, <2>1, <3>2 DEF Account, Balanced
    <2>3. CASE t \notin spawned
        BY <1>1, <1>6, <1>9, <2>1, <2>3 DEF Account, Balanced
    <2> QED
        BY <2>2, <2>3
<1>11. NotSpent'
    BY <1>1, <1>9 DEF BudgetInv, NotSpent
<1> QED
    BY <1>8, <1>9, <1>10, <1>11 DEF BudgetInv
-----------------------------------------------------------------------------
(* The instructions, and the gate that counts. *)

\* An instruction of t: its tick becomes k, and a tick that is taken to the gate is
\* held there.
LEMMA ExecuteBudget ==
    ASSUME BudgetInv, NEW t \in Threads, Execute(t) \/ ReachGate(t)
    PROVE  BudgetInv'
<1>1. /\ MayExecute(t) /\ Tally(t) /\ Runs(t)
      /\ UNCHANGED <<limits, done, created, suspended, spawned, offset, lost, exceeded, missed>>
    BY DEF Execute, ReachGate, MayExecute
<1>2. /\ Linked(chain) /\ chain \in Seq(Activation) /\ t \in Known /\ ~Idle /\ Known' = Known
      /\ Last(chain).pc = "code" /\ Last(chain).thread = t
    BY <1>1, RunnerExists DEF BudgetInv, Known
<1>3. finGCTick[t] \in 0 .. Slack /\ Held(chain) \in Nat /\ lost \in Nat
    BY QuantaType DEF BudgetInv, BudgetType, TypeOK, Slack
<1>4. PICK k \in 0 .. Slack :
         /\ finGCTick' = [finGCTick EXCEPT ![t] = k]
         /\ Linked(chain') /\ Held(chain') \in Nat
         /\ \/ k = finGCTick[t] + 1 /\ Held(chain') = Held(chain)
            \/ /\ k + finGCPoll = finGCTick[t] + 1
               /\ Held(chain') = IF t \in spawned THEN Held(chain) + 1 ELSE Held(chain)
    <2>1. CASE Execute(t)
        <3>1. /\ finGCTick' = [finGCTick EXCEPT ![t] = finGCTick[t] + 1] /\ chain' = chain
              /\ finGCTick[t] + 1 < finGCPoll
            BY <2>1 DEF Execute
        <3>2. finGCTick[t] + 1 \in 0 .. Slack
            BY <1>3, <3>1, SlackType
        <3> QED
            BY <1>2, <1>3, <3>1, <3>2
    <2>2. CASE ReachGate(t)
        <3>1. /\ finGCTick' = [finGCTick EXCEPT ![t] = 0] /\ chain' = Goto("gate")
              /\ finGCTick[t] + 1 >= finGCPoll
            BY <2>2 DEF ReachGate
        <3>2. 0 \in 0 .. Slack /\ 0 + finGCPoll = finGCTick[t] + 1
            BY <1>3, <3>1, SlackType
        <3> DEFINE n == Len(chain) - 1
                   c == Goto("gate")
        <3>3. /\ n \in Nat /\ Len(chain) = n + 1 /\ chain[n + 1].pc = "code"
              /\ Linked(c) /\ Len(c) = n + 1 /\ \A i \in 1 .. n : chain[i] = c[i]
              /\ c[n + 1].pc = "gate" /\ c[n + 1].thread = t
            <4>1. /\ Len(chain) \in Nat \ {0} /\ chain[Len(chain)].pc = "code"
                BY <1>2, LinkedFront
            <4>2. /\ Linked(c) /\ Len(c) = Len(chain)
                  /\ \A i \in 1 .. Len(chain) - 1 : c[i] = chain[i]
                  /\ c[Len(chain)].pc = "gate" /\ c[Len(chain)].thread = t
                BY <1>2, LinkedGoto
            <4> HIDE DEF c
            <4> QED
                BY ONLY <4>1, <4>2
        <3>4. c \in Seq(Activation)
            BY <3>3 DEF Linked
        <3> HIDE DEF n, c
        <3>5. Held(c) = IF t \in spawned THEN Held(chain) + 1 ELSE Held(chain)
            BY ONLY <1>2, <3>3, <3>4, HeldGate
        <3>6. chain' = c
            BY <3>1 DEF c
        <3>7. Held(c) \in Nat
            BY <3>4, HeldType
        <3>8. /\ Linked(chain') /\ Held(chain') \in Nat
              /\ Held(chain') = IF t \in spawned THEN Held(chain) + 1 ELSE Held(chain)
            BY <3>3, <3>5, <3>6, <3>7, Zenon
        <3> QED
            BY ONLY <3>1, <3>2, <3>8
    <2> QED
        BY <2>1, <2>2
<1>5. BudgetType'
    <2>1. executed' \in 0 .. MaxExecuted
        BY <1>1, LimitAssumption, SMTT(30) DEF Tally, MayExecute, BudgetInv, BudgetType, TypeOK
    <2>2. /\ finGCTick' \in [Threads -> 0 .. finGCPoll - 1]
          /\ \A x \in Threads \ Known : finGCTick'[x] = 0
        BY <1>2, <1>4 DEF BudgetInv, BudgetType, TypeOK, Slack
    <2>3. Linked(chain)' /\ chain' \in Seq(Activation)
        BY <1>1, <1>2, <1>4 DEF Linked
    <2>4. TypeOK'
        BY <1>1, <2>1, <2>2, <2>3 DEF BudgetInv, BudgetType, TypeOK, limits
    <2> QED
        BY <1>1, <1>2, <2>2, <2>3, <2>4 DEF BudgetInv, BudgetType, limits
<1>6. SharedBudget' /\ NotSpent'
    BY <1>1 DEF BudgetInv, SharedBudget, NotSpent, Limited, Present, limits
<1>7. Account'
    <2>1. PICK u : AddsUp(u, spawned, finGCTick) /\ Balanced(u)
        BY DEF BudgetInv, Account
    <2>2. PICK v : /\ AddsUp(v, spawned, finGCTick')
                   /\ v[spawned] = IF t \in spawned THEN u[spawned] + k - finGCTick[t]
                                                    ELSE u[spawned]
        BY <1>4, <2>1, TickAddsUp, Zenon DEF BudgetInv
    <2>3. /\ Limited' <=> Limited
          /\ Present'.count = Present.count /\ spawned' = spawned /\ offset' = offset
          /\ executed' = IF Limited /\ t \in spawned THEN executed + 1 ELSE executed
        BY <1>1 DEF Limited, Present, Tally, Counted, limits
    <2>4. u[spawned] \in Int /\ finGCTick[t] \in Int /\ k \in Int /\ executed \in Int /\ offset \in Int
        BY <1>3, <1>4, <2>1, SlackType DEF AddsUp, BudgetInv, BudgetType, TypeOK
    <2>5. Limited => Present.count \in Int
        BY PresentType DEF BudgetInv
    <2> DEFINE q == finGCPoll * Quanta
               r == finGCPoll * Quanta'
               p == Present.count
    <2>6. /\ q \in Int /\ r \in Int
          /\ t \in spawned => k + r = finGCTick[t] + 1 + q
          /\ t \notin spawned => r = q
        <3>1. Quanta \in Nat /\ Quanta' = Held(chain') + lost
            BY <1>1, QuantaType DEF BudgetInv, Quanta, Held
        <3>2. /\ finGCPoll * (Quanta + 1) = finGCPoll * Quanta + finGCPoll
              /\ finGCPoll * Quanta \in Nat
            BY <3>1, QuantaTimes
        <3>3. \/ Quanta' = Quanta /\ (t \in spawned => k = finGCTick[t] + 1)
              \/ Quanta' = Quanta + 1 /\ t \in spawned /\ k + finGCPoll = finGCTick[t] + 1
            BY <1>3, <1>4, <3>1 DEF Quanta
        <3>4. CASE Quanta' = Quanta /\ (t \in spawned => k = finGCTick[t] + 1)
            BY <2>4, <3>2, <3>4
        <3>5. CASE Quanta' = Quanta + 1 /\ t \in spawned /\ k + finGCPoll = finGCTick[t] + 1
            <4>1. r = q + finGCPoll
                BY <3>2, <3>5, Zenon
            <4>2. q \in Nat
                BY <3>2
            <4> HIDE DEF q, r
            <4> QED
                BY ONLY <2>4, <3>5, <4>1, <4>2, SlackType
        <3> QED
            BY <3>3, <3>4, <3>5
    <2>7. Limited => p + u[spawned] + q = executed + offset
        BY <2>1 DEF Balanced
    <2> HIDE DEF p, q, r
    <2>8. Limited => p + v[spawned] + r = executed' + offset
        <3>1. Limited => p \in Int
            BY <2>5 DEF p
        <3>2. CASE t \in spawned
            BY ONLY <2>2, <2>3, <2>4, <2>6, <2>7, <3>1, <3>2
        <3>3. CASE t \notin spawned
            BY ONLY <2>2, <2>3, <2>4, <2>6, <2>7, <3>1, <3>3
        <3> QED
            BY <3>2, <3>3
    <2>9. Balanced(v)'
        BY <2>3, <2>8 DEF Balanced, p, r
    <2> QED
        BY <1>1, <2>2, <2>9 DEF Account
<1> QED
    BY <1>5, <1>6, <1>7 DEF BudgetInv

\* The thread pays for the interval into its own budget, which is the State's
\* exactly if it was created under it, and its gate holds the quantum no more.
LEMMA GateBudgetInv ==
    ASSUME BudgetInv, NEW t \in Threads, GateBudget(t)
    PROVE  BudgetInv'
<1> DEFINE b == budget[t]
           n == budgets[b].count + finGCPoll
<1>1. /\ AtGate(t)
      /\ budgets' = [budgets EXCEPT ![b].count = n]
      /\ exceeded' = (exceeded \/ (Counted(t) /\ n >= budgets[b].limit))
      /\ missed' = (missed \/ (t \in heirs /\ ctx[Main] \in done))
      /\ UNCHANGED <<budget, ctx, heirs, done, created, finGCTick, suspended, spawned, executed, offset, lost>>
      /\ chain' = Goto("code") \/ chain' = Front(chain)
      /\ b # 0
    BY DEF GateBudget, Throw, Advanced, Spent, Passes
<1>2. {exceeded', missed'} \subseteq BOOLEAN
    BY <1>1, Booleans DEF BudgetInv
<1>3. /\ Main \in Threads /\ Linked(chain)
      /\ budgets \in Seq([limit : Limits, count : Nat])
    BY DEF BudgetInv, BudgetType, TypeOK, Threads
<1>4. b \in DOMAIN budgets /\ budgets[b] \in [limit : Limits, count : Nat] /\ n \in Nat
    BY <1>1, BudgetExists, SlackType DEF BudgetInv
<1> HIDE DEF b, n
<1>5. /\ budgets' \in Seq([limit : Limits, count : Nat]) /\ Len(budgets') = Len(budgets)
      /\ budgets'[b].count = n /\ budgets'[b].limit = budgets[b].limit
      /\ \A i \in DOMAIN budgets : i # b => budgets'[i] = budgets[i]
    <2> DEFINE r == [budgets[b] EXCEPT !.count = n]
    <2>1. r \in [limit : Limits, count : Nat] /\ r.count = n /\ r.limit = budgets[b].limit
        BY <1>4
    <2>2. budgets' = [budgets EXCEPT ![b] = r]
        BY <1>1
    <2> HIDE DEF r
    <2>3. budgets' \in Seq([limit : Limits, count : Nat]) /\ Len(budgets') = Len(budgets)
        BY <1>3, <1>4, <2>1, <2>2, ExceptSeq
    <2> QED
        BY <1>3, <1>4, <2>1, <2>2, <2>3, LenProperties
<1>6. /\ Linked(chain') /\ Held(chain) = IF t \in spawned THEN Held(chain') + 1 ELSE Held(chain')
    BY <1>1, <1>3, LeaveGate
<1>7. BudgetType'
    <2>1. Linked(chain)' /\ chain' \in Seq(Activation) /\ Known' = Known
        BY <1>1, <1>6 DEF Linked, Known
    <2>2. TypeOK'
        BY <1>1, <1>2, <1>5, <2>1 DEF BudgetInv, BudgetType, TypeOK
    <2> QED
        BY <1>1, <2>1, <2>2 DEF BudgetInv, BudgetType
<1>8. SharedBudget'
    BY <1>1 DEF BudgetInv, SharedBudget, Limited
<1>9. /\ Limited' <=> Limited
      /\ Limited /\ t \in spawned => Present = budgets[b] /\ Present' = budgets'[b]
      /\ Limited /\ t \notin spawned => Present' = Present
    <2>1. Limited => budget[Main] \in DOMAIN budgets
        BY <1>3, BudgetExists DEF Limited, BudgetInv
    <2>2. (t \in spawned => b = budget[Main]) /\ (Limited /\ t \notin spawned => b # budget[Main])
        BY DEF BudgetInv, SharedBudget, b
    <2> QED
        BY <1>1, <1>5, <2>1, <2>2 DEF Limited, Present
<1>10. NotSpent'
    <2>1. Counted(t) <=> Limited /\ t \in spawned
        BY DEF Counted, Limited
    <2>2. Limited => Present.limit \in Int /\ Present.count \in Int
        BY PresentType DEF BudgetInv
    <2>3. CASE Limited /\ t \in spawned
        <3>1. Present'.count = n /\ Present'.limit = budgets[b].limit
            BY <1>5, <1>9, <2>3
        <3>2. n \in Int /\ budgets[b].limit \in Int
            BY <1>4, LimitType
        <3>3. ~exceeded' => ~(n >= budgets[b].limit)
            BY <1>1, <2>1, <2>3
        <3>4. ~exceeded' => n < budgets[b].limit
            BY <3>2, <3>3
        <3> QED
            BY <3>1, <3>4 DEF NotSpent
    <2>4. CASE Limited /\ t \notin spawned
        <3>1. Present' = Present /\ (exceeded => exceeded')
            BY <1>1, <1>9, <2>4
        <3> QED
            BY <1>9, <2>4, <3>1 DEF BudgetInv, NotSpent
    <2>5. CASE ~Limited
        BY <1>9, <2>5 DEF NotSpent
    <2> QED
        BY <2>3, <2>4, <2>5
<1>11. Account'
    <2>1. PICK u : AddsUp(u, spawned, finGCTick) /\ Balanced(u)
        BY DEF BudgetInv, Account
    <2> DEFINE q == finGCPoll * Quanta
               r == finGCPoll * Quanta'
               p == Present.count
               m == Present'.count
    <2>2. /\ Limited => p \in Int
          /\ Limited /\ t \in spawned => m = p + finGCPoll
          /\ Limited /\ t \notin spawned => m = p
        BY <1>5, <1>9, PresentType DEF n, BudgetInv
    <2>3. /\ q \in Int /\ r \in Int
          /\ t \in spawned => q = r + finGCPoll
          /\ t \notin spawned => q = r
        <3>1. Quanta' = Held(chain') + lost /\ Held(chain') \in Nat /\ lost \in Nat
            BY <1>1, <1>6, HeldType, QuantaType DEF BudgetInv, Quanta, Held, Linked
        <3>2. /\ t \in spawned => Quanta = Quanta' + 1
              /\ t \notin spawned => Quanta = Quanta'
              /\ Quanta' \in Nat
            BY <1>6, <3>1 DEF Quanta
        <3>3. /\ finGCPoll * (Quanta' + 1) = finGCPoll * Quanta' + finGCPoll
              /\ finGCPoll * Quanta' \in Nat
            BY <3>2, QuantaTimes
        <3>4. r \in Int /\ r + finGCPoll \in Int
            BY <3>3, SlackType
        <3>5. (t \in spawned => q = r + finGCPoll) /\ (t \notin spawned => q = r)
            BY <3>2, <3>3, Zenon
        <3> HIDE DEF q, r
        <3> QED
            BY <3>4, <3>5
    <2>4. Limited => p + u[spawned] + q = executed + offset
        BY <2>1 DEF Balanced
    <2>5. u[spawned] \in Int /\ finGCPoll \in Int
        BY <2>1, SlackType DEF AddsUp
    <2> HIDE DEF p, q, r, m
    <2>6. Limited => m + u[spawned] + r = executed + offset
        BY ONLY <2>2, <2>3, <2>4, <2>5
    <2>7. Balanced(u)'
        BY <1>1, <1>9, <2>6 DEF Balanced, m, r
    <2> QED
        BY <1>1, <2>1, <2>7 DEF Account
<1> QED
    BY <1>7, <1>8, <1>10, <1>11 DEF BudgetInv

LEMMA BudgetStep ==
    ASSUME BudgetInv, [Next]_vars
    PROVE  BudgetInv'
<1>1. CASE UNCHANGED vars
    <2>1. UNCHANGED <<limits, done, created>>
        BY <1>1 DEF vars
    <2>2. /\ Linked(chain') /\ Held(chain') = Held(chain)
        BY <1>1, <2>1, Frame DEF vars
    <2> QED
        BY <1>1, <2>1, <2>2, Frame, MoveBudget DEF vars, account
<1> QED
    BY <1>1, HostBudget, SwitchBudget, PanicBudget, SetLimitBudget, SpawnBudget, ExecuteBudget,
       UncountedBudget, GateBudgetInv DEF Next, ThreadStep

LEMMA BudgetInit == Init => BudgetInv
<1> SUFFICES ASSUME Init PROVE BudgetInv
    OBVIOUS
<1>1. /\ Main \in Threads /\ finGCTick[Main] = 0 /\ spawned = {Main} /\ ~Limited
      /\ IsFiniteSet({Main})
    BY FS_Singleton DEF Init, Threads, Limited
<1>2. /\ Linked(chain) /\ chain \in Seq(Activation) /\ Len(chain) = 0
      /\ budgets \in Seq([limit : Limits, count : Nat]) /\ Len(budgets) = 0
    BY EmptySeq DEF Init, Linked
<1>3. /\ budget \in [Threads -> 0 .. 0] /\ finGCTick \in [Threads -> 0 .. finGCPoll - 1]
      /\ ctx \in [Threads -> Contexts \cup {NoContext}]
      /\ \A t \in Threads : finGCTick[t] = 0 /\ budget[t] = 0
    BY SlackType DEF Init, Slack
<1>4. /\ done \subseteq Contexts /\ suspended \subseteq created /\ created \subseteq Coroutines
      /\ heirs \subseteq Threads /\ spawned \subseteq Threads /\ spawned \subseteq Known
      /\ executed \in 0 .. MaxExecuted /\ offset \in Nat /\ lost \in Nat
    BY <1>1, LimitAssumption DEF Init, Known
<1>5. {exceeded, missed} \subseteq BOOLEAN
    BY Zenon DEF Init
<1>6. BudgetType
    BY <1>1, <1>2, <1>3, <1>4, <1>5 DEF BudgetType, TypeOK
<1>7. SharedBudget /\ NotSpent
    BY <1>1 DEF SharedBudget, NotSpent
<1>8. Account
    <2>1. finGCTick[Main] \in 0 .. Slack
        BY <1>1, SlackType
    <2>2. PICK u : AddsUp(u, {Main}, finGCTick)
        BY <2>1, OneAddsUp
    <2> QED
        BY <1>1, <2>2 DEF Account, Balanced
<1> QED
    BY <1>6, <1>7, <1>8 DEF BudgetInv

\* The shapes of LState's limits and of the account kept of them.
THEOREM TypeCorrect == Spec => []TypeOK
<1>1. BudgetInv => TypeOK
    BY DEF BudgetInv, BudgetType
<1> QED
    BY <1>1, BudgetInit, BudgetStep, PTL DEF Spec

\* SetInstructionLimit (lapi_sandbox.go:46-70) for any number of coroutines,
\* nested and switched in any way, with __gc functions that nest and panics that
\* unwind them: until the limit error is raised, what the State executes stays
\* below the limit, one poll interval per thread, and one for each gate that polls
\* finalizers or lost its quantum.
THEOREM BudgetCaps == Spec => []CapWithSlack
<1>1. ASSUME BudgetInv
      PROVE  CapWithSlack
    <2> SUFFICES ASSUME Limited, ~exceeded
                 PROVE  executed < Present.limit + (finGCPoll - 1) * Cardinality(spawned)
                                                 + finGCPoll * (Held(chain) + lost)
        BY DEF CapWithSlack
    <2>1. PICK u : AddsUp(u, spawned, finGCTick) /\ Balanced(u)
        BY <1>1 DEF BudgetInv, Account
    <2>2. u[spawned] <= Slack * Cardinality(spawned) /\ u[spawned] \in Int
        <3>1. spawned \in SUBSET spawned
            OBVIOUS
        <3> QED
            BY <2>1, <3>1, Zenon DEF AddsUp
    <2> DEFINE s == Slack * Cardinality(spawned)
               q == finGCPoll * Quanta
               p == Present.count
               l == Present.limit
    <2>3. s \in Nat
        BY <1>1, FS_CardinalityType, SlackTimes DEF BudgetInv, BudgetType
    <2>4. q \in Nat
        BY <1>1, QuantaType, QuantaTimes DEF BudgetInv
    <2>5. p + u[spawned] + q = executed + offset
        BY <2>1 DEF Balanced
    <2>6. p \in Int /\ l \in Int /\ p < l
        BY <1>1, PresentType DEF BudgetInv, NotSpent
    <2>7. executed \in Int /\ offset \in Nat
        BY <1>1 DEF BudgetInv, BudgetType, TypeOK
    <2>8. u[spawned] <= s
        BY <2>2
    <2> HIDE DEF s, q, p, l
    <2>9. executed < l + s + q
        BY <2>2, <2>3, <2>4, <2>5, <2>6, <2>7, <2>8
    <2> QED
        BY <2>9, Zenon DEF s, q, l, Slack, Quanta
<1> QED
    BY <1>1, BudgetInit, BudgetStep, PTL DEF Spec
-----------------------------------------------------------------------------
(***************************************************************************)
(* Ticks, the sum itself.                                                  *)
(***************************************************************************)
\* A set of subsets of a finite set has a member all of whose elements are needed.
LEMMA MinimalSubset ==
    ASSUME NEW S, IsFiniteSet(S), NEW Bad, Bad \subseteq SUBSET S, Bad # {}
    PROVE  \E A \in Bad : \A t \in A : A \ {t} \notin Bad
<1>1. IsWellFoundedOn(StrictSubsetOrdering(S), SUBSET S)
    BY FS_StrictSubsetOrderingWellFounded, FS_FiniteSubsetsOfFinite
<1>2. PICK A \in Bad : \A B \in Bad : <<B, A>> \notin StrictSubsetOrdering(S)
    BY <1>1, WFMin
<1>3. ASSUME NEW t \in A, A \ {t} \in Bad
      PROVE  FALSE
    <2>1. <<A \ {t}, A>> \in StrictSubsetOrdering(S)
        BY DEF StrictSubsetOrdering
    <2> QED
        BY <1>2, <1>3, <2>1
<1> QED
    BY <1>2, <1>3

\* The definition of Ticks as the prover sees it: a function equal to its own
\* right-hand side, which takes one element after the other out of the set.
Taken(A) == CHOOSE t \in A : TRUE
AddOne(sum, threads, ticks) ==
    [A \in SUBSET threads |-> IF A = {} THEN 0 ELSE ticks[Taken(A)] + sum[A \ {Taken(A)}]]

LEMMA TicksIsFold ==
    Ticks = (CHOOSE sum : sum = AddOne(sum, spawned, finGCTick))[spawned]
BY Zenon DEF Ticks, MapThenSumSet, MapThenFoldSet, AddOne, Taken

\* Whatever adds up like a sum is the sum.
LEMMA SumIsUnique ==
    ASSUME NEW S, IsFiniteSet(S), NEW ticks, \A t \in S : ticks[t] \in Int,
           NEW u, AddsUp(u, S, ticks)
    PROVE  (CHOOSE sum : sum = AddOne(sum, S, ticks)) = u
<1>1. u \in [SUBSET S -> Int] /\ u[{}] = 0
    BY DEF AddsUp
<1>2. ASSUME NEW A \in SUBSET S, A # {}
      PROVE  /\ Taken(A) \in A /\ A \ {Taken(A)} \in SUBSET S
             /\ u[A] = ticks[Taken(A)] + u[A \ {Taken(A)}]
    <2>1. Taken(A) \in A
        BY <1>2 DEF Taken
    <2> DEFINE t == Taken(A)
               B == A \ {t}
    <2>2. B \in SUBSET S /\ t \in S \ B /\ B \cup {t} = A
        BY <2>1
    <2>3. u[B \cup {t}] = u[B] + ticks[t]
        BY <2>2, Zenon DEF AddsUp
    <2>4. u[B] \in Int /\ ticks[t] \in Int
        BY <1>1, <2>2
    <2>5. u[A] = u[B] + ticks[t]
        BY <2>2, <2>3, Zenon
    <2> HIDE DEF t, B
    <2>6. u[A] = ticks[t] + u[B]
        BY <2>4, <2>5
    <2> QED
        BY <2>1, <2>2, <2>6 DEF t, B
<1>3. u = AddOne(u, S, ticks)
    <2>1. \A A \in SUBSET S :
              u[A] = IF A = {} THEN 0 ELSE ticks[Taken(A)] + u[A \ {Taken(A)}]
        BY <1>1, <1>2, Zenon
    <2> QED
        BY <1>1, <2>1, Zenon DEF AddOne
<1> DEFINE fold == CHOOSE sum : sum = AddOne(sum, S, ticks)
           Bad == {A \in SUBSET S : fold[A] # u[A]}
<1>4. fold = AddOne(fold, S, ticks)
    BY <1>3, Zenon
<1> HIDE DEF fold
<1>5. ASSUME NEW A \in SUBSET S
      PROVE  fold[A] = IF A = {} THEN 0 ELSE ticks[Taken(A)] + fold[A \ {Taken(A)}]
    BY <1>4, Zenon DEF AddOne
<1>6. Bad = {}
    <2> SUFFICES ASSUME Bad # {} PROVE FALSE
        OBVIOUS
    <2>1. PICK A \in Bad : \A t \in A : A \ {t} \notin Bad
        BY MinimalSubset
    <2>2. A # {}
        BY <1>1, <1>5, Zenon
    <2>3. fold[A \ {Taken(A)}] = u[A \ {Taken(A)}]
        BY <1>2, <2>1, <2>2
    <2> QED
        BY <1>2, <1>5, <2>2, <2>3, Zenon
<1>7. fold \in [SUBSET S -> Int] /\ \A A \in SUBSET S : fold[A] = u[A]
    <2>1. \A A \in SUBSET S : fold[A] = u[A]
        BY <1>6
    <2>2. DOMAIN fold = SUBSET S /\ fold = [A \in DOMAIN fold |-> fold[A]]
        BY <1>4, Zenon DEF AddOne
    <2> QED
        BY <1>1, <2>1, <2>2
<1>8. fold = u
    BY <1>1, <1>7
<1> QED
    BY <1>8 DEF fold

\* The account of a shared budget (lapi_sandbox.go:46-70, lvm_execute.go:30-53) is
\* exact for any number of threads: the count, the ticks that the threads under the
\* budget have not taken to a gate, and a quantum for each gate that still polls
\* finalizers or was unwound, add up to what they executed.
THEOREM BudgetIsExact == Spec => []BudgetAccounts
<1>1. ASSUME BudgetInv
      PROVE  BudgetAccounts
    <2>1. PICK u : AddsUp(u, spawned, finGCTick) /\ Balanced(u)
        BY <1>1 DEF BudgetInv, Account
    <2>2. IsFiniteSet(spawned) /\ \A t \in spawned : finGCTick[t] \in Int
        BY <1>1, SlackType DEF BudgetInv, BudgetType, TypeOK
    <2>3. Ticks = u[spawned]
        BY <2>1, <2>2, TicksIsFold, SumIsUnique, Zenon
    <2> QED
        BY <2>1, <2>3, Zenon DEF BudgetAccounts, Balanced, Quanta
<1> QED
    BY <1>1, BudgetInit, BudgetStep, PTL DEF Spec
=============================================================================
