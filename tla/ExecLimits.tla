----------------------------- MODULE ExecLimits -----------------------------
(***************************************************************************)
(* Execution limits of a State: the instruction budget and the             *)
(* cancellation context (lua/lapi_sandbox.go), enforced at the poll gate   *)
(* of the dispatch loop (lua/lvm_execute.go), which every thread passes    *)
(* once in finGCPoll of its own instructions.                              *)
(*                                                                         *)
(* The gate is not one step.  It first resets the thread's tick and polls  *)
(* the finalizers (lua/lgc.go), which may run any number of __gc functions *)
(* on the same thread: ordinary Lua code, whose instructions are counted,  *)
(* which passes gates of its own, starts coroutines and may fail.  Only    *)
(* then are the context and the budget looked at.  What the poll finds in  *)
(* its queue is the subject of module Finalizers.                          *)
(*                                                                         *)
(* What an instruction does is abstracted; an error raised by the gate is  *)
(* an ordinary Lua error: a pcall of the thread may catch it, or it ends   *)
(* the __gc function, the coroutine or the host's run.                     *)
(***************************************************************************)
EXTENDS Integers, Sequences, FiniteSets, SequencesExt

CONSTANTS
    Coroutines,    \* the threads made by coroutine.create
    Main,          \* the State's main thread
    Contexts,      \* contexts the host may install
    NoContext,     \* a nil context, which is never done
    Limits,        \* instruction limits the host may set
    finGCPoll,     \* instructions of a thread between two gates
    MaxNesting,    \* Go-level calls left: how deep __gc functions may nest
    MaxBudgets,    \* bound: budgets the host allocates
    MaxExecuted    \* bound: instructions executed or counted under one budget

Threads == Coroutines \cup {Main}

ASSUME ThreadAssumption == Main \notin Coroutines /\ NoContext \notin Contexts
ASSUME LimitAssumption ==
    /\ Limits \subseteq Nat \ {0} /\ finGCPoll \in Nat \ {0}
    /\ MaxNesting \in Nat /\ MaxBudgets \in Nat /\ MaxExecuted \in Nat

VARIABLES
    budget,      \* LState.budget: an index into budgets, or 0 for nil
    budgets,     \* the execBudget structures allocated so far
    ctx,         \* LState.ctx
    done,        \* contexts that have been cancelled
    finGCTick,   \* LState.finGCTick
    chain,       \* activations of running threads, the innermost last; empty between runs
    suspended,   \* coroutines that can be resumed
    created,     \* coroutines made so far
    heirs,       \* history: Main and threads created since ctx[Main] was set
    \* history of the State since its present budget was set:
    spawned,     \* threads that run under it: Main and those created since
    executed,    \* their instructions
    offset,      \* finGCTick of Main when it was set
    lost,        \* quanta of finGCPoll instructions that no gate will count
    exceeded,    \* the limit error has been raised
    missed       \* a gate let an heir pass after the State's ctx was done

limits == <<budget, budgets, ctx, heirs>>
account == <<spawned, executed, offset, lost, exceeded>>
vars == <<limits, done, finGCTick, chain, suspended, created, account, missed>>

\* An activation of execute: a thread, and whether it executes code or is at its
\* gate.  Above one that polls there is the __gc function it runs.
Activation == [thread : Threads, pc : {"code", "gate"}]
Coded(t) == [thread |-> t, pc |-> "code"]

Init ==
    /\ budget = [t \in Threads |-> 0]
    /\ budgets = <<>>
    /\ ctx = [t \in Threads |-> NoContext]
    /\ done = {}
    /\ finGCTick = [t \in Threads |-> 0]
    /\ chain = <<>>
    /\ suspended = {} /\ created = {}
    /\ heirs = {Main}
    /\ spawned = {Main}
    /\ executed = 0 /\ offset = 0 /\ lost = 0
    /\ exceeded = FALSE /\ missed = FALSE

-----------------------------------------------------------------------------
(* The host *)

Idle == chain = <<>>

\* The history starts again with the present budget.
Restart ==
    /\ spawned' = {Main} /\ executed' = 0 /\ lost' = 0 /\ exceeded' = FALSE
    /\ offset' = finGCTick[Main]

SetInstructionLimit(n) ==
    /\ Idle
    /\ Len(budgets) < MaxBudgets
    /\ budgets' = Append(budgets, [limit |-> n, count |-> 0])
    /\ budget' = [budget EXCEPT ![Main] = Len(budgets) + 1]
    /\ Restart
    /\ UNCHANGED <<ctx, heirs, done, created, finGCTick, chain, suspended, missed>>

ClearInstructionLimit ==
    /\ Idle
    /\ budget' = [budget EXCEPT ![Main] = 0]
    /\ Restart
    /\ UNCHANGED <<budgets, ctx, heirs, done, created, finGCTick, chain, suspended, missed>>

SetContext(c) ==
    /\ Idle
    /\ ctx' = [ctx EXCEPT ![Main] = c]
    /\ heirs' = {Main}
    /\ UNCHANGED <<budget, budgets, done, created, finGCTick, chain, suspended, account, missed>>

\* The context's deadline passes, or another goroutine cancels it.
Cancel(c) ==
    /\ c \notin done
    /\ done' = done \cup {c}
    /\ UNCHANGED <<limits, created, finGCTick, chain, suspended, account, missed>>

Run ==
    /\ Idle
    /\ chain' = <<Coded(Main)>>
    /\ UNCHANGED <<limits, done, created, finGCTick, suspended, account, missed>>

RunEnds ==
    /\ chain = <<Coded(Main)>>
    /\ chain' = <<>>
    /\ UNCHANGED <<limits, done, created, finGCTick, suspended, account, missed>>

-----------------------------------------------------------------------------
(* Threads *)

Runs(t) == ~Idle /\ Last(chain) = Coded(t)

\* The innermost activation is that of a __gc function; noYield is set.
InGC == Len(chain) > 1 /\ chain[Len(chain) - 1].pc = "gate"
InCoroutine == Len(chain) > 1 /\ ~InGC

\* Mutants: a coroutine starts with no limit or no context of its own.
UnlimitedThread(t) == 0
DetachedThread(t) == NoContext

\* newThread copies the creator's fields: the pointer, not the structure.
InheritedBudget(t) == budget[t]
InheritedContext(t) == ctx[t]

Spawn(t, co) ==
    /\ Runs(t)
    /\ co \notin created
    /\ created' = created \cup {co}
    /\ budget' = [budget EXCEPT ![co] = InheritedBudget(t)]
    /\ ctx' = [ctx EXCEPT ![co] = InheritedContext(t)]
    /\ suspended' = suspended \cup {co}
    /\ heirs' = IF t \in heirs THEN heirs \cup {co} ELSE heirs
    /\ spawned' = IF t \in spawned THEN spawned \cup {co} ELSE spawned
    /\ UNCHANGED <<budgets, done, finGCTick, chain, executed, offset, lost, exceeded, missed>>

Resume(co) ==
    /\ ~Idle /\ Last(chain).pc = "code"
    /\ co \in suspended
    /\ chain' = Append(chain, Coded(co))
    /\ suspended' = suspended \ {co}
    /\ UNCHANGED <<limits, done, created, finGCTick, account, missed>>

Yield ==
    /\ InCoroutine /\ Last(chain).pc = "code"
    /\ chain' = Front(chain)
    /\ suspended' = suspended \cup {Last(chain).thread}
    /\ UNCHANGED <<limits, done, created, finGCTick, account, missed>>

\* A coroutine's body returns, or ends with an error of its own.
Finish ==
    /\ InCoroutine /\ Last(chain).pc = "code"
    /\ chain' = Front(chain)
    /\ UNCHANGED <<limits, done, created, finGCTick, suspended, account, missed>>

-----------------------------------------------------------------------------
(* The dispatch loop *)

Counted(t) == budget[Main] # 0 /\ t \in spawned
Tally(t) == executed' = IF Counted(t) THEN executed + 1 ELSE executed
MayExecute(t) ==
    /\ Runs(t)
    /\ Counted(t) => executed < MaxExecuted
    /\ budget[t] # 0 => budgets[budget[t]].count < MaxExecuted

\* An instruction that does not reach the gate.
Execute(t) ==
    /\ MayExecute(t)
    /\ finGCTick[t] + 1 < finGCPoll
    /\ finGCTick' = [finGCTick EXCEPT ![t] = @ + 1]
    /\ Tally(t)
    /\ UNCHANGED <<limits, done, created, chain, suspended, spawned, offset, lost, exceeded, missed>>

\* The innermost activation goes on at pc.
Goto(pc) == [chain EXCEPT ![Len(chain)].pc = pc]

\* An instruction reaches the gate: from here to the end of the poll its quantum
\* is neither in the tick nor in the count.
ReachGate(t) ==
    /\ MayExecute(t)
    /\ finGCTick[t] + 1 >= finGCPoll
    /\ finGCTick' = [finGCTick EXCEPT ![t] = 0]
    /\ chain' = Goto("gate")
    /\ Tally(t)
    /\ UNCHANGED <<limits, done, created, suspended, spawned, offset, lost, exceeded, missed>>

\* The quanta that activations at the gate hold for the present budget.
Held(c) == Cardinality({i \in DOMAIN c : c[i].pc = "gate" /\ c[i].thread \in spawned})

\* Go-level calls of __gc functions in use.
Nesting == Cardinality({i \in DOMAIN chain : chain[i].pc = "gate" /\ i < Len(chain)})

AtGate(t) == ~Idle /\ Last(chain) = [thread |-> t, pc |-> "gate"]

\* drainFinalizers calls a __gc function on the thread that polls.
RunFinalizer(t) ==
    /\ AtGate(t)
    /\ Nesting < MaxNesting
    /\ chain' = Append(chain, Coded(t))
    /\ UNCHANGED <<limits, done, created, finGCTick, suspended, account, missed>>

\* It returns, or raises a Lua error, which runGCMetamethod swallows.
FinalizerEnds ==
    /\ InGC /\ Last(chain).pc = "code"
    /\ chain' = Front(chain)
    /\ UNCHANGED <<limits, done, created, finGCTick, suspended, account, missed>>

\* A quantum is lost with the gate that held it.
LostWith(c) == IF budget[Main] # 0 THEN lost + Held(chain) - Held(c) ELSE lost

\* A Go callback panics: the panic is no Lua error, passes every poll, and ends in
\* activation i, in a protected call (SetRecoverGoPanics) or as the error of a
\* coroutine, or in the host (i = 0).
GoPanic(i) ==
    /\ ~Idle /\ Last(chain).pc = "code"
    /\ i < Len(chain) /\ (i > 0 => chain[i].pc = "code")
    /\ chain' = SubSeq(chain, 1, i)
    /\ lost' = LostWith(SubSeq(chain, 1, i))
    /\ UNCHANGED <<limits, done, created, finGCTick, suspended, spawned, executed, offset,
                   exceeded, missed>>

\* An error of the gate reaches a pcall of the activation, or what called it: the
\* poll that swallows it, the resumer, the host.
Throw == chain' \in {Goto("code"), Front(chain)}

Cancelled(t) == ctx[t] \in done

\* The poll finds no more finalizers, and the tests that follow it are made.  The
\* context is done: the quantum is not counted.
GateCancelled(t) ==
    /\ AtGate(t)
    /\ Cancelled(t)
    /\ lost' = IF Counted(t) THEN lost + 1 ELSE lost
    /\ Throw
    /\ UNCHANGED <<limits, done, created, finGCTick, suspended, spawned, executed, offset,
                   exceeded, missed>>

\* Mutant: one instruction is counted at each gate.
AdvancedByOne(b) == budgets[b].count + 1

Advanced(b) == budgets[b].count + finGCPoll
Spent(b) == Advanced(b) >= budgets[b].limit

\* A gate lets a thread pass that started under the context of the State.
Passes(t) == missed' = (missed \/ (t \in heirs /\ ctx[Main] \in done))

\* The budget is advanced, and may be spent.
GateBudget(t) ==
    /\ AtGate(t)
    /\ ~Cancelled(t) /\ budget[t] # 0
    /\ budgets' = [budgets EXCEPT ![budget[t]].count = Advanced(budget[t])]
    /\ exceeded' = (exceeded \/ (Counted(t) /\ Spent(budget[t])))
    /\ IF Spent(budget[t]) THEN Throw ELSE chain' = Goto("code")
    /\ Passes(t)
    /\ UNCHANGED <<budget, ctx, heirs, done, created, finGCTick, suspended, spawned, executed,
                   offset, lost>>

\* No budget.
GateFree(t) ==
    /\ AtGate(t)
    /\ ~Cancelled(t) /\ budget[t] = 0
    /\ chain' = Goto("code")
    /\ Passes(t)
    /\ UNCHANGED <<limits, done, created, finGCTick, suspended, spawned, executed, offset, lost,
                   exceeded>>

\* A step of the thread that runs, or of its poll.
ThreadStep(t) ==
    \/ \E co \in Coroutines : Spawn(t, co)
    \/ Execute(t) \/ ReachGate(t) \/ RunFinalizer(t)
    \/ GateCancelled(t) \/ GateBudget(t) \/ GateFree(t)

Next ==
    \/ \E n \in Limits : SetInstructionLimit(n)
    \/ ClearInstructionLimit
    \/ \E c \in Contexts \cup {NoContext} : SetContext(c)
    \/ \E c \in Contexts : Cancel(c)
    \/ Run \/ RunEnds \/ Yield \/ Finish \/ FinalizerEnds
    \/ \E co \in Coroutines : Resume(co)
    \/ \E i \in 0 .. Len(chain) : GoPanic(i)
    \/ \E t \in Threads : ThreadStep(t)

Spec == Init /\ [][Next]_vars

-----------------------------------------------------------------------------
(* Properties *)

TypeOK ==
    /\ budgets \in Seq([limit : Limits, count : Nat])
    /\ budget \in [Threads -> 0 .. Len(budgets)]
    /\ ctx \in [Threads -> Contexts \cup {NoContext}]
    /\ done \subseteq Contexts
    /\ finGCTick \in [Threads -> 0 .. finGCPoll - 1]
    /\ chain \in Seq(Activation)
    /\ suspended \subseteq created /\ created \subseteq Coroutines
    /\ heirs \subseteq Threads /\ spawned \subseteq Threads
    /\ executed \in 0 .. MaxExecuted /\ offset \in Nat /\ lost \in Nat
    /\ {exceeded, missed} \subseteq BOOLEAN

Limited == budget[Main] # 0
Present == budgets[budget[Main]]
Ticks == MapThenSumSet(LAMBDA t : finGCTick[t], spawned)

\* Every instruction executed under the budget is in exactly one place: in its
\* count, in the tick of a thread that has not reached its gate yet, with a gate
\* that polls finalizers, or in a quantum lost to a done context or to a panic that
\* unwound such a gate; wherever threads are switched and __gc functions nest.
BudgetAccounts ==
    Limited => Present.count + Ticks + finGCPoll * (Held(chain) + lost) = executed + offset

\* What the shared budget really bounds (lapi_sandbox.go:46): until the limit
\* error is raised the State executes less than the limit, one poll interval for
\* each thread created under it, and one for each gate that is still polling or
\* lost its quantum.
CapWithSlack ==
    Limited /\ ~exceeded =>
        executed < Present.limit + (finGCPoll - 1) * Cardinality(spawned)
                                 + finGCPoll * (Held(chain) + lost)

\* SetInstructionLimit (lapi_sandbox.go:52): "its granularity is finGCPoll
\* instructions, not exact", and "spawning threads cannot multiply the
\* allowance" (lstate.go:66).
InstructionCap ==
    Limited /\ ~exceeded => executed < Present.limit + finGCPoll

\* newThread (lcorolib.go:62): "a cancelled context stops every thread, not just
\* the main one": no gate lets a thread that started under the State's present
\* context pass once it is done.  (Older threads keep an older context.)
CancelStopsEveryThread == ~missed
=============================================================================
