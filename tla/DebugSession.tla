---------------------------- MODULE DebugSession ----------------------------
(***************************************************************************)
(* The debugger and its session facade, src/lua/debug_session.go and       *)
(* src/lua/debug_session_driver.go: one goroutine runs the program and     *)
(* calls the debugger's line hook; a controller on another goroutine gets  *)
(* each stop from the unbuffered channel `stops' and drives the parked     *)
(* program through the unbuffered channel `reqs'.                          *)
(*                                                                         *)
(* The module has no next-state relation of its own: a session is always   *)
(* driven by a front end, and a rendezvous on a channel is one step of     *)
(* both sides, so the front ends extend this module and conjoin their half *)
(* of each rendezvous.  Every operator takes the session it is about.      *)
(*                                                                         *)
(* Which line runs next is the program's choice: each line event picks a   *)
(* place.  The place is kept only while the hook holds the program there.  *)
(***************************************************************************)
EXTENDS Integers

CONSTANTS
    MaxSessions,\* bound: sessions created in one behaviour
    Sources,    \* chunk ids
    Lines,      \* line numbers of a chunk
    MaxDepth,   \* bound: number of active frames
    Nowhere     \* the program is not inside the hook

ASSUME BoundsAssumption == MaxSessions \in Nat /\ MaxDepth \in Nat \ {0}

VARIABLES
    vm,          \* what the program's goroutine is doing, per session
    at,          \* where the hook holds it
    bps,         \* Debugger.bps, under Debugger.mu
    pauseReq,    \* Debugger.pauseReq, atomic
    mode,        \* Debugger.mode
    targetDepth  \* Debugger.targetDepth

sessionVars == <<vm, at, bps, pauseReq, mode, targetDepth>>

\* Sessions are numbered in the order they are created.
Sessions == 1 .. MaxSessions

Places == [src : Sources, line : Lines, depth : 1 .. MaxDepth]

ASSUME NowhereAssumption == Nowhere \notin Places

Modes == {"run", "into", "over", "out"}

(***************************************************************************)
(* "none" and "new" precede Start; "running" is the main thread between    *)
(* two line events; "coroutine" is a coroutine it has resumed, whose       *)
(* thread has no hook; "checking" is shouldStop past the pause test;       *)
(* "stopping" offers a StopState on `stops'; "parked" receives from        *)
(* `reqs'; "detached" runs on with the hook removed; "ended" has left its  *)
(* result in the channel Start returned, and "collected" is the same with  *)
(* the result received.                                                    *)
(***************************************************************************)
Phases == {"none", "new", "running", "coroutine", "checking", "stopping",
           "parked", "detached", "ended", "collected"}

SessionTypeOK ==
    /\ vm \in [Sessions -> Phases]
    /\ at \in [Sessions -> Places \cup {Nowhere}]
    /\ bps \in [Sessions -> [Sources -> SUBSET Lines]]
    /\ pauseReq \in [Sessions -> BOOLEAN]
    /\ mode \in [Sessions -> Modes]
    /\ targetDepth \in [Sessions -> 0 .. MaxDepth]

SessionInit ==
    /\ vm = [s \in Sessions |-> "none"]
    /\ at = [s \in Sessions |-> Nowhere]
    /\ bps = [s \in Sessions |-> [x \in Sources |-> {}]]
    /\ pauseReq = [s \in Sessions |-> FALSE]
    /\ mode = [s \in Sessions |-> "run"]
    /\ targetDepth = [s \in Sessions |-> 0]

(***************************************************************************)
(* Called by the controller.                                               *)
(***************************************************************************)
NewSession(s) ==
    /\ vm[s] = "none"
    /\ \A earlier \in 1 .. s - 1 : vm[earlier] # "none"
    /\ vm' = [vm EXCEPT ![s] = "new"]
    /\ UNCHANGED <<at, bps, pauseReq, mode, targetDepth>>

Start(s) ==
    /\ vm[s] = "new"
    /\ vm' = [vm EXCEPT ![s] = "running"]
    /\ UNCHANGED <<at, bps, pauseReq, mode, targetDepth>>

\* An empty list of lines deletes the source's entry: the empty set here.
SetBreakpoints(s, src, lines) ==
    /\ bps' = [bps EXCEPT ![s][src] = lines]
    /\ UNCHANGED <<vm, at, pauseReq, mode, targetDepth>>

ClearBreakpoints(s) ==
    /\ bps' = [bps EXCEPT ![s] = [x \in Sources |-> {}]]
    /\ UNCHANGED <<vm, at, pauseReq, mode, targetDepth>>

Pause(s) ==
    /\ pauseReq' = [pauseReq EXCEPT ![s] = TRUE]
    /\ UNCHANGED <<vm, at, bps, mode, targetDepth>>

(***************************************************************************)
(* The program's goroutine.  A line event swaps the pause request out      *)
(* first; breakpoints and the step in progress are looked at only when     *)
(* none was pending, under a lock taken later.                             *)
(***************************************************************************)

\* Mutant: a pause is honoured only when no step is in progress.
PauseLandsUnlessStepping(s) == pauseReq[s] /\ mode[s] = "run"

PauseLands(s) == pauseReq[s]

LineEvent(s) ==
    /\ vm[s] = "running"
    /\ \E p \in Places : at' = [at EXCEPT ![s] = p]
    /\ vm' = [vm EXCEPT ![s] = IF PauseLands(s) THEN "stopping" ELSE "checking"]
    /\ pauseReq' = [pauseReq EXCEPT ![s] = FALSE]
    /\ UNCHANGED <<bps, mode, targetDepth>>

HasBreakpoint(s) == at[s].line \in bps[s][at[s].src]

StepDone(s) ==
    CASE mode[s] = "into" -> TRUE
      [] mode[s] = "over" -> at[s].depth <= targetDepth[s]
      [] mode[s] = "out"  -> at[s].depth < targetDepth[s]
      [] OTHER            -> FALSE

ShouldStop(s) ==
    LET stops == HasBreakpoint(s) \/ StepDone(s) IN
    /\ vm[s] = "checking"
    /\ vm' = [vm EXCEPT ![s] = IF stops THEN "stopping" ELSE "running"]
    /\ at' = [at EXCEPT ![s] = IF stops THEN @ ELSE Nowhere]
    /\ UNCHANGED <<bps, pauseReq, mode, targetDepth>>

\* A new coroutine thread starts with no Go hook, so none of its lines is
\* an event of the debugger.
EnterCoroutine(s) ==
    /\ vm[s] = "running"
    /\ vm' = [vm EXCEPT ![s] = "coroutine"]
    /\ UNCHANGED <<at, bps, pauseReq, mode, targetDepth>>

LeaveCoroutine(s) ==
    /\ vm[s] = "coroutine"
    /\ vm' = [vm EXCEPT ![s] = "running"]
    /\ UNCHANGED <<at, bps, pauseReq, mode, targetDepth>>

\* DoString returns, with results or an error; the channel has room for it.
\* Nothing reads the step in progress any more, so the model forgets it.
Finish(s) ==
    /\ vm[s] \in {"running", "detached"}
    /\ vm' = [vm EXCEPT ![s] = "ended"]
    /\ mode' = [mode EXCEPT ![s] = "run"]
    /\ targetDepth' = [targetDepth EXCEPT ![s] = 0]
    /\ UNCHANGED <<at, bps, pauseReq>>

ProgramStep(s) ==
    \/ LineEvent(s)
    \/ ShouldStop(s)
    \/ EnterCoroutine(s)
    \/ LeaveCoroutine(s)
    \/ Finish(s)

(***************************************************************************)
(* The program's half of each rendezvous with the controller.              *)
(***************************************************************************)

\* `stops <- st', then the loop over `reqs'.
OfferStop(s) ==
    /\ vm[s] = "stopping"
    /\ vm' = [vm EXCEPT ![s] = "parked"]
    /\ UNCHANGED <<at, bps, pauseReq, mode, targetDepth>>

\* A request without `resume': its function runs with hooks off and reads
\* the parked program; the loop goes round.
ServeRequest(s) ==
    /\ vm[s] = "parked"
    /\ UNCHANGED sessionVars

\* Mutant: the hook's own frame is counted.
StopDepthWithHook(s) == at[s].depth + 1

StopDepth(s) == at[s].depth

\* A request with `resume': the action becomes the mode, and a step over or
\* out remembers the depth of the stop.
ServeResume(s, action) ==
    /\ vm[s] = "parked"
    /\ mode' = [mode EXCEPT ![s] = action]
    /\ targetDepth' = [targetDepth EXCEPT
           ![s] = IF action \in {"over", "out"} THEN StopDepth(s) ELSE @]
    /\ vm' = [vm EXCEPT ![s] = "running"]
    /\ at' = [at EXCEPT ![s] = Nowhere]
    /\ UNCHANGED <<bps, pauseReq>>

\* Detach while the program is parked, then Continue: no line of it is an
\* event any more.
ServeDetach(s) ==
    /\ vm[s] = "parked"
    /\ vm' = [vm EXCEPT ![s] = "detached"]
    /\ mode' = [mode EXCEPT ![s] = "run"]
    /\ at' = [at EXCEPT ![s] = Nowhere]
    /\ UNCHANGED <<bps, pauseReq, targetDepth>>

OfferResult(s) ==
    /\ vm[s] = "ended"
    /\ vm' = [vm EXCEPT ![s] = "collected"]
    /\ UNCHANGED <<at, bps, pauseReq, mode, targetDepth>>
=============================================================================
