------------------------- MODULE DebugSessionProofs -------------------------
(***************************************************************************)
(* What each operation of a debug session does to the session, for any     *)
(* number of sessions, sources, lines and frames: facts the proofs about   *)
(* the two front ends cite instead of the operations' definitions.         *)
(***************************************************************************)
EXTENDS DebugSession, TLAPS

\* A program that the hook holds is at a place.
Held == \A s \in Sessions :
            vm[s] \in {"checking", "stopping", "parked"} => at[s] \in Places

SessionInv == SessionTypeOK /\ Held

\* The program of session s goes to phase q, and no breakpoint changes.
Moves(s, q) ==
    /\ vm' = [vm EXCEPT ![s] = q]
    /\ bps' = bps

Underway == {"running", "coroutine", "checking"}

LEMMA SessionInitInv == SessionInit => SessionInv
BY BoundsAssumption DEF SessionInit, SessionInv, SessionTypeOK, Held, Phases, Modes

\* The program's goroutine only leaves states in which it runs, and never
\* touches the breakpoints.
LEMMA ProgramMoves ==
    ASSUME SessionInv, NEW s \in Sessions, ProgramStep(s)
    PROVE  /\ SessionInv'
           /\ \/ /\ vm[s] \in Underway
                 /\ \E q \in Underway \cup {"stopping", "ended"} : Moves(s, q)
              \/ vm[s] = "detached" /\ Moves(s, "ended")
           /\ \A u \in Sessions \ {s} : at'[u] = at[u]
<1> USE BoundsAssumption DEF SessionInv, Held, Moves, Underway
<1>1. CASE LineEvent(s)
    BY <1>1 DEF SessionTypeOK, LineEvent, Phases
<1>2. CASE ShouldStop(s)
    <2> DEFINE stops == HasBreakpoint(s) \/ StepDone(s)
    <2>1. /\ vm[s] = "checking"
          /\ vm' = [vm EXCEPT ![s] = IF stops THEN "stopping" ELSE "running"]
          /\ at' = [at EXCEPT ![s] = IF stops THEN @ ELSE Nowhere]
          /\ UNCHANGED <<bps, pauseReq, mode, targetDepth>>
        BY <1>2 DEF ShouldStop
    <2> HIDE DEF stops
    <2> QED
        BY <2>1 DEF SessionTypeOK, Phases
<1>3. CASE EnterCoroutine(s) \/ LeaveCoroutine(s)
    BY <1>3 DEF SessionTypeOK, EnterCoroutine, LeaveCoroutine, Phases
<1>4. CASE Finish(s)
    BY <1>4 DEF SessionTypeOK, Finish, Phases, Modes
<1> QED
    BY <1>1, <1>2, <1>3, <1>4 DEF ProgramStep

\* Creating and starting a session.
LEMMA NewSessionMoves ==
    ASSUME SessionInv, NEW s \in Sessions, NewSession(s) \/ Start(s)
    PROVE  SessionInv' /\ at' = at
BY DEF SessionInv, Held, SessionTypeOK, NewSession, Start, Phases

\* Breakpoints and the pause request do not move the program.
LEMMA ControlKeeps ==
    ASSUME SessionInv, NEW s \in Sessions,
           NEW src \in Sources, NEW lines \in SUBSET Lines,
           SetBreakpoints(s, src, lines) \/ ClearBreakpoints(s) \/ Pause(s)
    PROVE  SessionInv' /\ vm' = vm /\ at' = at
<1> USE DEF SessionInv, Held, SessionTypeOK
<1>1. CASE SetBreakpoints(s, src, lines)
    <2>1. [bps[s] EXCEPT ![src] = lines] \in [Sources -> SUBSET Lines]
        OBVIOUS
    <2> QED
        BY <1>1, <2>1 DEF SetBreakpoints
<1>2. CASE ClearBreakpoints(s)
    <2>1. [x \in Sources |-> {}] \in [Sources -> SUBSET Lines]
        OBVIOUS
    <2> QED
        BY <1>2, <2>1 DEF ClearBreakpoints
<1>3. CASE Pause(s)
    BY <1>3 DEF Pause
<1> QED
    BY <1>1, <1>2, <1>3

\* A stop is received: the program parks where it is.
LEMMA OfferStopMoves ==
    ASSUME SessionInv, NEW s \in Sessions, OfferStop(s)
    PROVE  SessionInv' /\ vm[s] = "stopping" /\ Moves(s, "parked") /\ at' = at
BY DEF SessionInv, Held, SessionTypeOK, OfferStop, Phases, Moves

\* A parked program is resumed or let go; the depth it remembers is a depth.
LEMMA ResumeMoves ==
    ASSUME SessionInv, NEW s \in Sessions, NEW act \in Modes, ServeResume(s, act)
    PROVE  SessionInv' /\ vm[s] = "parked" /\ Moves(s, "running")
<1>1. at[s] \in Places /\ vm[s] = "parked"
    BY DEF SessionInv, Held, ServeResume
<1>2. StopDepth(s) \in 0 .. MaxDepth
    BY <1>1, BoundsAssumption DEF Places, StopDepth
<1> QED
    BY <1>1, <1>2 DEF SessionInv, Held, SessionTypeOK, ServeResume, Phases, Moves

LEMMA DetachMoves ==
    ASSUME SessionInv, NEW s \in Sessions, ServeDetach(s)
    PROVE  SessionInv' /\ vm[s] = "parked" /\ Moves(s, "detached")
BY DEF SessionInv, Held, SessionTypeOK, ServeDetach, Phases, Modes, Moves

LEMMA OfferResultMoves ==
    ASSUME SessionInv, NEW s \in Sessions, OfferResult(s)
    PROVE  SessionInv' /\ vm[s] = "ended" /\ Moves(s, "collected") /\ at' = at
BY DEF SessionInv, Held, SessionTypeOK, OfferResult, Phases, Moves

LEMMA SessionKeeps ==
    ASSUME SessionInv, UNCHANGED sessionVars
    PROVE  SessionInv' /\ vm' = vm /\ at' = at /\ bps' = bps
BY DEF SessionInv, Held, SessionTypeOK, sessionVars
=============================================================================
