-------------------------- MODULE DapAdapterProofs --------------------------
(***************************************************************************)
(* Proofs about DapAdapter, for any sources and lines, any depth of the    *)
(* program's stack and any number of handles: `paused', which the pump     *)
(* sets and the reader clears, tells the truth about the program, which is *)
(* on a goroutine of its own.                                              *)
(***************************************************************************)
EXTENDS DapAdapter, DebugSessionProofs, SequenceTheorems

LEMMA SessionExists == S \in Sessions
BY BoundsAssumption, AdapterAssumption DEF S, Sessions

\* The reader has been let through by `paused' and will use the program.
Admitted == {"admitted", "cleared", "inspecting", "disconnecting", "detaching"}

\* Once the handles are reset, a stale one comes from a reader that held a stale
\* value at that moment.
Clean == pump # "received" /\ ~overtaken => NoStaleHandle /\ values = "fresh"

\* Between receiving a stop and setting the flag the pump works alone: the
\* program is parked, and no request has been let through since it last ran.
PumpAhead ==
    /\ pump = "off" <=> vm[S] = "none"
    /\ pump \in {"received", "reset"} => vm[S] = "parked" /\ ~paused /\ reader \notin Admitted
    /\ pump \in {"ended", "gone"} => vm[S] = "collected"

\* The flag, and what it has let through, is about the present stop.
FlagHolds ==
    /\ paused => vm[S] = "parked" /\ pump \in {"flagged", "select"}
    /\ reader \in Admitted => vm[S] = "parked" /\ pump \in {"flagged", "select"}
    /\ reader \in {"cleared", "detaching"} => ~paused

AdapterType ==
    /\ launchReq \in BOOLEAN
    /\ configured \in BOOLEAN
    /\ stored \in [Sources -> SUBSET Lines]
    /\ paused \in BOOLEAN
    /\ handles \in Seq(HandleKinds) /\ Len(handles) <= MaxHandles
    /\ reader \in ReaderPoints
    /\ action \in Modes
    /\ values \in Ages
    /\ pump \in PumpPoints
    /\ overtaken \in BOOLEAN

Inv == SessionInv /\ AdapterType /\ PumpAhead /\ FlagHolds /\ Clean /\ BreakpointsApplied

LEMMA InitInv == Init => Inv
<1> SUFFICES ASSUME Init PROVE Inv
    OBVIOUS
<1>1. SessionInv
    BY SessionInitInv DEF Init
<1>2. AdapterType
    <2>1. handles \in Seq(HandleKinds) /\ Len(handles) <= MaxHandles
        BY EmptySeq, AdapterAssumption DEF Init
    <2>2. stored \in [Sources -> SUBSET Lines]
        BY DEF Init
    <2>3. /\ launchReq \in BOOLEAN /\ configured \in BOOLEAN /\ paused \in BOOLEAN
          /\ reader \in ReaderPoints /\ action \in Modes /\ pump \in PumpPoints
          /\ values \in Ages /\ overtaken \in BOOLEAN
        BY DEF Init, ReaderPoints, PumpPoints, Modes, Ages
    <2> QED
        BY <2>1, <2>2, <2>3 DEF AdapterType
<1>3. vm[S] = "none"
    BY SessionExists DEF Init, SessionInit
<1> QED
    BY <1>1, <1>2, <1>3, EmptySeq
    DEF Init, Inv, PumpAhead, FlagHolds, Clean, NoStaleHandle, BreakpointsApplied, Admitted

\* A handle the reader makes is as old as its value.
LEMMA AddHandleKeeps ==
    ASSUME AdapterType, NEW kind \in HandleKinds, AddHandle(kind)
    PROVE  /\ handles' \in Seq(HandleKinds)
           /\ Len(handles') <= MaxHandles
           /\ (NoStaleHandle /\ kind # "stale") => NoStaleHandle'
<1>1. handles' = Append(handles, kind) /\ Len(handles) < MaxHandles
    BY DEF AddHandle
<1>2. handles \in Seq(HandleKinds)
    BY DEF AdapterType
<1>3. /\ handles' \in Seq(HandleKinds)
      /\ Len(handles') = Len(handles) + 1
      /\ \A i \in 1 .. Len(handles) : handles'[i] = handles[i]
      /\ handles'[Len(handles) + 1] = kind
    BY <1>1, <1>2, AppendProperties
<1>4. DOMAIN handles = 1 .. Len(handles) /\ Len(handles) \in Nat
    BY <1>2, LenProperties
<1>5. DOMAIN handles' = 1 .. Len(handles')
    BY <1>3, LenProperties
<1>6. Len(handles') <= MaxHandles
    BY <1>1, <1>3, <1>4, AdapterAssumption
<1>7. ASSUME NoStaleHandle, kind # "stale", NEW i \in DOMAIN handles'
      PROVE  handles'[i] # "stale"
    <2>1. i \in 1 .. Len(handles) \/ i = Len(handles) + 1
        BY ONLY <1>3, <1>4, <1>5, <1>7
    <2> QED
        BY <2>1, <1>3, <1>4, <1>7 DEF NoStaleHandle
<1> QED
    BY <1>3, <1>6, <1>7 DEF NoStaleHandle

\* The requests and the rest of the handlers: the reader's goroutine.
LEMMA LaunchStep ==
    ASSUME Inv, OnLaunch \/ ConfigurationDone
    PROVE  Inv'
<1> USE SessionExists
<1>1. AdapterType'
    BY DEF Inv, AdapterType, OnLaunch, ConfigurationDone, MaybeStart, PumpPoints, readerVars
<1>2. CASE UNCHANGED <<sessionVars, pump>>
    BY <1>1, <1>2, SessionKeeps
       DEF Inv, OnLaunch, ConfigurationDone, PumpAhead, FlagHolds, BreakpointsApplied, Clean,
           NoStaleHandle, readerVars
<1>3. CASE /\ vm[S] = "none"
           /\ vm' = [vm EXCEPT ![S] = "running"]
           /\ bps' = BreakpointsToApply
           /\ pump' = "select"
           /\ UNCHANGED <<at, pauseReq, mode, targetDepth>>
    <2>1. SessionInv'
        BY <1>3 DEF Inv, SessionInv, Held, SessionTypeOK, AdapterType,
                    BreakpointsToApply, Phases
    <2>2. vm'[S] = "running" /\ bps'[S] = stored /\ pump' = "select"
        BY <1>3 DEF Inv, SessionInv, SessionTypeOK, BreakpointsToApply
    <2>3. ~paused /\ reader \notin Admitted
        BY <1>3 DEF Inv, FlagHolds
    <2>4. pump = "off" /\ UNCHANGED <<paused, handles, readerVars, overtaken, stored>>
        BY <1>3 DEF Inv, PumpAhead, OnLaunch, ConfigurationDone
    <2>5. Clean'
        BY <1>3, <2>4 DEF Inv, Clean, NoStaleHandle, readerVars
    <2>6. PumpAhead'
        BY <2>2 DEF PumpAhead
    <2>7. FlagHolds'
        <3>1. ~paused' /\ reader' = reader
            BY <2>3, <2>4 DEF readerVars
        <3> QED
            BY <3>1, <2>3 DEF FlagHolds, Admitted
    <2>8. BreakpointsApplied'
        BY <2>2, <2>4 DEF BreakpointsApplied
    <2> QED
        BY <1>1, <2>1, <2>5, <2>6, <2>7, <2>8 DEF Inv
<1> QED
    BY <1>2, <1>3 DEF OnLaunch, ConfigurationDone, MaybeStart, Started

LEMMA RequestStep ==
    ASSUME Inv, Request
    PROVE  Inv'
<1> USE SessionExists
<1>1. CASE OnLaunch \/ ConfigurationDone
    BY <1>1, LaunchStep
<1>2. ASSUME NEW src \in Sources, NEW lines \in SUBSET Lines, OnSetBreakpoints(src, lines)
      PROVE  Inv'
    <2>1. SessionInv' /\ vm' = vm
        BY <1>2, ControlKeeps, SessionKeeps DEF Inv, OnSetBreakpoints
    <2>2. AdapterType'
        BY <1>2 DEF Inv, AdapterType, OnSetBreakpoints, readerVars
    <2>3. Started => bps'[S] = [bps[S] EXCEPT ![src] = lines]
        BY <1>2 DEF Inv, SessionInv, SessionTypeOK, OnSetBreakpoints, SetBreakpoints
    <2>4. BreakpointsApplied'
        BY <1>2, <2>1, <2>3 DEF Inv, BreakpointsApplied, OnSetBreakpoints, Started
    <2> QED
        BY <1>2, <2>1, <2>2, <2>4 DEF Inv, OnSetBreakpoints, PumpAhead, FlagHolds, Clean, NoStaleHandle, readerVars
<1>3. CASE OnPause
    <2>1. SessionInv' /\ vm' = vm /\ bps' = bps
        <3>1. vm' = vm /\ bps' = bps /\ SessionTypeOK'
            BY <1>3 DEF OnPause, Pause, Inv, SessionInv, SessionTypeOK
        <3> QED
            BY <1>3, <3>1 DEF OnPause, Pause, Inv, SessionInv, Held
    <2> QED
        BY <1>3, <2>1 DEF Inv, OnPause, AdapterType, PumpAhead, FlagHolds, Clean, NoStaleHandle,
                          BreakpointsApplied, configVars, readerVars
<1>4. ASSUME NEW act \in Modes, AdmitResume(act)
      PROVE  Inv'
    BY <1>4, SessionKeeps DEF Inv, AdmitResume, AdapterType, PumpAhead, FlagHolds, Clean, NoStaleHandle,
           BreakpointsApplied, configVars, readerVars, Admitted, ReaderPoints
<1>5. CASE AdmitInspection
    BY <1>5, SessionKeeps DEF Inv, AdmitInspection, AdapterType, PumpAhead, FlagHolds, Clean, NoStaleHandle,
           BreakpointsApplied, configVars, readerVars, Admitted, ReaderPoints
<1>6. CASE OnScopes
    <2>1. /\ handles' \in Seq(HandleKinds) /\ Len(handles') <= MaxHandles
          /\ NoStaleHandle => NoStaleHandle'
        BY <1>6, AddHandleKeeps DEF Inv, OnScopes, HandleKinds
    <2>2. AdapterType' /\ Clean'
        BY <1>6, <2>1 DEF Inv, OnScopes, AdapterType, Clean, configVars, readerVars
    <2> QED
        BY <1>6, <2>2, SessionKeeps
        DEF Inv, OnScopes, PumpAhead, FlagHolds, BreakpointsApplied, configVars, readerVars
<1>7. CASE OnVariables
    <2>1. PICK i \in DOMAIN handles : LookUp(handles[i])
        BY <1>7 DEF OnVariables
    <2>2. handles[i] \in HandleKinds
        BY <2>1, ElementOfSeq, LenProperties DEF Inv, AdapterType
    <2>3. /\ reader = "idle" /\ reader' \in {"variables", "expanding"}
          /\ values' \in Ages /\ (values' = values \/ values' = handles[i])
        BY <1>7, <2>1, <2>2 DEF OnVariables, LookUp, HandleKinds, Inv, AdapterType
    <2>4. AdapterType' /\ Clean'
        BY <1>7, <2>1, <2>3
        DEF OnVariables, Inv, AdapterType, ReaderPoints, Clean, NoStaleHandle, Ages, configVars
    <2> QED
        BY <1>7, <2>3, <2>4, SessionKeeps DEF Inv, OnVariables, PumpAhead, FlagHolds,
               BreakpointsApplied, configVars, Admitted
<1>8. CASE OnDisconnect
    BY <1>8, SessionKeeps DEF Inv, OnDisconnect, AdapterType, PumpAhead, FlagHolds, Clean, NoStaleHandle,
           BreakpointsApplied, configVars, readerVars, Admitted, ReaderPoints
<1> QED
    BY <1>1, <1>2, <1>3, <1>4, <1>5, <1>6, <1>7, <1>8 DEF Request

LEMMA ReaderStepKeeps ==
    ASSUME Inv, ReaderStep
    PROVE  Inv'
<1> USE SessionExists
<1>1. CASE ClearPaused
    BY <1>1, SessionKeeps DEF Inv, ClearPaused, PausedAfterResume, AdapterType, PumpAhead,
           FlagHolds, Clean, NoStaleHandle, BreakpointsApplied, configVars, readerVars, Admitted, ReaderPoints
<1>2. CASE SendResume
    <2>1. SessionInv' /\ vm[S] = "parked" /\ Moves(S, "running")
        BY <1>2, ResumeMoves DEF SendResume, Inv, AdapterType
    <2>2. vm'[S] = "running" /\ bps' = bps
        BY <2>1 DEF Moves, Inv, SessionInv, SessionTypeOK
    <2> QED
        BY <1>2, <2>1, <2>2 DEF Inv, SendResume, AdapterType, PumpAhead, FlagHolds, Clean, NoStaleHandle,
               BreakpointsApplied, configVars, readerVars, Admitted, ReaderPoints, Modes
<1>3. CASE Inspect
    BY <1>3, SessionKeeps DEF Inv, Inspect, ServeRequest, AdapterType, PumpAhead, FlagHolds,
           Clean, NoStaleHandle, BreakpointsApplied, configVars, readerVars, Admitted, ReaderPoints
<1>4. CASE ReadVariables
    BY <1>4, SessionKeeps DEF Inv, ReadVariables, ServeRequest, AdapterType, PumpAhead, FlagHolds,
           Clean, NoStaleHandle, BreakpointsApplied, configVars, Admitted, ReaderPoints, Ages
<1>5. CASE Expand
    BY <1>5, SessionKeeps DEF Inv, Expand, AdapterType, PumpAhead, FlagHolds,
           Clean, NoStaleHandle, BreakpointsApplied, configVars, Admitted, ReaderPoints
<1>6. CASE RenderVariable
    <2>1. /\ handles' \in Seq(HandleKinds) /\ Len(handles') <= MaxHandles
          /\ NoStaleHandle /\ values = "fresh" => NoStaleHandle' /\ values' = "fresh"
          /\ values' \in Ages
        <3>1. CASE AddHandle(values) /\ UNCHANGED <<reader, values>>
            BY <3>1, AddHandleKeeps DEF Inv, AdapterType, HandleKinds, Ages
        <3>2. CASE reader' = "idle" /\ values' = "fresh" /\ UNCHANGED handles
            BY <3>2 DEF Inv, AdapterType, NoStaleHandle, Ages
        <3> QED
            BY <1>6, <3>1, <3>2 DEF RenderVariable
    <2>2. reader \notin Admitted /\ reader' \in {"rendering", "idle"}
        BY <1>6 DEF RenderVariable, Admitted
    <2>3. AdapterType' /\ Clean'
        BY <1>6, <2>1, <2>2 DEF Inv, RenderVariable, AdapterType, Clean, configVars, ReaderPoints
    <2> QED
        BY <1>6, <2>2, <2>3, SessionKeeps
        DEF Inv, RenderVariable, PumpAhead, FlagHolds, BreakpointsApplied, configVars, Admitted
<1>7. CASE ClearForDetach
    <2>1. SessionInv' /\ vm' = vm
        <3>1. vm' = vm /\ SessionTypeOK'
            BY <1>7 DEF ClearForDetach, ClearBreakpoints, Inv, SessionInv, SessionTypeOK
        <3> QED
            BY <1>7, <3>1 DEF ClearForDetach, ClearBreakpoints, Inv, SessionInv, Held
    <2> QED
        BY <1>7, <2>1 DEF Inv, ClearForDetach, AdapterType, PumpAhead, FlagHolds,
               Clean, NoStaleHandle, BreakpointsApplied, configVars, readerVars, Admitted, ReaderPoints
<1>8. CASE Detach
    <2>1. SessionInv' /\ vm[S] = "parked" /\ Moves(S, "detached")
        BY <1>8, DetachMoves DEF Detach, Inv
    <2>2. vm'[S] = "detached"
        BY <2>1 DEF Moves, Inv, SessionInv, SessionTypeOK
    <2> QED
        BY <1>8, <2>1, <2>2 DEF Inv, Detach, AdapterType, PumpAhead, FlagHolds,
               Clean, NoStaleHandle, BreakpointsApplied, configVars, readerVars, Admitted, ReaderPoints
<1> QED
    BY <1>1, <1>2, <1>3, <1>4, <1>5, <1>6, <1>7, <1>8 DEF ReaderStep

\* The pump's goroutine.
LEMMA PumpStepKeeps ==
    ASSUME Inv, PumpStep
    PROVE  Inv'
<1> USE SessionExists
<1>1. CASE ReceiveStop
    <2>1. SessionInv' /\ vm[S] = "stopping" /\ Moves(S, "parked")
        BY <1>1, OfferStopMoves DEF ReceiveStop, Inv
    <2>2. vm'[S] = "parked" /\ bps' = bps
        BY <2>1 DEF Moves, Inv, SessionInv, SessionTypeOK
    <2>3. ~paused /\ reader \notin Admitted
        BY <2>1 DEF Inv, FlagHolds
    <2>4. handles' \in Seq(HandleKinds) /\ Len(handles') = Len(handles)
        <3>1. handles \in Seq(HandleKinds)
            BY DEF Inv, AdapterType
        <3>2. Len(handles) \in Nat /\ DOMAIN handles = 1 .. Len(handles)
            BY <3>1, LenProperties
        <3>3. handles' \in [1 .. Len(handles) -> HandleKinds]
            BY <1>1, <3>2 DEF ReceiveStop, HandleKinds, Ages
        <3> QED
            BY <3>2, <3>3, SeqDef, LenProperties
    <2>5. AdapterType' /\ Clean'
        BY <1>1, <2>4 DEF Inv, AdapterType, ReceiveStop, configVars, PumpPoints, Ages, Clean
    <2> QED
        BY <1>1, <2>1, <2>2, <2>3, <2>5
        DEF Inv, ReceiveStop, PumpAhead, FlagHolds, BreakpointsApplied, configVars
<1>2. CASE ResetHandles
    <2>1. handles' \in Seq(HandleKinds) /\ Len(handles') = 0 /\ NoStaleHandle'
        BY <1>2, EmptySeq DEF ResetHandles, HandlesReset, NoStaleHandle
    <2>2. values \in Ages /\ UNCHANGED <<values, reader, action>> /\ pump' = "reset"
        BY <1>2 DEF Inv, AdapterType, ResetHandles, readerVars
    <2>3. overtaken' \in BOOLEAN /\ (~overtaken' => values = "fresh")
        BY <1>2, <2>2 DEF ResetHandles, Ages
    <2>4. AdapterType'
        BY <1>2, <2>1, <2>2, <2>3, AdapterAssumption
        DEF Inv, AdapterType, ResetHandles, configVars, PumpPoints
    <2>5. Clean'
        BY <2>1, <2>2, <2>3 DEF Clean
    <2> QED
        BY <1>2, <2>4, <2>5, SessionKeeps
        DEF Inv, ResetHandles, PumpAhead, FlagHolds, BreakpointsApplied, configVars, readerVars
<1>3. CASE SetPaused
    BY <1>3, SessionKeeps DEF Inv, SetPaused, AdapterType, PumpAhead, FlagHolds,
           Clean, NoStaleHandle, BreakpointsApplied, configVars, readerVars, PumpPoints, Admitted
<1>4. CASE SendStopped
    BY <1>4, SessionKeeps DEF Inv, SendStopped, AfterEvent, AdapterType, PumpAhead, FlagHolds,
           Clean, NoStaleHandle, BreakpointsApplied, configVars, readerVars, PumpPoints
<1>5. CASE ReceiveResult
    <2>1. SessionInv' /\ vm[S] = "ended" /\ Moves(S, "collected")
        BY <1>5, OfferResultMoves DEF ReceiveResult, Inv
    <2>2. vm'[S] = "collected"
        BY <2>1 DEF Moves, Inv, SessionInv, SessionTypeOK
    <2> QED
        BY <1>5, <2>1, <2>2 DEF Inv, ReceiveResult, AdapterType, PumpAhead, FlagHolds,
               Clean, NoStaleHandle, BreakpointsApplied, configVars, readerVars, PumpPoints
<1>6. CASE SendTerminated
    BY <1>6, SessionKeeps DEF Inv, SendTerminated, AdapterType, PumpAhead, FlagHolds,
           Clean, NoStaleHandle, BreakpointsApplied, configVars, readerVars, PumpPoints
<1> QED
    BY <1>1, <1>2, <1>3, <1>4, <1>5, <1>6 DEF PumpStep

\* The program's goroutine: it runs only when nothing says that it is parked.
LEMMA RunProgramKeeps ==
    ASSUME Inv, RunProgram
    PROVE  Inv'
<1> USE SessionExists
<1>1. /\ SessionInv'
      /\ \/ /\ vm[S] \in Underway
            /\ \E q \in Underway \cup {"stopping", "ended"} : Moves(S, q)
         \/ vm[S] = "detached" /\ Moves(S, "ended")
    BY ProgramMoves DEF Inv, RunProgram
<1>2. /\ bps' = bps /\ vm[S] \notin {"none", "parked", "collected"}
      /\ vm'[S] \in Underway \cup {"stopping", "ended"}
      /\ vm[S] = "detached" => vm'[S] = "ended"
      /\ vm[S] # "detached" => vm[S] \in Underway
    BY <1>1 DEF Moves, Underway, Inv, SessionInv, SessionTypeOK
<1>3. ~paused /\ reader \notin Admitted
    BY <1>2 DEF Inv, FlagHolds
<1> QED
    BY <1>1, <1>2, <1>3 DEF Inv, RunProgram, AdapterType, PumpAhead, FlagHolds, Clean, NoStaleHandle,
           BreakpointsApplied, configVars, readerVars, Underway

LEMMA InvStep ==
    ASSUME Inv, [Next]_vars
    PROVE  Inv'
<1>1. CASE UNCHANGED vars
    BY <1>1, SessionKeeps DEF vars, Inv, AdapterType, PumpAhead, FlagHolds, Clean, NoStaleHandle,
           BreakpointsApplied, configVars, readerVars
<1> QED
    BY <1>1, RequestStep, ReaderStepKeeps, PumpStepKeeps, RunProgramKeeps DEF Next

LEMMA AlwaysInv == Spec => []Inv
BY InitInv, InvStep, PTL DEF Spec

\* The shapes of the session and of the adapter's fields (adapter.go:30-60).
THEOREM TypeCorrect == Spec => []TypeOK
<1>1. Inv => TypeOK
    BY DEF Inv, SessionInv, AdapterType, TypeOK
<1> QED
    BY <1>1, AlwaysInv, PTL

\* The flag is set and tested on other goroutines than the program's, and used
\* after its lock is released; still, while it is set and while a request it
\* admitted is on its way, the program is parked, and no handle made before the
\* stop is left unless the reset found the reader with a value of an earlier stop.
THEOREM FlagTellsTruth == Spec => []PausedTellsTruth
<1>1. Inv => PausedTellsTruth
    BY DEF Inv, FlagHolds, Clean, PausedTellsTruth, Admitted
<1> QED
    BY <1>1, AlwaysInv, PTL

\* Breakpoints set before, while or after the program starts are the ones it
\* runs with (onSetBreakpoints, maybeStart).
THEOREM ClientsBreakpointsApplied == Spec => []BreakpointsApplied
<1>1. Inv => BreakpointsApplied
    BY DEF Inv
<1> QED
    BY <1>1, AlwaysInv, PTL
=============================================================================
