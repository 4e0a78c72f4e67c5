----------------------------- MODULE DapAdapter -----------------------------
(***************************************************************************)
(* One connection of the Debug Adapter Protocol server,                    *)
(* src/debugdap/adapter.go, composed with the session it drives.  Three    *)
(* goroutines: the reader takes one request at a time and runs its handler *)
(* to the end, the pump turns stops and the result of the program into     *)
(* events, and the program itself.  Reader and pump share `paused' under   *)
(* one lock and the handles under another; a handler that tests `paused'   *)
(* goes on after the lock is released, so the stretches between two lock   *)
(* or channel operations are actions of their own.                         *)
(*                                                                         *)
(* The client may send any request at any time.  A request refused by its  *)
(* handler's first test is answered with an error and changes nothing, so  *)
(* it is not a step; nor are initialize, threads, source and               *)
(* setExceptionBreakpoints.  Messages and renderings are left out.         *)
(***************************************************************************)
EXTENDS DebugSession, Sequences

CONSTANTS
    MaxHandles  \* bound: handles alive at once

\* The adapter drives one session.
ASSUME AdapterAssumption == MaxHandles \in Nat /\ MaxSessions >= 1

S == 1

VARIABLES
    launchReq,   \* a launch request has arrived
    configured,  \* configurationDone has arrived
    stored,      \* adapter.bps
    paused,      \* adapter.paused, under mu
    handles,     \* adapter.handles, under refMu
    reader,      \* where the reader goroutine is
    action,      \* the resume request it serves
    values,      \* the values it reads or renders: fresh or stale
    pump,        \* where the pump goroutine is
    overtaken    \* history: the present stop found the reader with stale values

configVars == <<launchReq, configured, stored>>
readerVars == <<reader, action, values>>
vars == <<sessionVars, configVars, paused, handles, readerVars, pump, overtaken>>

\* Values are fresh until a later stop is reported than the one they were read at.
Ages == {"fresh", "stale"}

\* A handle is a frame's number, read at whatever stop the program is, or a table.
HandleKinds == {"locals"} \cup Ages

ReaderPoints == {"idle", "admitted", "cleared", "inspecting", "variables", "expanding",
                 "rendering", "disconnecting", "detaching", "closed"}

PumpPoints == {"off", "select", "received", "reset", "flagged", "ended", "gone"}

\* Shape of the adapter's state; an idle reader holds no action.
TypeOK ==
    /\ SessionTypeOK
    /\ launchReq \in BOOLEAN
    /\ configured \in BOOLEAN
    /\ stored \in [Sources -> SUBSET Lines]
    /\ paused \in BOOLEAN
    /\ handles \in Seq(HandleKinds) /\ Len(handles) <= MaxHandles
    /\ reader \in ReaderPoints
    /\ action \in Modes
    /\ values \in Ages
    /\ pump \in PumpPoints
    /\ overtaken \in BOOLEAN

Init ==
    /\ SessionInit
    /\ launchReq = FALSE
    /\ configured = FALSE
    /\ stored = [x \in Sources |-> {}]
    /\ paused = FALSE
    /\ handles = <<>>
    /\ reader = "idle"
    /\ action = "run"
    /\ values = "fresh"
    /\ pump = "off"
    /\ overtaken = FALSE

Started == vm[S] # "none"

-----------------------------------------------------------------------------
(***************************************************************************)
(* The launch handshake.  The program starts in the handler of whichever   *)
(* of launch and configurationDone comes second; a program without source  *)
(* is reported as terminated and may be launched again.                    *)
(***************************************************************************)

\* Mutant: the breakpoints that arrived before the program are not applied.
BreakpointsToApplyNone == bps

BreakpointsToApply == [bps EXCEPT ![S] = stored]

MaybeStart ==
    \/ /\ launchReq' /\ configured' /\ ~Started
       /\ vm' = [vm EXCEPT ![S] = "running"]
       /\ bps' = BreakpointsToApply
       /\ pump' = "select"
       /\ UNCHANGED <<at, pauseReq, mode, targetDepth>>
    \/ UNCHANGED <<sessionVars, pump>>    \* not yet, already, or no source

OnLaunch ==
    /\ reader = "idle"
    /\ launchReq' = TRUE
    /\ UNCHANGED <<configured, stored, paused, handles, readerVars, overtaken>>
    /\ MaybeStart

ConfigurationDone ==
    /\ reader = "idle"
    /\ configured' = TRUE
    /\ UNCHANGED <<launchReq, stored, paused, handles, readerVars, overtaken>>
    /\ MaybeStart

OnSetBreakpoints(src, lines) ==
    /\ reader = "idle"
    /\ stored' = [stored EXCEPT ![src] = lines]
    /\ IF Started THEN SetBreakpoints(S, src, lines) ELSE UNCHANGED sessionVars
    /\ UNCHANGED <<launchReq, configured, paused, handles, readerVars, pump, overtaken>>

OnPause ==
    /\ reader = "idle"
    /\ Started
    /\ Pause(S)
    /\ UNCHANGED <<configVars, paused, handles, readerVars, pump, overtaken>>

(***************************************************************************)
(* continue, next, stepIn, stepOut: test, clear, send.                     *)
(***************************************************************************)
AdmitResume(act) ==
    /\ reader = "idle"
    /\ paused
    /\ reader' = "admitted"
    /\ action' = act
    /\ UNCHANGED <<sessionVars, configVars, paused, handles, values, pump, overtaken>>

\* Mutant: the flag stays set until the pump next changes it.
PausedAfterResumeKept == paused

PausedAfterResume == FALSE

ClearPaused ==
    /\ reader = "admitted"
    /\ paused' = PausedAfterResume
    /\ reader' = "cleared"
    /\ UNCHANGED <<sessionVars, configVars, handles, action, values, pump, overtaken>>

SendResume ==
    /\ reader = "cleared"
    /\ ServeResume(S, action)
    /\ reader' = "idle"
    /\ action' = "run"
    /\ UNCHANGED <<configVars, paused, handles, values, pump, overtaken>>

(***************************************************************************)
(* stackTrace and evaluate test that the program is stopped; scopes and    *)
(* variables do not.                                                       *)
(***************************************************************************)
AdmitInspection ==
    /\ reader = "idle"
    /\ paused
    /\ reader' = "inspecting"
    /\ UNCHANGED <<sessionVars, configVars, paused, handles, action, values, pump, overtaken>>

Inspect ==
    /\ reader = "inspecting"
    /\ ServeRequest(S)
    /\ reader' = "idle"
    /\ UNCHANGED <<configVars, paused, handles, action, values, pump, overtaken>>

AddHandle(kind) ==
    /\ Len(handles) < MaxHandles
    /\ handles' = Append(handles, kind)

OnScopes ==
    /\ reader = "idle"
    /\ AddHandle("locals")
    /\ UNCHANGED <<sessionVars, configVars, paused, readerVars, pump, overtaken>>

LookUp(h) ==
    IF h = "locals" THEN reader' = "variables" /\ UNCHANGED values
                    ELSE reader' = "expanding" /\ values' = h

\* The handle is looked up under refMu and used after it.
OnVariables ==
    /\ reader = "idle"
    /\ \E i \in DOMAIN handles : LookUp(handles[i])
    /\ UNCHANGED <<sessionVars, configVars, paused, handles, action, pump, overtaken>>

\* Session.Variables runs on the program's goroutine, at the present stop.
ReadVariables ==
    /\ reader = "variables"
    /\ ServeRequest(S)
    /\ reader' = "rendering"
    /\ values' = "fresh"
    /\ UNCHANGED <<configVars, paused, handles, action, pump, overtaken>>

\* expand reads the table on the reader's goroutine.
Expand ==
    /\ reader = "expanding"
    /\ reader' = "rendering"
    /\ UNCHANGED <<sessionVars, configVars, paused, handles, action, values, pump, overtaken>>

\* Each table among the values gets a handle of its own, whatever the pump has
\* done since they were read.
RenderVariable ==
    /\ reader = "rendering"
    /\ \/ AddHandle(values) /\ UNCHANGED <<reader, values>>
       \/ reader' = "idle" /\ values' = "fresh" /\ UNCHANGED handles
    /\ UNCHANGED <<sessionVars, configVars, paused, action, pump, overtaken>>

(***************************************************************************)
(* disconnect releases the program if it is paused at that moment.         *)
(***************************************************************************)
OnDisconnect ==
    /\ reader = "idle"
    /\ reader' = IF paused THEN "disconnecting" ELSE "closed"
    /\ UNCHANGED <<sessionVars, configVars, paused, handles, action, values, pump, overtaken>>

ClearForDetach ==
    /\ reader = "disconnecting"
    /\ ClearBreakpoints(S)
    /\ paused' = FALSE
    /\ reader' = "detaching"
    /\ UNCHANGED <<configVars, handles, action, values, pump, overtaken>>

Detach ==
    /\ reader = "detaching"
    /\ ServeDetach(S)
    /\ reader' = "closed"
    /\ UNCHANGED <<configVars, paused, handles, action, values, pump, overtaken>>

-----------------------------------------------------------------------------
(***************************************************************************)
(* The pump.                                                               *)
(***************************************************************************)
ReceiveStop ==
    /\ pump = "select"
    /\ OfferStop(S)
    /\ handles' = [i \in DOMAIN handles |-> IF handles[i] = "locals" THEN "locals" ELSE "stale"]
    /\ values' = IF reader \in {"expanding", "rendering"} THEN "stale" ELSE "fresh"
    /\ pump' = "received"
    /\ UNCHANGED <<configVars, paused, reader, action, overtaken>>

\* Mutant: the handles of the last stop stay.
HandlesKept == handles

HandlesReset == <<>>

ResetHandles ==
    /\ pump = "received"
    /\ handles' = HandlesReset
    /\ overtaken' = (values = "stale")
    /\ pump' = "reset"
    /\ UNCHANGED <<sessionVars, configVars, paused, readerVars>>

SetPaused ==
    /\ pump = "reset"
    /\ paused' = TRUE
    /\ pump' = "flagged"
    /\ UNCHANGED <<sessionVars, configVars, handles, readerVars, overtaken>>

\* Mutant: the pump reports one stop only.
AfterEventReturn == "gone"

AfterEvent == "select"

SendStopped ==
    /\ pump = "flagged"
    /\ pump' = AfterEvent
    /\ UNCHANGED <<sessionVars, configVars, paused, handles, readerVars, overtaken>>

ReceiveResult ==
    /\ pump = "select"
    /\ OfferResult(S)
    /\ pump' = "ended"
    /\ UNCHANGED <<configVars, paused, handles, readerVars, overtaken>>

SendTerminated ==
    /\ pump = "ended"
    /\ paused' = FALSE
    /\ pump' = "gone"
    /\ UNCHANGED <<sessionVars, configVars, handles, readerVars, overtaken>>

-----------------------------------------------------------------------------

\* A request arrives: the client's choice.
Request ==
    \/ OnLaunch
    \/ ConfigurationDone
    \/ \E src \in Sources, lines \in SUBSET Lines : OnSetBreakpoints(src, lines)
    \/ OnPause
    \/ \E act \in Modes : AdmitResume(act)
    \/ AdmitInspection
    \/ OnScopes
    \/ OnVariables
    \/ OnDisconnect

ReaderStep ==
    \/ ClearPaused
    \/ SendResume
    \/ Inspect
    \/ ReadVariables
    \/ Expand
    \/ RenderVariable
    \/ ClearForDetach
    \/ Detach

PumpStep ==
    \/ ReceiveStop
    \/ ResetHandles
    \/ SetPaused
    \/ SendStopped
    \/ ReceiveResult
    \/ SendTerminated

RunProgram ==
    /\ ProgramStep(S)
    /\ UNCHANGED <<configVars, paused, handles, readerVars, pump, overtaken>>

Next == Request \/ ReaderStep \/ PumpStep \/ RunProgram

\* The Go scheduler runs every goroutine that can run.  Nothing is assumed of
\* the client, and a program need not end.
Fairness == WF_vars(ReaderStep) /\ WF_vars(PumpStep) /\ WF_vars(RunProgram)

Spec == Init /\ [][Next]_vars /\ Fairness

-----------------------------------------------------------------------------

(***************************************************************************)
(* The paused flag is set and tested on different goroutines than the one  *)
(* it describes: while it is set, and while a request admitted by it is    *)
(* still to be sent, the program is parked, so that the request is served. *)
(* No handle made before the stop it reports is left, unless the reader    *)
(* was working with a value of an earlier stop when the pump reset them:   *)
(* `variables' does not test the flag, and what it adds then is stale.     *)
(***************************************************************************)
NoStaleHandle == \A i \in DOMAIN handles : handles[i] # "stale"

PausedTellsTruth ==
    /\ paused => vm[S] = "parked" /\ (~overtaken => NoStaleHandle)
    /\ reader \in {"admitted", "cleared", "inspecting", "disconnecting", "detaching"}
         => vm[S] = "parked"

(***************************************************************************)
(* The program runs with the breakpoints the client set, whether they came *)
(* before or after it started, until disconnect clears them.               *)
(***************************************************************************)
BreakpointsApplied ==
    vm[S] \notin {"none", "detached", "ended", "collected"} /\ reader # "detaching"
        => bps[S] = stored

(***************************************************************************)
(* Every stop of the program is reported with the flag set, and its end is *)
(* reported, whatever the client does meanwhile.                           *)
(***************************************************************************)
StopsAndEndReported ==
    /\ vm[S] = "stopping" ~> paused
    /\ vm[S] = "ended" ~> pump = "gone"

(***************************************************************************)
(* A resume, an inspection or a disconnect that was admitted is completed. *)
(***************************************************************************)
AdmittedIsServed ==
    reader \in {"admitted", "cleared", "inspecting", "disconnecting", "detaching"}
        ~> reader \in {"idle", "closed"}

(***************************************************************************)
(* A value handed to a front end "is valid only while the program is       *)
(* paused at the stop the Var was read from"                               *)
(* (src/lua/debug_session_driver.go, Var): the fields of a table are read  *)
(* only while the program is parked.                                       *)
(***************************************************************************)
RawReadWhileParked == reader = "expanding" => vm[S] = "parked"

(***************************************************************************)
(* "variablesReference handles (reset each stop)" (adapter.go:57): once    *)
(* the flag is set every handle is of the stop that set it.                *)
(***************************************************************************)
HandlesOfThisStop == paused => NoStaleHandle
=============================================================================
