----------------------------- MODULE McpServer ------------------------------
(***************************************************************************)
(* The MCP debug server, src/debugmcp/server.go and tools.go.  The HTTP    *)
(* handler calls HandleMessage once per request, so the tool calls of      *)
(* several clients run concurrently.  A handler takes the server's lock    *)
(* for a moment, reads or changes the server's state, and uses what it     *)
(* read after it has released the lock: each stretch between two lock,     *)
(* channel or session operations is one action, and `pc' says where a call *)
(* is between them.  The control tools (launch, continue, step) wait for   *)
(* the program without the lock.                                           *)
(*                                                                         *)
(* A call that fails its test under the lock answers with an error and     *)
(* changes nothing, so it is not a step.  Source texts, the table of       *)
(* inline sources, rendering and the JSON around them are left out; so are *)
(* initialize, ping, tools/list and get_source, which change no state the  *)
(* other tools read.                                                       *)
(***************************************************************************)
EXTENDS DebugSession, FiniteSets, Functions

CONSTANTS Clients

None == 0

VARIABLES
    state,     \* Server.state
    sess,      \* Server.sess
    done,      \* Server.done: the session whose result channel it is
    lastStop,  \* Server.lastStop
    stored,    \* Server.bps: breakpoints for the sources that were ever set
    pc,        \* where each client's tool call is
    on,        \* the handler's local `sess'
    result,    \* the handler's local `done'
    pending,   \* SetBreakpoints calls the handler still has to make
    action,    \* the resume action the handler was called with
    overlap    \* history: sources two calls were setting at once

serverVars == <<state, sess, done, lastStop, stored>>
callVars == <<pc, on, result, pending, action>>
vars == <<sessionVars, serverVars, callVars, overlap>>

\* Functions from some of the sources to sets of lines.
BreakpointTables == UNION {[S -> SUBSET Lines] : S \in SUBSET Sources}

EmptyTable == [x \in {} |-> {}]

\* Where a launch, continue or step can be: they own stateRunning.
ControlPoints == {"launching", "storing", "waiting",
                  "stopped", "finished", "resuming"}

Points == ControlPoints \cup {"idle", "applying", "pausing", "inspecting"}

\* Shape of the server's state and of the handlers' locals.
TypeOK ==
    /\ SessionTypeOK
    /\ state \in {"idle", "running", "paused", "finished"}
    /\ sess \in Sessions \cup {None}
    /\ done \in Sessions \cup {None}
    /\ lastStop \in Places \cup {Nowhere}
    /\ stored \in BreakpointTables
    /\ pc \in [Clients -> Points]
    /\ on \in [Clients -> Sessions \cup {None}]
    /\ result \in [Clients -> Sessions \cup {None}]
    /\ pending \in [Clients -> BreakpointTables]
    /\ action \in [Clients -> Modes]
    /\ overlap \subseteq Sources

Init ==
    /\ SessionInit
    /\ state = "idle"
    /\ sess = None
    /\ done = None
    /\ lastStop = Nowhere
    /\ stored = EmptyTable
    /\ pc = [c \in Clients |-> "idle"]
    /\ on = [c \in Clients |-> None]
    /\ result = [c \in Clients |-> None]
    /\ pending = [c \in Clients |-> EmptyTable]
    /\ action = [c \in Clients |-> "run"]
    /\ overlap = {}

-----------------------------------------------------------------------------

\* The call returns: its locals are gone.
Return(c) ==
    /\ pc' = [pc EXCEPT ![c] = "idle"]
    /\ on' = [on EXCEPT ![c] = None]
    /\ result' = [result EXCEPT ![c] = None]
    /\ action' = [action EXCEPT ![c] = "run"]
    /\ UNCHANGED pending

Goto(c, point) == pc' = [pc EXCEPT ![c] = point]

With(table, src, lines) ==
    [x \in DOMAIN table \cup {src} |-> IF x = src THEN lines ELSE table[x]]

(***************************************************************************)
(* set_breakpoints: stored under the lock, applied to the session after.   *)
(***************************************************************************)

\* Mutant: breakpoints are applied only while a control call is under way.
LiveSessionIfRunning == IF state = "running" THEN sess ELSE None

LiveSession == sess

StoreBreakpoints(c, src, lines) ==
    /\ pc[c] = "idle"
    /\ stored' = With(stored, src, lines)
    /\ IF LiveSession = None
         THEN UNCHANGED <<callVars, overlap>>
         ELSE /\ Goto(c, "applying")
              /\ on' = [on EXCEPT ![c] = sess]
              /\ pending' = [pending EXCEPT ![c] = With(EmptyTable, src, lines)]
              /\ overlap' = IF \E d \in Clients : on[d] = sess /\ src \in DOMAIN pending[d]
                              THEN overlap \cup {src} ELSE overlap
              /\ UNCHANGED <<result, action>>
    /\ UNCHANGED <<sessionVars, state, sess, done, lastStop>>

\* One SetBreakpoints call of set_breakpoints or of launch.
ApplyBreakpoints(c) ==
    \E src \in DOMAIN pending[c] :
        /\ SetBreakpoints(on[c], src, pending[c][src])
        /\ pending' = [pending EXCEPT ![c] = Restrict(@, DOMAIN @ \ {src})]
        /\ IF pc[c] = "applying"
             THEN /\ Goto(c, "idle")
                  /\ on' = [on EXCEPT ![c] = None]
             ELSE UNCHANGED <<pc, on>>
        /\ UNCHANGED <<serverVars, result, action, overlap>>

(***************************************************************************)
(* launch.                                                                 *)
(***************************************************************************)

\* Mutant: a paused program does not prevent a launch.
MayLaunchUnlessRunning == state # "running"

MayLaunch == state \notin {"running", "paused"}

Launch(c) ==
    /\ pc[c] = "idle"
    /\ MayLaunch
    /\ \E s \in Sessions :
         /\ NewSession(s)
         /\ sess' = s
         /\ on' = [on EXCEPT ![c] = s]
    /\ pending' = [pending EXCEPT ![c] = stored]
    /\ state' = "running"
    /\ Goto(c, "launching")
    /\ overlap' = {}
    /\ UNCHANGED <<done, lastStop, stored, result, action>>

StartProgram(c) ==
    /\ pc[c] = "launching"
    /\ DOMAIN pending[c] = {}
    /\ Start(on[c])
    /\ result' = [result EXCEPT ![c] = on[c]]
    /\ Goto(c, "storing")
    /\ UNCHANGED <<serverVars, on, pending, action, overlap>>

\* Mutant: the channel Start returned is kept in the handler only.
ChannelForgotten(c) == done

ChannelOf(c) == result[c]

StoreDone(c) ==
    /\ pc[c] = "storing"
    /\ done' = ChannelOf(c)
    /\ Goto(c, "waiting")
    /\ UNCHANGED <<sessionVars, state, sess, lastStop, stored, on, result, pending,
                   action, overlap>>

(***************************************************************************)
(* waitFor: a select over the session's stops and its result, then the     *)
(* outcome recorded under the lock.                                        *)
(***************************************************************************)
ReceiveStop(c) ==
    /\ pc[c] = "waiting"
    /\ OfferStop(on[c])
    /\ Goto(c, "stopped")
    /\ UNCHANGED <<serverVars, on, result, pending, action, overlap>>

RecordStop(c) ==
    /\ pc[c] = "stopped"
    /\ lastStop' = at[on[c]]
    /\ state' = "paused"
    /\ Return(c)
    /\ UNCHANGED <<sessionVars, sess, done, stored, overlap>>

ReceiveResult(c) ==
    /\ pc[c] = "waiting"
    /\ result[c] # None
    /\ OfferResult(result[c])
    /\ Goto(c, "finished")
    /\ UNCHANGED <<serverVars, on, result, pending, action, overlap>>

RecordFinish(c) ==
    /\ pc[c] = "finished"
    /\ state' = "finished"
    /\ Return(c)
    /\ UNCHANGED <<sessionVars, sess, done, lastStop, stored, overlap>>

(***************************************************************************)
(* continue, step_into, step_over, step_out.                               *)
(***************************************************************************)
ClaimResume(c, act) ==
    /\ pc[c] = "idle"
    /\ state = "paused"
    /\ state' = "running"
    /\ on' = [on EXCEPT ![c] = sess]
    /\ result' = [result EXCEPT ![c] = done]
    /\ action' = [action EXCEPT ![c] = act]
    /\ Goto(c, "resuming")
    /\ UNCHANGED <<sessionVars, sess, done, lastStop, stored, pending, overlap>>

SendResume(c) ==
    /\ pc[c] = "resuming"
    /\ ServeResume(on[c], action[c])
    /\ Goto(c, "waiting")
    /\ UNCHANGED <<serverVars, on, result, pending, action, overlap>>

(***************************************************************************)
(* pause, and the inspections stack, variables and evaluate.               *)
(***************************************************************************)
ReadSession(c) ==
    /\ pc[c] = "idle"
    /\ sess # None
    /\ on' = [on EXCEPT ![c] = sess]
    /\ Goto(c, "pausing")
    /\ UNCHANGED <<sessionVars, serverVars, result, pending, action, overlap>>

RequestPause(c) ==
    /\ pc[c] = "pausing"
    /\ Pause(on[c])
    /\ Return(c)
    /\ UNCHANGED <<serverVars, overlap>>

PausedSession(c) ==
    /\ pc[c] = "idle"
    /\ state = "paused"
    /\ on' = [on EXCEPT ![c] = sess]
    /\ Goto(c, "inspecting")
    /\ UNCHANGED <<sessionVars, serverVars, result, pending, action, overlap>>

Inspect(c) ==
    /\ pc[c] = "inspecting"
    /\ ServeRequest(on[c])
    /\ Return(c)
    /\ UNCHANGED <<serverVars, overlap>>

-----------------------------------------------------------------------------

\* A tool call begins: the client's choice.
BeginCall(c) ==
    \/ \E src \in Sources, lines \in SUBSET Lines : StoreBreakpoints(c, src, lines)
    \/ Launch(c)
    \/ \E act \in Modes : ClaimResume(c, act)
    \/ ReadSession(c)
    \/ PausedSession(c)

\* A tool call goes on: the handler's goroutine.
HandlerStep(c) ==
    \/ ApplyBreakpoints(c)
    \/ StartProgram(c)
    \/ StoreDone(c)
    \/ ReceiveStop(c)
    \/ RecordStop(c)
    \/ ReceiveResult(c)
    \/ RecordFinish(c)
    \/ SendResume(c)
    \/ RequestPause(c)
    \/ Inspect(c)

RunProgram(s) ==
    /\ ProgramStep(s)
    /\ UNCHANGED <<serverVars, callVars, overlap>>

Next ==
    \/ \E c \in Clients : BeginCall(c) \/ HandlerStep(c)
    \/ \E s \in Sessions : RunProgram(s)

(***************************************************************************)
(* The Go scheduler runs every goroutine that can run.  The program keeps  *)
(* reaching lines of its main thread however often it resumes coroutines,  *)
(* because a loop's back edge is a line event, and a resume comes back.    *)
(***************************************************************************)
Fairness ==
    /\ \A c \in Clients : WF_vars(HandlerStep(c))
    /\ \A s \in Sessions :
         /\ WF_vars(RunProgram(s))
         /\ SF_vars(LineEvent(s) /\ UNCHANGED <<serverVars, callVars, overlap>>)

Spec == Init /\ [][Next]_vars

FairSpec == Spec /\ Fairness

-----------------------------------------------------------------------------

ControlCalls == {c \in Clients : pc[c] \in ControlPoints}

(***************************************************************************)
(* The server's state word describes the program although nobody holds the *)
(* lock while the program runs: it says paused only while the program is   *)
(* parked at the stop last reported, with its result channel at hand, and  *)
(* finished only when the result was received; a resume that was admitted  *)
(* finds the program parked, so sending it cannot block.                   *)
(***************************************************************************)
StateTellsTruth ==
    /\ state = "paused" => vm[sess] = "parked" /\ lastStop = at[sess] /\ done = sess
    /\ state = "finished" => vm[sess] = "collected"
    /\ \A c \in Clients : pc[c] = "resuming" => vm[on[c]] = "parked"

(***************************************************************************)
(* stateRunning is a lock: exactly one launch, continue or step is under   *)
(* way while it is set and none otherwise; that call works on the current  *)
(* session and its result; and no program of an earlier session is left    *)
(* running or parked behind it.                                            *)
(***************************************************************************)
OneController ==
    /\ Cardinality(ControlCalls) = (IF state = "running" THEN 1 ELSE 0)
    /\ \A c \in ControlCalls : on[c] = sess
    /\ \A c \in ControlCalls : pc[c] = "waiting" => result[c] = sess
    /\ \A s \in Sessions : s # sess => vm[s] \in {"none", "collected"}

(***************************************************************************)
(* Once no call is still setting a source's breakpoints, the session has   *)
(* the lines that were stored last for it, whatever launches and runs went *)
(* on meanwhile, provided no two calls were setting that source at once.   *)
(***************************************************************************)
BreakpointsLive ==
    \A src \in Sources \ overlap :
        \/ sess = None
        \/ \E c \in Clients : on[c] = sess /\ src \in DOMAIN pending[c]
        \/ bps[sess][src] = (IF src \in DOMAIN stored THEN stored[src] ELSE {})

(***************************************************************************)
(* A pause that reaches the session while a control call waits for the     *)
(* program makes that call return, in every step mode and whatever stop or *)
(* end it races with.                                                      *)
(***************************************************************************)
PauseInterrupts ==
    \A c \in Clients :
        (pc[c] = "waiting" /\ pauseReq[on[c]]) ~> pc[c] # "waiting"

(***************************************************************************)
(* HandleMessage is "safe for concurrent calls" and inspection "must run   *)
(* only while paused (the VM is parked then)": an inspection that was      *)
(* admitted never waits for a program that has ended, which will not       *)
(* receive its request any more.                                           *)
(***************************************************************************)
InspectionHasProgram ==
    \A c \in Clients :
        pc[c] = "inspecting" => vm[on[c]] \notin {"ended", "collected"}
=============================================================================
