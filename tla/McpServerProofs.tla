-------------------------- MODULE McpServerProofs ---------------------------
(***************************************************************************)
(* Proofs about McpServer, for any number of concurrent clients, launches, *)
(* sources, lines and frames: the state word, which is tested and set      *)
(* under a lock nobody holds while the program runs, describes the program *)
(* and admits one control call at a time.                                  *)
(***************************************************************************)
EXTENDS McpServer, DebugSessionProofs, FiniteSetTheorems

\* The program of a session whose control call waits for it.
Live == Underway \cup {"stopping", "ended"}

ServerType ==
    /\ state \in {"idle", "running", "paused", "finished"}
    /\ sess \in Sessions \cup {None}
    /\ done \in Sessions \cup {None}
    /\ lastStop \in Places \cup {Nowhere}
    /\ stored \in BreakpointTables

CallType ==
    /\ pc \in [Clients -> Points]
    /\ on \in [Clients -> Sessions \cup {None}]
    /\ result \in [Clients -> Sessions \cup {None}]
    /\ pending \in [Clients -> BreakpointTables]
    /\ action \in [Clients -> Modes]
    /\ overlap \subseteq Sources

\* stateRunning is held by one control call, which works on the session.
Owner ==
    /\ \A c \in Clients : pc[c] \in ControlPoints =>
           state = "running" /\ on[c] = sess
    /\ \A c, d \in Clients : pc[c] \in ControlPoints /\ pc[d] \in ControlPoints => c = d
    /\ state = "running" => \E c \in Clients : pc[c] \in ControlPoints

\* What the holder knows of the program at each point.
HolderKnows ==
    \A c \in Clients :
        /\ pc[c] = "launching" => vm[sess] = "new"
        /\ pc[c] \in {"storing", "waiting"} => vm[sess] \in Live
        /\ pc[c] \in {"stopped", "resuming"} => vm[sess] = "parked"
        /\ pc[c] = "finished" => vm[sess] = "collected"
        /\ pc[c] \in {"storing", "waiting", "resuming"} => result[c] = sess
        /\ pc[c] \in {"waiting", "stopped", "resuming"} => done = sess

\* What everybody knows when nobody holds it.
WordKnows ==
    /\ state = "idle" <=> sess = None
    /\ state = "paused" => vm[sess] = "parked" /\ lastStop = at[sess] /\ done = sess
    /\ state = "finished" => vm[sess] = "collected"
    /\ \A s \in Sessions : s # sess => vm[s] \in {"none", "collected"}

\* Only calls that set breakpoints have some to set, and a session a call
\* refers to was created.
Locals ==
    \A c \in Clients :
        /\ pc[c] \notin {"applying", "launching"} => DOMAIN pending[c] = {}
        /\ pc[c] = "idle" => on[c] = None
        /\ on[c] # None => vm[on[c]] # "none"
        /\ pc[c] = "applying" =>
               on[c] # None /\ \E src \in Sources : DOMAIN pending[c] = {src}

\* A call that still has to set a source of the present session.
Setting(c, src) == on[c] = sess /\ src \in DOMAIN pending[c]

\* A source that no two calls set at once is pending with its last value.
LastValue ==
    /\ \A s \in Sessions : vm[s] = "none" => bps[s] = [x \in Sources |-> {}]
    /\ \A src \in Sources \ overlap, c \in Clients : Setting(c, src) =>
           /\ src \in DOMAIN stored /\ pending[c][src] = stored[src]
           /\ \A d \in Clients : Setting(d, src) => d = c

Inv == /\ SessionInv /\ ServerType /\ CallType
       /\ Owner /\ HolderKnows /\ WordKnows /\ Locals

LEMMA NoneIsNone == None \notin Sessions
BY BoundsAssumption DEF None, Sessions

LEMMA InitInv == Init => Inv /\ LastValue /\ BreakpointsLive
<1> SUFFICES ASSUME Init PROVE Inv /\ LastValue /\ BreakpointsLive
    OBVIOUS
<1>1. SessionInv
    BY SessionInitInv DEF Init
<1>2. EmptyTable \in BreakpointTables /\ DOMAIN EmptyTable = {}
    BY SMTT(30) DEF EmptyTable, BreakpointTables
<1>3. ServerType /\ CallType
    BY <1>2 DEF Init, ServerType, CallType, Points, ControlPoints, Modes
<1>4. Owner /\ HolderKnows /\ WordKnows /\ Locals
    BY <1>2 DEF Init, SessionInit, Owner, HolderKnows, WordKnows, Locals, ControlPoints
<1>5. LastValue /\ BreakpointsLive
    BY <1>2 DEF Init, SessionInit, LastValue, BreakpointsLive, Setting
<1> QED
    BY <1>1, <1>3, <1>4, <1>5 DEF Inv

-----------------------------------------------------------------------------
(* Tables of breakpoints. *)

LEMMA WithTable ==
    ASSUME NEW t \in BreakpointTables, NEW src \in Sources, NEW lines \in SUBSET Lines
    PROVE  /\ With(t, src, lines) \in BreakpointTables
           /\ DOMAIN With(t, src, lines) = DOMAIN t \cup {src}
           /\ With(t, src, lines)[src] = lines
           /\ \A x \in DOMAIN t : x # src => With(t, src, lines)[x] = t[x]
<1>1. PICK D \in SUBSET Sources : t \in [D -> SUBSET Lines]
    BY DEF BreakpointTables
<1>2. With(t, src, lines) \in [D \cup {src} -> SUBSET Lines]
    BY <1>1 DEF With
<1>3. D \cup {src} \in SUBSET Sources
    OBVIOUS
<1>4. With(t, src, lines) \in BreakpointTables
    BY <1>2, <1>3 DEF BreakpointTables
<1> QED
    BY <1>1, <1>4 DEF With

LEMMA RestrictTable ==
    ASSUME NEW t \in BreakpointTables, NEW src
    PROVE  /\ Restrict(t, DOMAIN t \ {src}) \in BreakpointTables
           /\ DOMAIN Restrict(t, DOMAIN t \ {src}) = DOMAIN t \ {src}
           /\ \A x \in DOMAIN t \ {src} : Restrict(t, DOMAIN t \ {src})[x] = t[x]
<1>1. PICK D \in SUBSET Sources : t \in [D -> SUBSET Lines]
    BY DEF BreakpointTables
<1>2. Restrict(t, D \ {src}) \in [D \ {src} -> SUBSET Lines]
    BY <1>1 DEF Restrict
<1>3. D \ {src} \in SUBSET Sources
    OBVIOUS
<1> QED
    BY <1>1, <1>2, <1>3 DEF BreakpointTables, Restrict

LEMMA TableValues ==
    ASSUME NEW t \in BreakpointTables
    PROVE  DOMAIN t \subseteq Sources /\ \A x \in DOMAIN t : t[x] \in SUBSET Lines
BY DEF BreakpointTables

LEMMA EmptyTableType == EmptyTable \in BreakpointTables /\ DOMAIN EmptyTable = {}
BY DEF EmptyTable, BreakpointTables

-----------------------------------------------------------------------------
(* One step of a call keeps the invariant. *)

LEMMA StoreBreakpointsInv ==
    ASSUME Inv, NEW c \in Clients, NEW src \in Sources, NEW lines \in SUBSET Lines,
           StoreBreakpoints(c, src, lines)
    PROVE  Inv'
<1> USE NoneIsNone
<1>1. /\ UNCHANGED <<sessionVars, state, sess, done, lastStop>>
      /\ stored' = With(stored, src, lines) /\ pc[c] = "idle"
    BY DEF StoreBreakpoints
<1>2. SessionInv' /\ vm' = vm /\ at' = at
    BY <1>1, SessionKeeps DEF Inv
<1>3. ServerType'
    BY <1>1, WithTable DEF Inv, ServerType
<1>4. CASE sess = None
    BY <1>1, <1>2, <1>3, <1>4 DEF StoreBreakpoints, LiveSession, callVars, Inv, CallType,
           Owner, HolderKnows, WordKnows, Locals
<1>5. CASE sess # None
    <2> DEFINE new == With(EmptyTable, src, lines)
    <2>1. new \in BreakpointTables /\ DOMAIN new = {src}
        BY WithTable, EmptyTableType
    <2> HIDE DEF new
    <2>2. /\ pc' = [pc EXCEPT ![c] = "applying"]
          /\ on' = [on EXCEPT ![c] = sess]
          /\ pending' = [pending EXCEPT ![c] = new]
          /\ overlap' \in {overlap, overlap \cup {src}}
          /\ UNCHANGED <<result, action>>
        BY <1>5 DEF StoreBreakpoints, LiveSession, Goto, new
    <2>3. CallType'
        BY <2>1, <2>2 DEF Inv, CallType, ServerType, Points
    <2>4. vm[sess] # "none"
        BY <1>5 DEF Inv, WordKnows, Owner, HolderKnows, ServerType, Live, Underway, ControlPoints
    <2>5. Owner' /\ HolderKnows'
        BY <1>1, <1>2, <2>2 DEF Inv, CallType, Owner, HolderKnows, ControlPoints
    <2>6. WordKnows'
        BY <1>1, <1>2 DEF Inv, WordKnows
    <2>7. Locals'
        BY <1>1, <1>2, <1>5, <2>1, <2>2, <2>4 DEF Inv, CallType, Locals
    <2> QED
        BY <1>2, <1>3, <2>3, <2>5, <2>6, <2>7 DEF Inv
<1> QED
    BY <1>4, <1>5

LEMMA ApplyBreakpointsInv ==
    ASSUME Inv, NEW c \in Clients, ApplyBreakpoints(c)
    PROVE  Inv'
<1> USE NoneIsNone
<1>1. PICK src \in DOMAIN pending[c] :
        /\ SetBreakpoints(on[c], src, pending[c][src])
        /\ pending' = [pending EXCEPT ![c] = Restrict(@, DOMAIN @ \ {src})]
        /\ IF pc[c] = "applying"
             THEN pc' = [pc EXCEPT ![c] = "idle"] /\ on' = [on EXCEPT ![c] = None]
             ELSE UNCHANGED <<pc, on>>
        /\ UNCHANGED <<serverVars, result, action, overlap>>
    BY DEF ApplyBreakpoints, Goto
<1> DEFINE rest == Restrict(pending[c], DOMAIN pending[c] \ {src})
<1>2. /\ src \in Sources /\ pending[c][src] \in SUBSET Lines
      /\ rest \in BreakpointTables /\ DOMAIN rest = DOMAIN pending[c] \ {src}
    BY TableValues, RestrictTable DEF Inv, CallType
<1>3. pending' = [pending EXCEPT ![c] = rest]
    BY <1>1
<1> HIDE DEF rest
<1>4. pc[c] \in {"applying", "launching"} /\ on[c] \in Sessions
    BY DEF Inv, Locals, Owner, HolderKnows, WordKnows, CallType, ServerType, ControlPoints
<1>5. SessionInv' /\ vm' = vm /\ at' = at
    BY <1>1, <1>2, <1>4, ControlKeeps DEF Inv
<1>6. ServerType' /\ WordKnows'
    BY <1>1, <1>5 DEF Inv, ServerType, WordKnows, serverVars
<1>7. CallType'
    BY <1>1, <1>2, <1>3 DEF Inv, CallType, Points
<1>8. Owner' /\ HolderKnows'
    BY <1>1, <1>4, <1>5 DEF Inv, CallType, Owner, HolderKnows, ControlPoints, serverVars
<1>9. Locals'
    <2>1. pc[c] = "applying" => DOMAIN rest = {}
        BY <1>2 DEF Inv, Locals
    <2> QED
        BY <1>1, <1>3, <1>4, <1>5, <2>1 DEF Inv, CallType, Locals
<1> QED
    BY <1>5, <1>6, <1>7, <1>8, <1>9 DEF Inv

LEMMA LaunchInv ==
    ASSUME Inv, NEW c \in Clients, Launch(c)
    PROVE  Inv'
<1> USE NoneIsNone
<1>1. PICK s \in Sessions :
         /\ NewSession(s)
         /\ sess' = s
         /\ on' = [on EXCEPT ![c] = s]
    BY DEF Launch
<1>2. /\ pc[c] = "idle" /\ state \in {"idle", "finished"}
      /\ pending' = [pending EXCEPT ![c] = stored]
      /\ state' = "running"
      /\ pc' = [pc EXCEPT ![c] = "launching"]
      /\ overlap' = {}
      /\ UNCHANGED <<done, lastStop, stored, result, action>>
    BY DEF Launch, MayLaunch, Goto, Inv, ServerType
<1>3. SessionInv' /\ vm[s] = "none" /\ vm' = [vm EXCEPT ![s] = "new"]
    BY <1>1, NewSessionMoves DEF Inv, NewSession
<1>4. /\ vm'[s] = "new" /\ \A u \in Sessions : u # s => vm'[u] = vm[u]
    BY <1>3 DEF Inv, SessionInv, SessionTypeOK
<1>5. ServerType' /\ CallType'
    BY <1>1, <1>2 DEF Inv, ServerType, CallType, Points, ControlPoints
<1>6. \A d \in Clients : pc[d] \notin ControlPoints
    BY <1>2 DEF Inv, Owner
<1>7. Owner' /\ HolderKnows'
    BY <1>1, <1>2, <1>4, <1>6 DEF Inv, CallType, Owner, HolderKnows, ControlPoints
<1>8. WordKnows'
    BY <1>1, <1>2, <1>4 DEF Inv, WordKnows, ServerType
<1>9. Locals'
    BY <1>1, <1>2, <1>4 DEF Inv, Locals, CallType
<1> QED
    BY <1>3, <1>5, <1>7, <1>8, <1>9 DEF Inv

\* The steps of the control call c: it holds stateRunning and works on sess.
LEMMA Holder ==
    ASSUME Inv, NEW c \in Clients, pc[c] \in ControlPoints
    PROVE  /\ state = "running" /\ on[c] = sess /\ sess \in Sessions
           /\ \A d \in Clients : d # c => pc[d] \notin ControlPoints
BY DEF Inv, Owner, WordKnows, ServerType

\* The session moves under the holder, who knows where it now is.
LEMMA HolderMoves ==
    ASSUME Inv, NEW c \in Clients, pc[c] \in ControlPoints,
           SessionInv', vm' = [vm EXCEPT ![sess] = vm'[sess]], vm'[sess] # "none",
           UNCHANGED <<serverVars, on, pending, action, overlap>>,
           pc' = [pc EXCEPT ![c] = pc'[c]], pc'[c] \in ControlPoints \ {"launching"},
           result' \in [Clients -> Sessions \cup {None}],
           HolderKnows',
           DOMAIN pending[c] = {}
    PROVE  Inv'
<1> USE NoneIsNone
<1>1. /\ state = "running" /\ on[c] = sess /\ sess \in Sessions
      /\ \A d \in Clients : d # c => pc[d] \notin ControlPoints
    BY Holder
<1>2. ServerType' /\ CallType'
    BY DEF Inv, ServerType, CallType, serverVars, Points
<1>3. Owner'
    BY <1>1 DEF Inv, Owner, CallType, serverVars
<1>4. WordKnows'
    BY <1>1 DEF Inv, WordKnows, serverVars, SessionInv, SessionTypeOK
<1>5. Locals'
    BY <1>1 DEF Inv, Locals, serverVars, SessionInv, SessionTypeOK, CallType, ControlPoints
<1> QED
    BY <1>2, <1>3, <1>4, <1>5 DEF Inv
LEMMA ControlInv ==
    ASSUME Inv, NEW c \in Clients,
           StartProgram(c) \/ ReceiveStop(c) \/ ReceiveResult(c) \/ SendResume(c)
    PROVE  Inv'
<1> USE NoneIsNone DEF ControlPoints
<1>1. CASE StartProgram(c)
    <2>1. pc[c] = "launching" /\ on[c] = sess /\ sess \in Sessions
        BY <1>1, Holder DEF StartProgram
    <2>2. SessionInv'
        BY <1>1, <2>1, NewSessionMoves DEF Inv, StartProgram
    <2>3. /\ vm' = [vm EXCEPT ![sess] = "running"] /\ vm'[sess] = "running"
          /\ result' = [result EXCEPT ![c] = sess]
          /\ pc' = [pc EXCEPT ![c] = "storing"] /\ DOMAIN pending[c] = {}
          /\ UNCHANGED <<serverVars, on, pending, action, overlap>>
        BY <1>1, <2>1 DEF StartProgram, Start, Goto, Inv, SessionInv, SessionTypeOK
    <2>4. HolderKnows'
        BY <2>1, <2>3, Holder DEF Inv, HolderKnows, CallType, serverVars, Live, Underway
    <2> QED
        BY <2>1, <2>2, <2>3, <2>4, HolderMoves DEF Inv, CallType, ServerType
<1>2. CASE ReceiveStop(c)
    <2>1. pc[c] = "waiting" /\ on[c] = sess /\ sess \in Sessions
        BY <1>2, Holder DEF ReceiveStop
    <2>2. SessionInv' /\ Moves(sess, "parked")
        BY <1>2, <2>1, OfferStopMoves DEF Inv, ReceiveStop
    <2>3. /\ vm' = [vm EXCEPT ![sess] = "parked"] /\ vm'[sess] = "parked"
          /\ pc' = [pc EXCEPT ![c] = "stopped"] /\ DOMAIN pending[c] = {}
          /\ UNCHANGED <<serverVars, on, result, pending, action, overlap>>
        BY <1>2, <2>1, <2>2 DEF ReceiveStop, Moves, Goto, Inv, SessionInv, SessionTypeOK, Locals
    <2>4. HolderKnows'
        BY <2>1, <2>3, Holder DEF Inv, HolderKnows, CallType, serverVars, Live, Underway
    <2> QED
        BY <2>1, <2>2, <2>3, <2>4, HolderMoves DEF Inv, CallType
<1>3. CASE ReceiveResult(c)
    <2>1. pc[c] = "waiting" /\ on[c] = sess /\ sess \in Sessions /\ result[c] = sess
        BY <1>3, Holder DEF ReceiveResult, Inv, HolderKnows
    <2>2. SessionInv' /\ Moves(sess, "collected")
        BY <1>3, <2>1, OfferResultMoves DEF Inv, ReceiveResult
    <2>3. /\ vm' = [vm EXCEPT ![sess] = "collected"] /\ vm'[sess] = "collected"
          /\ pc' = [pc EXCEPT ![c] = "finished"] /\ DOMAIN pending[c] = {}
          /\ UNCHANGED <<serverVars, on, result, pending, action, overlap>>
        BY <1>3, <2>1, <2>2 DEF ReceiveResult, Moves, Goto, Inv, SessionInv, SessionTypeOK, Locals
    <2>4. HolderKnows'
        BY <2>1, <2>3, Holder DEF Inv, HolderKnows, CallType, serverVars, Live, Underway
    <2> QED
        BY <2>1, <2>2, <2>3, <2>4, HolderMoves DEF Inv, CallType
<1>4. CASE SendResume(c)
    <2>1. pc[c] = "resuming" /\ on[c] = sess /\ sess \in Sessions /\ action[c] \in Modes
        BY <1>4, Holder DEF SendResume, Inv, CallType
    <2>2. SessionInv' /\ Moves(sess, "running")
        BY <1>4, <2>1, ResumeMoves DEF Inv, SendResume
    <2>3. /\ vm' = [vm EXCEPT ![sess] = "running"] /\ vm'[sess] = "running"
          /\ pc' = [pc EXCEPT ![c] = "waiting"] /\ DOMAIN pending[c] = {}
          /\ UNCHANGED <<serverVars, on, result, pending, action, overlap>>
        BY <1>4, <2>1, <2>2 DEF SendResume, Moves, Goto, Inv, SessionInv, SessionTypeOK, Locals
    <2>4. HolderKnows'
        BY <2>1, <2>3, Holder DEF Inv, HolderKnows, CallType, serverVars, Live, Underway
    <2> QED
        BY <2>1, <2>2, <2>3, <2>4, HolderMoves DEF Inv, CallType
<1> QED
    BY <1>1, <1>2, <1>3, <1>4

\* The holder records the outcome and lets go of stateRunning.
LEMMA RecordInv ==
    ASSUME Inv, NEW c \in Clients, RecordStop(c) \/ RecordFinish(c)
    PROVE  Inv'
<1> USE NoneIsNone
<1>1. /\ pc[c] \in ControlPoints \ {"launching"} /\ state = "running"
      /\ on[c] = sess /\ sess \in Sessions
      /\ \A d \in Clients : d # c => pc[d] \notin ControlPoints
    BY Holder DEF RecordStop, RecordFinish, ControlPoints
<1>2. /\ UNCHANGED <<sessionVars, sess, done, stored, overlap, pending>>
      /\ pc' = [pc EXCEPT ![c] = "idle"]
      /\ on' = [on EXCEPT ![c] = None]
      /\ result' = [result EXCEPT ![c] = None]
      /\ action' = [action EXCEPT ![c] = "run"]
      /\ \/ pc[c] = "stopped" /\ lastStop' = at[sess] /\ state' = "paused"
         \/ pc[c] = "finished" /\ lastStop' = lastStop /\ state' = "finished"
    BY <1>1 DEF RecordStop, RecordFinish, Return
<1>3. SessionInv' /\ vm' = vm /\ at' = at
    BY <1>2, SessionKeeps DEF Inv
<1>4. ServerType'
    BY <1>1, <1>2 DEF Inv, ServerType, SessionInv, SessionTypeOK
<1>5. CallType'
    BY <1>2 DEF Inv, CallType, Points, Modes
<1>6. Owner' /\ HolderKnows'
    BY <1>1, <1>2 DEF Inv, CallType, Owner, HolderKnows, ControlPoints
<1>7. WordKnows'
    BY <1>1, <1>2, <1>3 DEF Inv, WordKnows, HolderKnows
<1>8. Locals'
    BY <1>1, <1>2, <1>3 DEF Inv, CallType, Locals, ControlPoints
<1> QED
    BY <1>3, <1>4, <1>5, <1>6, <1>7, <1>8 DEF Inv

LEMMA StoreDoneInv ==
    ASSUME Inv, NEW c \in Clients, StoreDone(c)
    PROVE  Inv'
<1>1. /\ pc[c] = "storing" /\ state = "running" /\ on[c] = sess /\ sess \in Sessions
      /\ result[c] = sess
      /\ \A d \in Clients : d # c => pc[d] \notin ControlPoints
    BY Holder DEF StoreDone, ControlPoints, Inv, HolderKnows
<1>2. /\ done' = sess /\ pc' = [pc EXCEPT ![c] = "waiting"]
      /\ UNCHANGED <<sessionVars, state, sess, lastStop, stored, on, result, pending,
                     action, overlap>>
    BY <1>1 DEF StoreDone, ChannelOf, Goto
<1>3. SessionInv' /\ vm' = vm /\ at' = at
    BY <1>2, SessionKeeps DEF Inv
<1>4. ServerType' /\ CallType'
    BY <1>1, <1>2 DEF Inv, ServerType, CallType, Points, ControlPoints
<1>5. Owner' /\ HolderKnows'
    BY <1>1, <1>2, <1>3 DEF Inv, CallType, Owner, HolderKnows, ControlPoints
<1>6. WordKnows' /\ Locals'
    BY <1>1, <1>2, <1>3 DEF Inv, CallType, WordKnows, Locals
<1> QED
    BY <1>3, <1>4, <1>5, <1>6 DEF Inv

LEMMA ClaimResumeInv ==
    ASSUME Inv, NEW c \in Clients, NEW act \in Modes, ClaimResume(c, act)
    PROVE  Inv'
<1> USE NoneIsNone
<1>1. /\ pc[c] = "idle" /\ state = "paused" /\ state' = "running"
      /\ on' = [on EXCEPT ![c] = sess]
      /\ result' = [result EXCEPT ![c] = done]
      /\ action' = [action EXCEPT ![c] = act]
      /\ pc' = [pc EXCEPT ![c] = "resuming"]
      /\ UNCHANGED <<sessionVars, sess, done, lastStop, stored, pending, overlap>>
    BY DEF ClaimResume, Goto
<1>2. SessionInv' /\ vm' = vm /\ at' = at
    BY <1>1, SessionKeeps DEF Inv
<1>3. /\ vm[sess] = "parked" /\ done = sess /\ sess \in Sessions
      /\ \A d \in Clients : pc[d] \notin ControlPoints
    BY <1>1 DEF Inv, WordKnows, Owner, ServerType
<1>4. ServerType' /\ CallType'
    BY <1>1 DEF Inv, ServerType, CallType, Points, ControlPoints
<1>5. Owner' /\ HolderKnows'
    BY <1>1, <1>2, <1>3 DEF Inv, CallType, Owner, HolderKnows, ControlPoints
<1>6. WordKnows' /\ Locals'
    BY <1>1, <1>2, <1>3 DEF Inv, CallType, WordKnows, Locals
<1> QED
    BY <1>2, <1>4, <1>5, <1>6 DEF Inv

\* pause and the inspections hold nothing.
LEMMA VisitorInv ==
    ASSUME Inv, NEW c \in Clients,
           ReadSession(c) \/ RequestPause(c) \/ PausedSession(c) \/ Inspect(c)
    PROVE  Inv'
<1> USE NoneIsNone
<1>1. CASE ReadSession(c) \/ PausedSession(c)
    <2>1. /\ pc[c] = "idle" /\ sess # None
          /\ on' = [on EXCEPT ![c] = sess]
          /\ \E p \in {"pausing", "inspecting"} : pc' = [pc EXCEPT ![c] = p]
          /\ UNCHANGED <<sessionVars, serverVars, result, pending, action, overlap>>
        BY <1>1 DEF ReadSession, PausedSession, Goto, Inv, WordKnows
    <2>2. SessionInv' /\ vm' = vm /\ at' = at
        BY <2>1, SessionKeeps DEF Inv
    <2>3. ServerType' /\ CallType'
        BY <2>1 DEF Inv, ServerType, CallType, Points, serverVars
    <2>4. vm[sess] # "none"
        BY <2>1 DEF Inv, WordKnows, Owner, HolderKnows, ServerType, Live, Underway, ControlPoints
    <2>5. Owner' /\ HolderKnows'
        BY <2>1, <2>2 DEF Inv, CallType, Owner, HolderKnows, ControlPoints, serverVars
    <2>6. WordKnows' /\ Locals'
        BY <2>1, <2>2, <2>4 DEF Inv, CallType, WordKnows, Locals, serverVars
    <2> QED
        BY <2>2, <2>3, <2>5, <2>6 DEF Inv
<1>2. CASE RequestPause(c) \/ Inspect(c)
    <2>1. /\ pc[c] \in {"pausing", "inspecting"}
          /\ pc' = [pc EXCEPT ![c] = "idle"]
          /\ on' = [on EXCEPT ![c] = None]
          /\ result' = [result EXCEPT ![c] = None]
          /\ action' = [action EXCEPT ![c] = "run"]
          /\ UNCHANGED <<serverVars, pending, overlap>>
        BY <1>2 DEF RequestPause, Inspect, Return
    <2>2. SessionInv' /\ vm' = vm /\ at' = at
        <3>1. CASE RequestPause(c)
            BY <3>1 DEF RequestPause, Pause, Inv, SessionInv, SessionTypeOK, Held
        <3>2. CASE Inspect(c)
            BY <3>2, SessionKeeps DEF Inspect, ServeRequest, Inv
        <3> QED
            BY <1>2, <3>1, <3>2
    <2>3. ServerType' /\ CallType'
        BY <2>1 DEF Inv, ServerType, CallType, Points, Modes, serverVars
    <2>4. Owner' /\ HolderKnows'
        BY <2>1, <2>2 DEF Inv, CallType, Owner, HolderKnows, ControlPoints, serverVars
    <2>5. WordKnows' /\ Locals'
        BY <2>1, <2>2 DEF Inv, CallType, WordKnows, Locals, serverVars
    <2> QED
        BY <2>2, <2>3, <2>4, <2>5 DEF Inv
<1> QED
    BY <1>1, <1>2

\* Only the present session's program runs, and only while a control call
\* waits for it.
LEMMA RunProgramInv ==
    ASSUME Inv, NEW s \in Sessions, RunProgram(s)
    PROVE  Inv' /\ bps' = bps /\ s = sess /\ vm[s] # "none" /\ vm'[s] # "none"
           /\ vm' = [vm EXCEPT ![s] = vm'[s]]
<1> USE NoneIsNone
<1>1. /\ SessionInv'
      /\ \/ /\ vm[s] \in Underway
            /\ \E q \in Underway \cup {"stopping", "ended"} : Moves(s, q)
         \/ vm[s] = "detached" /\ Moves(s, "ended")
      /\ \A u \in Sessions \ {s} : at'[u] = at[u]
    BY ProgramMoves DEF Inv, RunProgram
<1>2. UNCHANGED <<serverVars, callVars, overlap>>
    BY DEF RunProgram
<1>3. vm[s] \in Underway \cup {"detached"}
    BY <1>1
<1>4. s = sess
    BY <1>3 DEF Inv, WordKnows, Underway
<1>5. vm[s] \in Underway /\ state = "running"
    BY <1>3, <1>4 DEF Inv, WordKnows, Owner, HolderKnows, ServerType, Live, Underway, ControlPoints
<1>6. vm'[s] \in Live /\ bps' = bps /\ vm' = [vm EXCEPT ![s] = vm'[s]]
    BY <1>1, <1>5 DEF Moves, Live, Underway, Inv, SessionInv, SessionTypeOK
<1>7. ServerType' /\ CallType'
    BY <1>2 DEF Inv, ServerType, CallType, serverVars, callVars
<1>8. Owner' /\ HolderKnows'
    BY <1>2, <1>4, <1>5, <1>6 DEF Inv, CallType, Owner, HolderKnows, serverVars, callVars, Live, Underway
<1>9. WordKnows' /\ Locals'
    BY <1>2, <1>4, <1>5, <1>6 DEF Inv, CallType, WordKnows, Locals, serverVars, callVars,
           SessionInv, SessionTypeOK, Live, Underway
<1> QED
    BY <1>1, <1>4, <1>5, <1>6, <1>7, <1>8, <1>9 DEF Inv, Live, Underway

LEMMA InvStep ==
    ASSUME Inv, [Next]_vars
    PROVE  Inv'
<1>1. CASE UNCHANGED vars
    <2>1. SessionInv' /\ vm' = vm /\ at' = at
        BY <1>1, SessionKeeps DEF Inv, vars
    <2> QED
        BY <1>1, <2>1 DEF vars, Inv, ServerType, CallType, Owner, HolderKnows, WordKnows,
                          Locals, serverVars, callVars
<1>2. ASSUME NEW c \in Clients, BeginCall(c) \/ HandlerStep(c)
      PROVE  Inv'
    BY <1>2, StoreBreakpointsInv, ApplyBreakpointsInv, LaunchInv, ControlInv, RecordInv,
       StoreDoneInv, ClaimResumeInv, VisitorInv DEF BeginCall, HandlerStep
<1> QED
    BY <1>1, <1>2, RunProgramInv DEF Next
-----------------------------------------------------------------------------
(* Breakpoints. *)

BreakpointInv == LastValue /\ BreakpointsLive

\* Steps of calls that have no breakpoints to set.
LEMMA OthersKeepBreakpoints ==
    ASSUME Inv, BreakpointInv,
           UNCHANGED <<sess, stored, pending, overlap, bps>>,
           \A s \in Sessions : vm'[s] = "none" => vm[s] = "none",
           \A d \in Clients : DOMAIN pending[d] # {} => on'[d] = on[d]
    PROVE  BreakpointInv'
<1>1. \A d \in Clients, src \in Sources : Setting(d, src)' <=> Setting(d, src)
    BY DEF Setting
<1>2. LastValue'
    BY <1>1 DEF BreakpointInv, LastValue
<1>3. BreakpointsLive'
    BY <1>1 DEF BreakpointInv, BreakpointsLive, Setting
<1> QED
    BY <1>2, <1>3 DEF BreakpointInv

LEMMA StoreBreakpointsLive ==
    ASSUME Inv, BreakpointInv,
           NEW c \in Clients, NEW src \in Sources, NEW lines \in SUBSET Lines,
           StoreBreakpoints(c, src, lines)
    PROVE  BreakpointInv'
<1> USE NoneIsNone
<1>1. /\ vm' = vm /\ bps' = bps /\ sess' = sess
      /\ pc[c] = "idle" /\ stored' = With(stored, src, lines)
    BY DEF StoreBreakpoints, sessionVars
<1>2. /\ src \in DOMAIN stored' /\ stored'[src] = lines
      /\ \A x \in Sources : x # src =>
            (x \in DOMAIN stored' <=> x \in DOMAIN stored)
            /\ (x \in DOMAIN stored => stored'[x] = stored[x])
    <2>1. stored \in BreakpointTables
        BY DEF Inv, ServerType
    <2>2. /\ DOMAIN stored' = DOMAIN stored \cup {src} /\ stored'[src] = lines
          /\ \A x \in DOMAIN stored : x # src => stored'[x] = stored[x]
        BY <1>1, <2>1, WithTable
    <2> QED
        BY <2>2
<1>3. DOMAIN pending[c] = {}
    BY <1>1 DEF Inv, Locals
<1>4. CASE sess = None
    <2>1. \A d \in Clients : on[d] = None => DOMAIN pending[d] = {}
        BY <1>4 DEF Inv, Locals, Owner, WordKnows, ControlPoints
    <2>2. UNCHANGED <<on, pending>> /\ overlap' = overlap
        BY <1>4 DEF StoreBreakpoints, LiveSession, callVars
    <2> QED
        BY <1>1, <1>4, <2>1, <2>2 DEF BreakpointInv, LastValue, BreakpointsLive, Setting
<1>5. CASE sess # None
    <2> DEFINE new == With(EmptyTable, src, lines)
    <2>1. DOMAIN new = {src} /\ new[src] = lines
        BY WithTable, EmptyTableType
    <2> HIDE DEF new
    <2>2. /\ on' = [on EXCEPT ![c] = sess]
          /\ pending' = [pending EXCEPT ![c] = new]
          /\ overlap' = IF \E d \in Clients : Setting(d, src)
                           THEN overlap \cup {src} ELSE overlap
        BY <1>5 DEF StoreBreakpoints, LiveSession, new, Setting
    <2>3. /\ on'[c] = sess /\ pending'[c] = new
          /\ \A d \in Clients : d # c => on'[d] = on[d] /\ pending'[d] = pending[d]
        BY <2>2 DEF Inv, CallType
    <2>4. \A d \in Clients, x \in Sources :
             Setting(d, x)' <=> (d = c /\ x = src) \/ (d # c /\ Setting(d, x))
        BY <1>1, <2>1, <2>3 DEF Setting
    <2>5. \A d \in Clients, x \in Sources : Setting(d, x) => d # c
        BY <1>3 DEF Setting
    <2>6. \A x \in Sources \ overlap' :
             x \notin overlap /\ (x = src => \A d \in Clients : ~Setting(d, src))
        BY <2>2
    <2>7. LastValue'
        <3> SUFFICES ASSUME NEW x \in Sources \ overlap', NEW d \in Clients, Setting(d, x)'
                     PROVE  /\ x \in DOMAIN stored' /\ pending'[d][x] = stored'[x]
                            /\ \A e \in Clients : Setting(e, x)' => e = d
            BY <1>1 DEF BreakpointInv, LastValue
        <3>1. CASE x = src
            BY <1>2, <2>1, <2>3, <2>4, <2>6, <3>1
        <3>2. CASE x # src
            BY <1>2, <2>3, <2>4, <2>6, <3>2 DEF BreakpointInv, LastValue
        <3> QED
            BY <3>1, <3>2
    <2>8. BreakpointsLive'
        <3> SUFFICES ASSUME NEW x \in Sources \ overlap', ~\E d \in Clients : Setting(d, x)'
                     PROVE  bps'[sess'][x] = IF x \in DOMAIN stored' THEN stored'[x] ELSE {}
            BY DEF BreakpointsLive, Setting
        <3>1. x # src /\ ~\E d \in Clients : Setting(d, x)
            BY <2>4, <2>5
        <3> QED
            BY <1>1, <1>2, <1>5, <2>6, <3>1 DEF BreakpointInv, BreakpointsLive, Setting
    <2> QED
        BY <2>7, <2>8 DEF BreakpointInv
<1> QED
    BY <1>4, <1>5

LEMMA ApplyBreakpointsLive ==
    ASSUME Inv, BreakpointInv, NEW c \in Clients, ApplyBreakpoints(c)
    PROVE  BreakpointInv'
<1> USE NoneIsNone
<1>1. PICK src \in DOMAIN pending[c] :
        /\ bps' = [bps EXCEPT ![on[c]][src] = pending[c][src]]
        /\ vm' = vm
        /\ pending' = [pending EXCEPT ![c] = Restrict(@, DOMAIN @ \ {src})]
        /\ IF pc[c] = "applying"
             THEN on' = [on EXCEPT ![c] = None]
             ELSE UNCHANGED on
        /\ UNCHANGED <<serverVars, overlap>>
    BY DEF ApplyBreakpoints, SetBreakpoints
<1> DEFINE rest == Restrict(pending[c], DOMAIN pending[c] \ {src})
<1>2. /\ src \in Sources
      /\ DOMAIN rest = DOMAIN pending[c] \ {src}
      /\ \A x \in DOMAIN rest : rest[x] = pending[c][x]
    BY TableValues, RestrictTable, ZenonT(60) DEF Inv, CallType
<1>3. pending'[c] = rest /\ \A d \in Clients : d # c => pending'[d] = pending[d] /\ on'[d] = on[d]
    BY <1>1 DEF Inv, CallType
<1> HIDE DEF rest
<1>4. pc[c] \in {"applying", "launching"} /\ on[c] \in Sessions
    BY DEF Inv, Locals, Owner, HolderKnows, WordKnows, CallType, ServerType, ControlPoints
<1>5. \A d \in Clients, x \in Sources :
         Setting(d, x)' <=> Setting(d, x) /\ ~(d = c /\ x = src)
    <2>1. pc[c] = "applying" => DOMAIN rest = {}
        BY <1>2 DEF Inv, Locals
    <2>2. sess' = sess /\ (pc[c] # "applying" => on' = on)
        BY <1>1 DEF serverVars
    <2>3. ASSUME NEW x \in Sources, pc[c] = "applying"
          PROVE  Setting(c, x)' <=> Setting(c, x) /\ x # src
        BY <1>2, <1>3, <2>1, <2>3 DEF Setting
    <2>4. ASSUME NEW x \in Sources, pc[c] # "applying"
          PROVE  Setting(c, x)' <=> Setting(c, x) /\ x # src
        BY <1>2, <1>3, <2>2, <2>4 DEF Setting
    <2> QED
        BY <1>3, <2>2, <2>3, <2>4 DEF Setting
<1>6. /\ \A s \in Sessions, x \in Sources : 
            bps'[s][x] = IF s = on[c] /\ x = src THEN pending[c][src] ELSE bps[s][x]
      /\ \A s \in Sessions : s # on[c] => bps'[s] = bps[s]
    BY <1>1, <1>2, <1>4 DEF Inv, SessionInv, SessionTypeOK
<1>7. LastValue'
    <2>1. \A s \in Sessions : vm'[s] = "none" => bps'[s] = [x \in Sources |-> {}]
        BY <1>1, <1>4, <1>6 DEF Inv, Locals, BreakpointInv, LastValue
    <2>2. \A d \in Clients, x \in Sources : Setting(d, x)' => pending'[d][x] = pending[d][x]
        BY <1>2, <1>3 DEF Setting
    <2>3. stored' = stored /\ overlap' = overlap
        BY <1>1 DEF serverVars
    <2>4. ASSUME NEW x \in Sources \ overlap', NEW d \in Clients, Setting(d, x)'
          PROVE  /\ x \in DOMAIN stored' /\ pending'[d][x] = stored'[x]
                 /\ \A e \in Clients : Setting(e, x)' => e = d
        BY <1>5, <2>2, <2>3, <2>4 DEF BreakpointInv, LastValue
    <2> QED
        BY <2>1, <2>4 DEF LastValue
<1>8. BreakpointsLive'
    <2> SUFFICES ASSUME NEW x \in Sources \ overlap, ~\E d \in Clients : Setting(d, x)',
                        sess # None
                 PROVE  bps'[sess][x] = IF x \in DOMAIN stored THEN stored[x] ELSE {}
        BY <1>1 DEF BreakpointsLive, Setting, serverVars
    <2>1. sess \in Sessions
        BY DEF Inv, ServerType
    <2>2. CASE Setting(c, src) /\ x = src
        BY <1>6, <2>1, <2>2 DEF BreakpointInv, LastValue, Setting
    <2>3. CASE ~(Setting(c, src) /\ x = src)
        <3>1. ~\E d \in Clients : Setting(d, x)
            BY <1>5, <2>3
        <3>2. bps[sess][x] = IF x \in DOMAIN stored THEN stored[x] ELSE {}
            BY <3>1 DEF BreakpointInv, BreakpointsLive, Setting
        <3>3. ~(sess = on[c] /\ x = src)
            BY <2>3 DEF Setting
        <3> QED
            BY <1>6, <2>1, <3>2, <3>3
    <2> QED
        BY <2>2, <2>3
<1> QED
    BY <1>7, <1>8 DEF BreakpointInv

LEMMA LaunchLive ==
    ASSUME Inv, BreakpointInv, NEW c \in Clients, Launch(c)
    PROVE  BreakpointInv'
<1> USE NoneIsNone
<1>1. PICK s \in Sessions :
         /\ vm[s] = "none" /\ vm' = [vm EXCEPT ![s] = "new"] /\ bps' = bps
         /\ sess' = s
         /\ on' = [on EXCEPT ![c] = s]
    BY DEF Launch, NewSession
<1>2. pending' = [pending EXCEPT ![c] = stored] /\ stored' = stored /\ overlap' = {}
    BY DEF Launch
<1>3. \A d \in Clients, x \in Sources : Setting(d, x)' <=> d = c /\ x \in DOMAIN stored
    <2>1. \A d \in Clients : d # c => on'[d] # s
        BY <1>1 DEF Inv, CallType, Locals
    <2> QED
        BY <1>1, <1>2, <2>1 DEF Setting, Inv, CallType
<1>4. pending'[c] = stored /\ vm'[s] = "new" /\ \A u \in Sessions : u # s => vm'[u] = vm[u]
    BY <1>1, <1>2 DEF Inv, CallType, SessionInv, SessionTypeOK
<1>5. LastValue'
    BY <1>1, <1>2, <1>3, <1>4 DEF BreakpointInv, LastValue
<1>6. BreakpointsLive'
    <2> SUFFICES ASSUME NEW x \in Sources, ~\E d \in Clients : Setting(d, x)'
                 PROVE  bps'[s][x] = IF x \in DOMAIN stored THEN stored[x] ELSE {}
        BY <1>1, <1>2 DEF BreakpointsLive, Setting
    <2> QED
        BY <1>1, <1>3 DEF BreakpointInv, LastValue
<1> QED
    BY <1>5, <1>6 DEF BreakpointInv

LEMMA BreakpointStep ==
    ASSUME Inv, BreakpointInv, [Next]_vars
    PROVE  BreakpointInv'
<1>1. CASE UNCHANGED vars
    BY <1>1, OthersKeepBreakpoints DEF vars, sessionVars, serverVars, callVars
<1>2. ASSUME NEW c \in Clients, BeginCall(c) \/ HandlerStep(c)
      PROVE  BreakpointInv'
    <2>1. CASE \E src \in Sources, lines \in SUBSET Lines : StoreBreakpoints(c, src, lines)
        BY <2>1, StoreBreakpointsLive
    <2>2. CASE ApplyBreakpoints(c)
        BY <2>2, ApplyBreakpointsLive
    <2>3. CASE Launch(c)
        BY <2>3, LaunchLive
    <2>4. CASE \/ StartProgram(c) \/ ReceiveStop(c) \/ ReceiveResult(c) \/ SendResume(c)
               \/ StoreDone(c)
        <3>1. UNCHANGED <<sess, stored, pending, overlap, bps, on>>
            BY <2>4 DEF StartProgram, ReceiveStop, ReceiveResult, SendResume, StoreDone,
                   Start, OfferStop, OfferResult, ServeResume, serverVars, sessionVars
        <3>2. \E s : \E q \in {"running", "parked", "collected", vm[s]} :
                  vm' = [vm EXCEPT ![s] = q]
            BY <2>4 DEF StartProgram, ReceiveStop, ReceiveResult, SendResume, StoreDone,
                   Start, OfferStop, OfferResult, ServeResume, sessionVars, Inv, SessionInv, SessionTypeOK
        <3>3. \A s \in Sessions : vm'[s] = "none" => vm[s] = "none"
            BY <3>2 DEF Inv, SessionInv, SessionTypeOK
        <3> QED
            BY <3>1, <3>3, OthersKeepBreakpoints
    <2>5. CASE RecordStop(c) \/ RecordFinish(c) \/ RequestPause(c) \/ Inspect(c)
        <3>1. /\ UNCHANGED <<sess, stored, pending, overlap, bps, vm>>
              /\ on' = [on EXCEPT ![c] = None] /\ pc[c] \notin {"applying", "launching"}
            BY <2>5 DEF RecordStop, RecordFinish, RequestPause, Inspect, Pause, ServeRequest,
                   Return, serverVars, sessionVars
        <3> QED
            BY <3>1, OthersKeepBreakpoints DEF Inv, Locals, CallType
    <2>6. CASE ReadSession(c) \/ PausedSession(c) \/ \E act \in Modes : ClaimResume(c, act)
        <3>1. /\ UNCHANGED <<sess, stored, pending, overlap, bps, vm>>
              /\ on' = [on EXCEPT ![c] = sess] /\ pc[c] = "idle"
            BY <2>6 DEF ReadSession, PausedSession, ClaimResume, serverVars, sessionVars
        <3> QED
            BY <3>1, OthersKeepBreakpoints DEF Inv, Locals, CallType
    <2> QED
        BY <1>2, <2>1, <2>2, <2>3, <2>4, <2>5, <2>6 DEF BeginCall, HandlerStep
<1>3. ASSUME NEW s \in Sessions, RunProgram(s)
      PROVE  BreakpointInv'
    <2>1. /\ bps' = bps /\ vm'[s] # "none" /\ vm' = [vm EXCEPT ![s] = vm'[s]]
          /\ UNCHANGED <<sess, stored, pending, overlap, on>>
        BY <1>3, RunProgramInv DEF RunProgram, serverVars, callVars
    <2>2. \A u \in Sessions : vm'[u] = "none" => vm[u] = "none"
        BY <2>1 DEF Inv, SessionInv, SessionTypeOK
    <2> QED
        BY <2>1, <2>2, OthersKeepBreakpoints
<1> QED
    BY <1>1, <1>2, <1>3 DEF Next

-----------------------------------------------------------------------------

LEMMA AlwaysInv == Spec => [](Inv /\ BreakpointInv)
<1>1. Init => Inv /\ BreakpointInv
    BY InitInv DEF BreakpointInv
<1>2. Inv /\ BreakpointInv /\ [Next]_vars => Inv' /\ BreakpointInv'
    BY InvStep, BreakpointStep
<1> QED
    BY <1>1, <1>2, PTL DEF Spec

\* The shapes of Server's fields and of the handlers' locals (server.go, tools.go).
THEOREM TypeCorrect == Spec => []TypeOK
<1>1. Inv => TypeOK
    BY DEF Inv, SessionInv, ServerType, CallType, TypeOK
<1> QED
    BY <1>1, AlwaysInv, PTL

\* The state word is tested under a lock that nobody holds while the program
\* runs: whatever any number of clients do, it says paused or finished only of
\* a program that is, and an admitted resume finds the program parked.
THEOREM WordTellsTruth == Spec => []StateTellsTruth
<1>1. Inv => StateTellsTruth
    BY DEF Inv, StateTellsTruth, WordKnows, HolderKnows, Owner, ControlPoints
<1> QED
    BY <1>1, AlwaysInv, PTL

\* stateRunning works as a lock: one launch, continue or step at a time, on the
\* present session, and no earlier program is left behind (tools.go).
THEOREM ControlIsExclusive == Spec => []OneController
<1>1. ASSUME Inv
      PROVE  OneController
    <2>1. CASE state = "running"
        <3>1. PICK c \in Clients : pc[c] \in ControlPoints
            BY <1>1, <2>1 DEF Inv, Owner
        <3>2. ControlCalls = {c}
            BY <1>1, <3>1 DEF Inv, Owner, ControlCalls
        <3>3. Cardinality(ControlCalls) = 1
            BY <3>2, FS_Singleton
        <3> QED
            BY <1>1, <2>1, <3>3 DEF Inv, Owner, HolderKnows, WordKnows, OneController, ControlCalls
    <2>2. CASE state # "running"
        <3>1. ControlCalls = {}
            BY <1>1, <2>2 DEF Inv, Owner, ControlCalls
        <3>2. Cardinality(ControlCalls) = 0
            BY <3>1, FS_EmptySet
        <3> QED
            BY <1>1, <2>2, <3>1, <3>2 DEF Inv, WordKnows, OneController
    <2> QED
        BY <2>1, <2>2
<1> QED
    BY <1>1, AlwaysInv, PTL

\* Breakpoints are stored under the lock and applied after it; still the
\* session ends up with the lines stored last, through every launch, unless
\* two calls were setting the same source at once.
THEOREM StoredBreakpointsLive == Spec => []BreakpointsLive
<1>1. BreakpointInv => BreakpointsLive
    BY DEF BreakpointInv
<1> QED
    BY <1>1, AlwaysInv, PTL
=============================================================================
