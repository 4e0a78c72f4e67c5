----------------------------- MODULE Coroutine -----------------------------
(***************************************************************************)
(* Coroutines of one Lua State (lua/lcorolib.go, with the call boundary,   *)
(* to-be-closed variables and protected calls of lua/ldo.go and            *)
(* lua/lauxlib.go).                                                        *)
(*                                                                         *)
(* A coroutine is first driven synchronously on its resumer's goroutine    *)
(* (coSyncActive): a yield unwinds the Go stack with a panic.  When it     *)
(* reaches a call that recurses in Go and may yield it is promoted: a      *)
(* goroutine of its own takes over and control is handed back and forth    *)
(* on two unbuffered channels, resumeCh and yieldCh.                       *)
(*                                                                         *)
(* Lua code is abstracted to what it can do to this machinery: a thread    *)
(* that executes Lua (at = "lua") may at any time call across a boundary,  *)
(* return, raise, resume, yield, close or register a to-be-closed          *)
(* variable.  A call the library refuses with an error (resume of a dead   *)
(* coroutine, yield across a C-call boundary, C stack overflow ...)        *)
(* changes nothing but raises or returns an error, so it is the action     *)
(* Raise or a stuttering step.                                             *)
(***************************************************************************)
EXTENDS Integers, Sequences, FiniteSets, SequencesExt

CONSTANTS
    Coroutines,       \* the threads made by coroutine.create / wrap
    Main,             \* L.co.mainThread
    NoThread,         \* no thread
    MaxCCalls,        \* cfg.maxCCalls: the limit of nested Go-level calls
    MaxFrames,        \* bound: Go-level frames one thread may nest
    MaxTbc,           \* bound: pending to-be-closed variables of one thread
    RecoverGoPanics,  \* L.recoverGoPanics (protected mode)
    Behaviours        \* what the Lua program does besides the ordinary:
                      \*   "closeYield": yields in a __close handler run by
                      \*                 coroutine.close or by a dying
                      \*                 coroutine that was never promoted
                      \*   "gcTbc":      declares a <close> variable in __gc
                      \*   "goPanic":    calls a Go callback that panics

Threads == Coroutines \cup {Main}

ASSUME ThreadAssumption == Main \notin Coroutines /\ NoThread \notin Threads
ASSUME BoundAssumption ==
    /\ MaxCCalls \in Nat \ {0} /\ MaxFrames \in Nat /\ MaxTbc \in Nat
    /\ RecoverGoPanics \in BOOLEAN
    /\ Behaviours \subseteq {"closeYield", "gcTbc", "goPanic"}

VARIABLES
    status,        \* LState.status; "none" before newThread
    coSyncActive,  \* LState.coSyncActive: driven on the resumer's goroutine
    promoted,      \* LState.promoted: has a goroutine of its own
    nCcalls,       \* LState.nCcalls
    frames,        \* the Go-level frames of the thread, innermost last
    tbc,           \* LState.tbc: for each variable, 1 + the number of frames
                   \* below the function that declared it
    deathErr,      \* LState.deathErr # nil
    at,            \* where the thread's Go code is
    callee,        \* the coroutine this thread is resuming or closing
    misreported    \* history: threads in which pcall(f) failed unrun

mode == <<coSyncActive, promoted>>
goStack == <<nCcalls, frames, tbc>>
record == <<deathErr, misreported>>
vars == <<status, at, callee, mode, goStack, record>>

-----------------------------------------------------------------------------
(* Frames.  A call frame is one activation of LState.call; a close frame   *)
(* is one activation of runCloses and says who ran it.                     *)

CallFrames == {"pcall",     \* protect: pcall, xpcall
               "meta",      \* a metamethod or other unprotected Go call
               "noyield",   \* callNoYield: sort comparator, gsub, hook
               "gc",        \* runGCMetamethod
               "handler"}   \* callClose: one __close handler

CloseFrames == {"scope",    \* closeTBC at scope exit or return
                "rethrow",  \* the same, after a handler has raised
                "unwind",   \* protect, with the error it caught
                "death",    \* resumeSync / coContinue, with the fatal error
                "coclose"}  \* coroutine.close

Frame == CallFrames \cup CloseFrames

(* Where a thread is. *)
Executing == {"lua", "raise", "panic", "closing"}
Sending == {"sendYield", "sendReturn", "sendError"}  \* blocked on yieldCh <-
Holding == Executing \cup Sending \cup {"sendResume", "crash"}
Resting == {"parked",  \* no Go stack: not started, sync-suspended or dead
            "recv",    \* its goroutine is blocked on <-resumeCh
            "gone"}    \* its goroutine has ended
Driving == {"inResume",   \* below a coroutine in resumeSync
            "recvYield",  \* blocked in recvCoMsg
            "inClose"}    \* below the handlers coroutine.close runs
Place == Holding \cup Resting \cup Driving

Without(fs, K) == \A i \in DOMAIN fs : fs[i] \notin K

\* Frame i is the innermost of the kinds in K.
IsInnermost(fs, K, i) ==
    fs[i] \in K /\ \A j \in DOMAIN fs : j > i => fs[j] \notin K

\* L.noYield > 0.
NoYield(t) == ~Without(frames[t], {"noyield", "gc"})

\* A nested call now would have to promote the coroutine.
MustPromote(t) == coSyncActive[t] /\ ~NoYield(t)

\* Calls whose deferred nCcalls-- runs when the frames above i unwind.
CallsAbove(fs, i) ==
    Cardinality({j \in DOMAIN fs : j > i /\ fs[j] \in CallFrames})

Init ==
    /\ status = [t \in Threads |-> IF t = Main THEN "running" ELSE "none"]
    /\ coSyncActive = [t \in Threads |-> FALSE]
    /\ promoted = [t \in Threads |-> FALSE]
    /\ nCcalls = [t \in Threads |-> IF t = Main THEN 1 ELSE 0]
    /\ frames = [t \in Threads |-> <<>>]
    /\ tbc = [t \in Threads |-> <<>>]
    /\ deathErr = [t \in Threads |-> FALSE]
    /\ at = [t \in Threads |-> IF t = Main THEN "lua" ELSE "parked"]
    /\ callee = [t \in Threads |-> NoThread]
    /\ misreported = {}

-----------------------------------------------------------------------------
(* coroutine.create, coroutine.wrap *)

Create(t, co) ==
    /\ at[t] = "lua"
    /\ status[co] = "none"
    /\ status' = [status EXCEPT ![co] = "suspended"]
    /\ UNCHANGED <<at, callee, goStack, mode, record>>

-----------------------------------------------------------------------------
(* Resuming *)

\* Mutants: a coroutine that is not suspended, or is dead, is resumed.
ResumableUnlessDead(co) == status[co] \notin {"none", "dead"}
ResumableEvenDead(co) == status[co] \in {"suspended", "dead"}

Resumable(co) == status[co] = "suspended"

\* Mutant: the resumer is not marked "normal".
HandoverUnmarked(t, co) == [status EXCEPT ![co] = "running"]

Handover(t, co) == [status EXCEPT ![co] = "running", ![t] = "normal"]

\* LState.resume up to the point where the two kinds of coroutine part.
StartResume(t, co) ==
    /\ at[t] = "lua"
    /\ Resumable(co)
    /\ nCcalls[t] < MaxCCalls
    /\ status' = Handover(t, co)
    /\ nCcalls' = [nCcalls EXCEPT ![co] = nCcalls[t] + 1]
    /\ callee' = [callee EXCEPT ![t] = co]

ResumeSync(t, co) ==
    /\ ~promoted[co]
    /\ StartResume(t, co)
    /\ coSyncActive' = [coSyncActive EXCEPT ![co] = TRUE]
    /\ at' = [at EXCEPT ![t] = "inResume", ![co] = "lua"]
    /\ UNCHANGED <<promoted, frames, tbc, record>>

ResumePromoted(t, co) ==
    /\ promoted[co]
    /\ StartResume(t, co)
    /\ at' = [at EXCEPT ![t] = "sendResume"]
    /\ UNCHANGED <<frames, tbc, mode, record>>

\* The rendezvous on resumeCh.
Handoff(t, co) ==
    /\ at[t] = "sendResume" /\ callee[t] = co /\ at[co] = "recv"
    /\ at' = [at EXCEPT ![t] = "recvYield", ![co] = "lua"]
    /\ UNCHANGED <<status, callee, goStack, mode, record>>

\* Mutants: the message kind is stored as the status (both are small integers);
\* a fatal error leaves the status.
MessageKind(t) == at[t]
MessageStatusKept(t) ==
    CASE at[t] = "sendYield" -> "suspended"
      [] at[t] = "sendReturn" -> "dead"
      [] at[t] = "sendError" -> "running"

\* The coroutine's status by the kind of its message.
MessageStatus(t) == IF at[t] = "sendYield" THEN "suspended" ELSE "dead"

\* Mutant: coYieldFn goes on without waiting on resumeCh.
AfterMessageGoesOn(t) == IF at[t] = "sendYield" THEN "lua" ELSE "gone"

\* The sender of a yield goes on to receive from resumeCh; the others end.
AfterMessage(t) == IF at[t] = "sendYield" THEN "recv" ELSE "gone"

\* The rendezvous on yieldCh and the rest of recvCoMsg.  Nothing else runs
\* between the two: the sender only blocks on resumeCh, or ends.
RecvCoMsg(d, t) ==
    /\ at[d] = "recvYield" /\ callee[d] = t /\ at[t] \in Sending
    /\ status' = [status EXCEPT ![d] = "running", ![t] = MessageStatus(t)]
    /\ at' = [at EXCEPT ![d] = "lua", ![t] = AfterMessage(t)]
    /\ callee' = [callee EXCEPT ![d] = NoThread]
    /\ UNCHANGED <<goStack, mode, record>>

-----------------------------------------------------------------------------
(* Calls across a Go-level boundary, and promotion *)

\* Mutant: call does not test for promotion.
AlwaysCrossable(t, k) == TRUE

\* callNoYield and runGCMetamethod raise noYield before they call.
Crossable(t, k) == MustPromote(t) => k \in {"noyield", "gc"}

Enter(t, k) ==
    /\ at[t] = "lua"
    /\ Crossable(t, k)
    /\ nCcalls[t] < MaxCCalls
    /\ Len(frames[t]) < MaxFrames
    /\ frames' = [frames EXCEPT ![t] = Append(@, k)]
    /\ nCcalls' = [nCcalls EXCEPT ![t] = @ + 1]
    /\ UNCHANGED <<status, tbc, at, callee, mode, record>>
\* panic(promoteSig) from call or newtbcupval, caught by resumeSync, which
\* starts coContinue at the rewound instruction and waits for its message.
Promote(t, d) ==
    /\ at[t] = "lua" /\ MustPromote(t)
    /\ callee[d] = t
    /\ coSyncActive' = [coSyncActive EXCEPT ![t] = FALSE]
    /\ promoted' = [promoted EXCEPT ![t] = TRUE]
    /\ at' = [at EXCEPT ![d] = "recvYield"]
    /\ UNCHANGED <<status, callee, goStack, record>>

\* In protected mode the recover of protect (or LState.pcall) takes promoteSig
\* for a Go panic: pcall returns false and its function is never called.
PromotionSwallowed(t) ==
    /\ RecoverGoPanics
    /\ at[t] = "lua" /\ MustPromote(t)
    /\ misreported' = misreported \cup {t}
    /\ UNCHANGED <<status, deathErr, at, callee, goStack, mode>>

RegisterTbc(t) ==
    /\ at[t] = "lua"
    /\ ~MustPromote(t)
    /\ Len(tbc[t]) < MaxTbc /\ Len(frames[t]) <= MaxFrames
    /\ "gcTbc" \in Behaviours \/ Without(frames[t], {"gc"})
    /\ tbc' = [tbc EXCEPT ![t] = Append(@, Len(frames[t]) + 1)]
    /\ UNCHANGED <<status, nCcalls, frames, at, callee, mode, record>>

\* The declaring function of the innermost pending variable is the current one.
OwnsTbc(t) == tbc[t] # <<>> /\ Last(tbc[t]) = Len(frames[t]) + 1

\* A nested call returns; a __close handler returns into runCloses.
Return(t) ==
    /\ at[t] = "lua"
    /\ frames[t] # <<>> /\ ~OwnsTbc(t)
    /\ frames' = [frames EXCEPT ![t] = Front(@)]
    /\ nCcalls' = [nCcalls EXCEPT ![t] = @ - 1]
    /\ at' = [at EXCEPT ![t] =
                IF Last(frames[t]) = "handler" THEN "closing" ELSE "lua"]
    /\ UNCHANGED <<status, tbc, callee, mode, record>>

BodyReturnSync(t, d) ==
    /\ at[t] = "lua" /\ coSyncActive[t] /\ frames[t] = <<>> /\ ~OwnsTbc(t)
    /\ callee[d] = t
    /\ coSyncActive' = [coSyncActive EXCEPT ![t] = FALSE]
    /\ status' = [status EXCEPT ![t] = "dead", ![d] = "running"]
    /\ at' = [at EXCEPT ![t] = "parked", ![d] = "lua"]
    /\ callee' = [callee EXCEPT ![d] = NoThread]
    /\ UNCHANGED <<promoted, goStack, record>>

BodyReturnPromoted(t) ==
    /\ at[t] = "lua" /\ promoted[t] /\ frames[t] = <<>> /\ ~OwnsTbc(t)
    /\ at' = [at EXCEPT ![t] = "sendReturn"]
    /\ UNCHANGED <<status, callee, goStack, mode, record>>

-----------------------------------------------------------------------------
(* Yielding *)

\* t's code runs on a goroutine whose own frames belong to another thread that
\* is not waiting for a message: it closes t, or buries it.
RunByOther(t) == ~coSyncActive[t] /\
    \E d \in Threads : callee[d] = t /\ at[d] \in {"inClose", "inResume"}

\* Mutant: coYieldFn does not test coSyncActive.
AlwaysOnChannel(t) == TRUE

\* Which way coYieldFn hands control back.
OnChannel(t) == ~coSyncActive[t]

MayYield(t) ==
    /\ at[t] = "lua" /\ t # Main /\ ~NoYield(t)
    /\ RunByOther(t) => "closeYield" \in Behaviours

YieldSync(t, d) ==
    /\ MayYield(t) /\ coSyncActive[t]
    /\ callee[d] = t
    /\ coSyncActive' = [coSyncActive EXCEPT ![t] = FALSE]
    /\ status' = [status EXCEPT ![t] = "suspended", ![d] = "running"]
    /\ at' = [at EXCEPT ![t] = "parked", ![d] = "lua"]
    /\ callee' = [callee EXCEPT ![d] = NoThread]
    /\ frames' = [frames EXCEPT ![t] = <<>>]  \* what the panic unwinds
    /\ nCcalls' = [nCcalls EXCEPT ![t] = @ - CallsAbove(frames[t], 0)]
    /\ UNCHANGED <<promoted, tbc, record>>
YieldPromoted(t) ==
    /\ MayYield(t) /\ OnChannel(t)
    /\ at' = [at EXCEPT ![t] = "sendYield"]
    /\ UNCHANGED <<status, callee, goStack, mode, record>>

-----------------------------------------------------------------------------
(* To-be-closed variables: runCloses.  While it runs, the thread's         *)
(* innermost frame is a close frame and at = "closing".                    *)

\* Mutant: the level is one too high.
CloseLevelTooHigh(fs) ==
    CASE Last(fs) \in {"death", "coclose"} -> 1
      [] Last(fs) = "unwind" -> Len(fs) + 1
      [] OTHER -> Len(fs)

\* runCloses(level): it closes the variables above this one.
CloseLevel(fs) ==
    CASE Last(fs) \in {"death", "coclose"} -> 0
      [] Last(fs) = "unwind" -> Len(fs)
      [] OTHER -> Len(fs) - 1

\* The active runCloses has still a variable to close.
Pending(t) == tbc[t] # <<>> /\ Last(tbc[t]) > CloseLevel(frames[t])

\* A handler that raises replaces the pending error; closeTBC re-raises it.
AfterHandlerError(fs) ==
    IF Last(fs) = "scope" THEN Append(Front(fs), "rethrow") ELSE fs

\* One turn of runCloses' loop, in the close frame on top of fs: pop the
\* variable, then call its handler; the call itself raises when the C-call
\* limit is reached.
CallClose(t, fs) ==
    /\ tbc' = [tbc EXCEPT ![t] = Front(@)]
    /\ \/ /\ nCcalls[t] < MaxCCalls
          /\ frames' = [frames EXCEPT ![t] = Append(fs, "handler")]
          /\ nCcalls' = [nCcalls EXCEPT ![t] = @ + 1]
          /\ at' = [at EXCEPT ![t] = "lua"]
       \/ /\ nCcalls[t] >= MaxCCalls
          /\ frames' = [frames EXCEPT ![t] = AfterHandlerError(fs)]
          /\ at' = [at EXCEPT ![t] = "closing"]
          /\ UNCHANGED nCcalls
    /\ UNCHANGED <<status, callee, mode, record>>

\* closeTBC at the end of a block or function.
ScopeExit(t) ==
    /\ at[t] = "lua" /\ OwnsTbc(t)
    /\ Len(frames[t]) <= MaxFrames
    /\ CallClose(t, Append(frames[t], "scope"))

RunClose(t) ==
    /\ at[t] = "closing" /\ Pending(t)
    /\ CallClose(t, frames[t])

\* runCloses returns to closeTBC or to protect.  A scope may end while
\* variables of an enclosing block are pending.
EndClose(t) ==
    /\ at[t] = "closing"
    /\ Last(frames[t]) \in {"scope", "rethrow", "unwind"}
    /\ Pending(t) => Last(frames[t]) = "scope" /\ Last(tbc[t]) = Len(frames[t])
    /\ frames' = [frames EXCEPT ![t] = Front(@)]
    /\ at' = [at EXCEPT ![t] =
                IF Last(frames[t]) = "rethrow" THEN "raise" ELSE "lua"]
    /\ UNCHANGED <<status, nCcalls, tbc, callee, mode, record>>

-----------------------------------------------------------------------------
(* Errors *)

Raise(t) ==
    /\ at[t] = "lua"
    /\ at' = [at EXCEPT ![t] = "raise"]
    /\ UNCHANGED <<status, callee, goStack, mode, record>>

\* The frames of t are cut back to the first i - 1 and then to g.
Unwind(t, i, g) ==
    /\ frames' = [frames EXCEPT ![t] = g]
    /\ nCcalls' = [nCcalls EXCEPT ![t] = @ - CallsAbove(frames[t], i - 1)]
Catchers == {"pcall", "handler", "gc"}

\* protect, callClose or runGCMetamethod recovers the error.
Catch(t) ==
    /\ at[t] = "raise"
    /\ \E i \in DOMAIN frames[t] :
        LET below == SubSeq(frames[t], 1, i - 1) IN
        /\ IsInnermost(frames[t], Catchers, i)
        /\ \/ /\ frames[t][i] = "pcall"
              /\ Unwind(t, i, Append(below, "unwind"))
              /\ at' = [at EXCEPT ![t] = "closing"]
           \/ /\ frames[t][i] = "handler"
              /\ Unwind(t, i, AfterHandlerError(below))
              /\ at' = [at EXCEPT ![t] = "closing"]
           \/ /\ frames[t][i] = "gc"
              /\ Unwind(t, i, below)
              /\ at' = [at EXCEPT ![t] = "lua"]
    /\ UNCHANGED <<status, tbc, callee, mode, record>>

Uncaught(t) == at[t] = "raise" /\ Without(frames[t], Catchers)

\* resumeSync's recover: the resumer is running again before the handlers run.
DieSync(t, d) ==
    /\ Uncaught(t) /\ t # Main /\ ~promoted[t]
    /\ callee[d] = t
    /\ coSyncActive' = [coSyncActive EXCEPT ![t] = FALSE]
    /\ status' = [status EXCEPT ![d] = "running"]
    /\ Unwind(t, 1, <<"death">>)
    /\ at' = [at EXCEPT ![t] = "closing"]
    /\ UNCHANGED <<promoted, tbc, callee, record>>
\* coContinue's recover.
DiePromoted(t) ==
    /\ Uncaught(t) /\ promoted[t]
    /\ Unwind(t, 1, <<"death">>)
    /\ at' = [at EXCEPT ![t] = "closing"]
    /\ UNCHANGED <<status, tbc, callee, mode, record>>
\* The end of resumeSync's error path.
EndDeathSync(t, d) ==
    /\ at[t] = "closing" /\ Last(frames[t]) = "death" /\ ~Pending(t)
    /\ ~promoted[t] /\ callee[d] = t
    /\ status' = [status EXCEPT ![t] = "dead"]
    /\ deathErr' = [deathErr EXCEPT ![t] = TRUE]
    /\ frames' = [frames EXCEPT ![t] = <<>>]
    /\ at' = [at EXCEPT ![t] = "parked", ![d] = "lua"]
    /\ callee' = [callee EXCEPT ![d] = NoThread]
    /\ UNCHANGED <<nCcalls, tbc, misreported, mode>>

\* The end of coContinue's error path.
EndDeathPromoted(t) ==
    /\ at[t] = "closing" /\ Last(frames[t]) = "death" /\ ~Pending(t)
    /\ promoted[t]
    /\ deathErr' = [deathErr EXCEPT ![t] = TRUE]
    /\ frames' = [frames EXCEPT ![t] = <<>>]
    /\ at' = [at EXCEPT ![t] = "sendError"]
    /\ UNCHANGED <<status, nCcalls, tbc, callee, misreported, mode>>

\* LState.pcall at the host: the main thread is back at its base; pending
\* to-be-closed variables are dropped, and the host calls in again.
HostError ==
    /\ Uncaught(Main)
    /\ Unwind(Main, 1, <<>>)
    /\ tbc' = [tbc EXCEPT ![Main] = <<>>]
    /\ at' = [at EXCEPT ![Main] = "lua"]
    /\ UNCHANGED <<status, callee, mode, record>>

-----------------------------------------------------------------------------
(* coroutine.close *)

\* Handlers run on co's stack but on t's goroutine.  If co was promoted, its
\* own goroutine stays blocked on resumeCh for ever.
Close(t, co) ==
    /\ at[t] = "lua"
    /\ status[co] \in {"suspended", "dead"}
    /\ IF tbc[co] # <<>>
       THEN /\ status' = [status EXCEPT ![co] = "running"]
            /\ nCcalls' = [nCcalls EXCEPT ![co] = nCcalls[t] + 1]
            /\ frames' = [frames EXCEPT ![co] = <<"coclose">>]
            /\ at' = [at EXCEPT ![t] = "inClose", ![co] = "closing"]
            /\ callee' = [callee EXCEPT ![t] = co]
            /\ UNCHANGED deathErr
       ELSE /\ status' = [status EXCEPT ![co] = "dead"]
            /\ deathErr' = [deathErr EXCEPT ![co] = FALSE]
            /\ frames' = [frames EXCEPT ![co] = <<>>]
            /\ UNCHANGED <<nCcalls, at, callee>>
    /\ UNCHANGED <<tbc, misreported, mode>>

EndCoClose(t, d) ==
    /\ at[t] = "closing" /\ Last(frames[t]) = "coclose" /\ ~Pending(t)
    /\ callee[d] = t
    /\ status' = [status EXCEPT ![t] = "dead"]
    /\ deathErr' = [deathErr EXCEPT ![t] = FALSE]
    /\ frames' = [frames EXCEPT ![t] = <<>>]
    /\ at' = [at EXCEPT ![t] = "parked", ![d] = "lua"]
    /\ callee' = [callee EXCEPT ![d] = NoThread]
    /\ UNCHANGED <<nCcalls, tbc, misreported, mode>>

-----------------------------------------------------------------------------
(* Panics that are not Lua errors: a registered Go callback panics *)

GoPanic(t) ==
    /\ "goPanic" \in Behaviours
    /\ at[t] = "lua"
    /\ at' = [at EXCEPT ![t] = "panic"]
    /\ UNCHANGED <<status, callee, goStack, mode, record>>

\* Only protect in protected mode and coroutine.close recover it; callClose
\* and runGCMetamethod panic again.
PanicCatchers == {"coclose"} \cup IF RecoverGoPanics THEN {"pcall"} ELSE {}

CatchPanic(t) ==
    /\ at[t] = "panic"
    /\ \E i \in DOMAIN frames[t] :
        LET below == SubSeq(frames[t], 1, i - 1) IN
        /\ IsInnermost(frames[t], PanicCatchers, i)
        /\ \/ /\ frames[t][i] = "pcall"
              /\ Unwind(t, i, Append(below, "unwind"))
              /\ UNCHANGED tbc
           \/ /\ frames[t][i] = "coclose"
              /\ Unwind(t, i, Append(below, "coclose"))
              /\ tbc' = [tbc EXCEPT ![t] = <<>>]
    /\ at' = [at EXCEPT ![t] = "closing"]
    /\ UNCHANGED <<status, callee, mode, record>>

PanicUncaught(t) == at[t] = "panic" /\ Without(frames[t], PanicCatchers)

\* resumeSync panics again in the resumer; the coroutine's status stays.
PanicSync(t, d) ==
    /\ PanicUncaught(t) /\ t # Main /\ ~promoted[t]
    /\ callee[d] = t
    /\ coSyncActive' = [coSyncActive EXCEPT ![t] = FALSE]
    /\ status' = [status EXCEPT ![d] = "running"]
    /\ Unwind(t, 1, <<>>)
    /\ at' = [at EXCEPT ![t] = "parked", ![d] = "panic"]
    /\ callee' = [callee EXCEPT ![d] = NoThread]
    /\ UNCHANGED <<promoted, tbc, record>>

\* coContinue turns it into a Lua error.  A panic in a handler that coContinue
\* itself runs has nothing above it and ends the process.
PanicPromoted(t) ==
    /\ PanicUncaught(t) /\ promoted[t]
    /\ IF frames[t] # <<>> /\ frames[t][1] = "death"
       THEN at' = [at EXCEPT ![t] = "crash"] /\ UNCHANGED <<frames, nCcalls>>
       ELSE at' = [at EXCEPT ![t] = "closing"] /\ Unwind(t, 1, <<"death">>)
    /\ UNCHANGED <<status, tbc, callee, mode, record>>

\* Protected mode: LState.pcall returns a GoPanicError.  Otherwise the panic
\* leaves the VM and the host gives the State up.
PanicHost ==
    /\ PanicUncaught(Main)
    /\ Unwind(Main, 1, <<>>)
    /\ tbc' = [tbc EXCEPT ![Main] = IF RecoverGoPanics THEN <<>> ELSE @]
    /\ at' = [at EXCEPT ![Main] = IF RecoverGoPanics THEN "lua" ELSE "gone"]
    /\ UNCHANGED <<status, callee, mode, record>>

-----------------------------------------------------------------------------
Next ==
    \/ \E t \in Threads :
        \/ \E co \in Coroutines :
            \/ Create(t, co) \/ ResumeSync(t, co) \/ ResumePromoted(t, co)
            \/ Handoff(t, co) \/ RecvCoMsg(t, co) \/ Close(t, co)
        \/ \E k \in CallFrames \ {"handler"} : Enter(t, k)
        \/ PromotionSwallowed(t) \/ RegisterTbc(t) \/ ScopeExit(t)
        \/ RunClose(t) \/ EndClose(t) \/ Return(t) \/ Raise(t) \/ Catch(t)
        \/ GoPanic(t) \/ CatchPanic(t)
    \/ \E t \in Coroutines :
        \/ BodyReturnPromoted(t) \/ YieldPromoted(t) \/ DiePromoted(t)
        \/ EndDeathPromoted(t) \/ PanicPromoted(t)
        \/ \E d \in Threads :
            \/ Promote(t, d) \/ BodyReturnSync(t, d) \/ YieldSync(t, d)
            \/ DieSync(t, d) \/ EndDeathSync(t, d) \/ EndCoClose(t, d)
            \/ PanicSync(t, d)
    \/ HostError \/ PanicHost

Spec == Init /\ [][Next]_vars

\* A channel operation both of whose goroutines are ready eventually completes:
\* Go's scheduler is fair.  Nothing is assumed of the Lua program itself.
Fairness ==
    \A t \in Threads, co \in Coroutines :
        WF_vars(Handoff(t, co)) /\ WF_vars(RecvCoMsg(t, co))

FairSpec == Spec /\ Fairness

-----------------------------------------------------------------------------
(* Properties *)

TypeOK ==
    /\ status \in [Threads -> {"none", "suspended", "running", "normal", "dead"}]
    /\ coSyncActive \in [Threads -> BOOLEAN]
    /\ promoted \in [Threads -> BOOLEAN]
    /\ nCcalls \in [Threads -> Int]
    /\ frames \in [Threads -> Seq(Frame)]
    /\ tbc \in [Threads -> Seq(Nat)]
    /\ deathErr \in [Threads -> BOOLEAN]
    /\ at \in [Threads -> Place]
    /\ callee \in [Threads -> Threads \cup {NoThread}]
    /\ misreported \subseteq Threads

\* "Resume/yield hand off cooperatively over these channels so only one is ever
\* active" (lstate.go:77-79): one thread at most executes or is about to hand
\* control over.
OneActive ==
    \A t, u \in Threads : at[t] \in Holding /\ at[u] \in Holding => t = u

\* A thread that blocks sending on yieldCh has a resumer blocked receiving from
\* it, so the send completes.
YieldHasReceiver ==
    \A t \in Threads : at[t] \in Sending =>
        \E d \in Threads : callee[d] = t /\ at[d] = "recvYield"

\* coYieldFn, lcorolib.go:300: when a synchronous coroutine yields there is "no
\* Go-recursion boundary above us, or we would have promoted": the yield's
\* panic discards no call frame.
SyncYieldIsFlat ==
    \A t \in Threads : coSyncActive[t] /\ ~NoYield(t) => frames[t] = <<>>

\* What coroutine.status reports agrees with the hand-off: a thread is "normal"
\* exactly while it waits for a coroutine it resumed, and a "suspended" one can
\* be entered: it has no Go stack or its goroutine waits on resumeCh.
StatusAgrees ==
    \A t \in Threads :
        /\ at[t] \in Executing \cup Sending => status[t] = "running"
        /\ status[t] = "normal" <=>
            \/ at[t] \in {"sendResume", "recvYield"}
            \/ at[t] = "inResume" /\ coSyncActive[callee[t]]
        /\ status[t] = "suspended" =>
            at[t] = IF promoted[t] THEN "recv" ELSE "parked"

\* A thread whose status is "running" really runs, is being handed control, or
\* is below the handlers it makes another thread run: no coroutine is left
\* "running" with nothing to run it, when it could be neither resumed nor
\* closed again.
RunningIsLive ==
    \A t \in Threads : status[t] = "running" =>
        \/ at[t] \in Holding \cup {"inClose", "inResume"}
        \/ \E d \in Threads : callee[d] = t /\ at[d] = "sendResume"

\* The resume chain: no coroutine is resumed or closed by two threads at once
\* and no set of threads wait on each other in a cycle.
ChainIsAcyclic ==
    /\ \A t, u \in Threads : callee[t] = callee[u] /\ callee[t] # NoThread => t = u
    /\ \A S \in SUBSET Threads : S # {} => \E t \in S : callee[t] \notin S

\* Status words, goroutines and the chain of resumes tell the same story
\* (resume, recvCoMsg and coClose set the words one by one).
ChainTellsTruth == StatusAgrees /\ RunningIsLive /\ ChainIsAcyclic

\* A dead coroutine has run every __close handler it owed (lcorolib.go:101, 389)
\* and nobody waits for it.
DeadIsSettled ==
    \A t \in Coroutines : status[t] = "dead" =>
        /\ tbc[t] = <<>> /\ ~coSyncActive[t]
        /\ at[t] \in Resting
        /\ \A d \in Threads : callee[d] # t

\* drainFinalizers, lgc.go:98: "Each call is balanced on the stack, so it is
\* safe to invoke between VM instructions": outside an unwinding, every pending
\* to-be-closed variable belongs to a function still on the stack.
TbcIsBalanced ==
    \A t \in Threads :
        /\ at[t] = "lua"
        /\ Without(frames[t], CloseFrames)
        => \A i \in DOMAIN tbc[t] : tbc[t][i] <= Len(frames[t]) + 1

\* No __close handler is forgotten: neither at a coroutine's death nor when the
\* function that owes it has left the stack (runCloses, closeTBC).
HandlersAreOwed == DeadIsSettled /\ TbcIsBalanced

\* protect (lauxlib.go:288) is the native pcall: it reports an error only if the
\* function it was given ran and raised.
PcallReportsTruly == misreported = {}

\* SetRecoverGoPanics (lapi_sandbox.go:25): "the panic does not escape to the
\* host and the State remains reusable".
PanicIsContained == \A t \in Threads : at[t] # "crash"

\* A coroutine that has died is never run again, by resume or by close.
DeadStaysDead ==
    [][\A t \in Coroutines : status[t] = "dead" => status'[t] = "dead"]_vars

\* Every channel operation of the hand-off completes: a resumer that sends
\* values is received, and a coroutine's yield, return or fatal error reaches
\* its resumer, which runs again.
HandoffCompletes ==
    /\ \A t \in Threads : at[t] = "sendResume" ~> at[t] = "recvYield"
    /\ \A t \in Coroutines : at[t] \in Sending ~> at[t] \in Resting
=============================================================================
