# A TLA+ development for lua-pure

lua-pure is a Lua 5.4 virtual machine written in Go (`src/lua`), with a debugger
API, a Debug Adapter Protocol server (`src/debugdap`) and a Model Context
Protocol server (`src/debugmcp`) on top of it. This directory holds TLA+ modules
translated from that code, TLC configurations that check them on small
instances, and TLAPS proofs of the properties that matter most. `PROJECT.json`
is the index: components, runs, the map from definitions to source lines,
mutants, hazards, findings and theorems.

Run a model with `tlc -config X.cfg M`, a proof with `tlapm M.tla`.

## 1. Inventory

| component | state it keeps | operations | hard behaviour | what makes it correct |
|---|---|---|---|---|
| Coroutines (`lcorolib.go`, `ldo.go`, `lauxlib.go`) | per thread: `status`, `coSyncActive`, `promoted`, `nCcalls`, frames, `tbc`, `deathErr`; channels `resumeCh`, `yieldCh` | create/wrap, resume, yield, close; the call boundary that promotes a coroutine to a goroutine; protected calls; to-be-closed variables | hand-off between goroutines without locks, panics as control flow, handlers that fail, yield or panic | one thread active; every hand-off has a partner; statuses tell the truth; each pending `<close>` runs once, in its owner |
| Finalizers (`lgc.go`) | `finQueue`, `finPending`, `finReg` | setmetatable registers, the Go collector enqueues on its own goroutine, the VM polls and drains, Close finalizes all | producer on another goroutine, a lock dropped between queue and counter, drains that nest | the counter never loses an object; `__gc` runs once; a queued object is taken |
| Execution limits (`lapi_sandbox.go`, `lvm_execute.go`) | instruction budget, context, per-thread tick | set/clear limit, set context, cancel, the poll gate | several threads sharing a counter that each feeds in quanta | no instruction lost or counted twice; a cancelled context stops every thread |
| Tables (`ltable.go`, `lgc_weak.go`, `lgc_weakkey.go`) | array part, hash part, key order, weak-key list, weak cells | get, set, length, next, change of `__mode` | three representations of one map; the collector empties cells between two reads | it is a map; `#` is a border; `pairs` visits each key once, also while fields are cleared |
| Debug session (`debug_session.go`, `debug_session_driver.go`) | breakpoints, pause request, step mode, target depth; channels `stops`, `reqs` | SetBreakpoints, Pause, Continue/Step*, inspection on the VM goroutine, Start | the program is parked while another goroutine drives it; requests race a stop or the end | a pause is never lost; a request finds the program parked |
| MCP server (`debugmcp`) | state idle/running/paused/finished, session, result channel, stored breakpoints | set_breakpoints, launch, continue, step, pause, inspections | concurrent tool calls, values read under the lock and used after it | the state word tells the truth; one control call; no program left behind |
| DAP adapter (`debugdap`) | launch and configuration flags, stored breakpoints, paused flag, handles, source references | initialize .. disconnect, event pump | reader, pump and program goroutines | the flag never outlives its stop; an admitted request is served; every stop and the end are reported |
| Calls and upvalues (`ldo.go`, `lvm_execute.go`, `lfunc.go`, `lobject_gc.go`) | stack, callInfo list, open upvalues | precall, poscall, tail call, varargs, close | stack indexes that move, hooks that fail | frames nest; an upvalue is closed before its slot is reused |
| Interpreter (`lvm*.go`) | registers, pc | opcodes, arithmetic, numeric for, concat | re-execution of an instruction after promotion; integer edges | an instruction that is re-run repeats nothing; loops run the right number of times |
| Compiler (`llex.go`, `lparser*.go`, `lcode.go`, `lopcodes.go`, `ldump.go`) | function state, jump lists, registers, active variables, pending gotos, blocks | lex, parse, generate, dump, undump | jump lists threaded through code, register discipline, field widths, closing of captured variables decided after the fact | the code computes what the source says; every jump is patched; registers are released in order; no name reads another variable's register; undump inverts dump |
| Libraries (`lstrlib*.go`, `ltablib.go`, `lmathlib.go`, `lutf8lib.go`, `loadlib.go`, `ldblib.go`, `liolib.go`, `loslib.go`) | mostly none | pure functions, I/O | numeric edges, captures that outlive a failed attempt, a comparator that lies | agreement with a reference definition |

How they interact. One State is a set of threads of which one runs. The dispatch
loop passes a poll gate every `finGCPoll` instructions of the running thread: it
drains finalizers, tests the context and advances the budget. A finalizer,
a metamethod, a comparator and a `__close` handler are Lua calls made from Go,
so they pass the call boundary, which may have to promote the coroutine. The
debugger hangs off the line hook of the main thread and parks the goroutine that
runs it; the MCP server and the DAP adapter drive the parked program from
goroutines of their own. The Go runtime contributes two actors of its own: the
collector, which empties weak cells and calls finalizers, and the scheduler.

## 2. Plan

The order is by how hard the behaviour is to test.

| step | modules | composition and abstraction | theorems | state |
|---|---|---|---|---|
| A | `Coroutine`, `MCCoroutine` | threads of one State; Lua code abstracted to what it does to the machinery | every safety property of the run | done |
| B | `Finalizers` | collector goroutine + drains | type correctness, counter, once | done |
| C | `ExecLimits`, `MCExecLimits` | host + threads + gate | every safety property of the run | done |
| D | `Table`, `MCTable`; abstract `LuaTable` | `Table` refines `LuaTable` | every invariant of the run, and the refinement | done |
| E | `DebugSession`, `McpServer`, `DapAdapter` | the servers extend the session and conjoin their half of every rendezvous | every invariant of the passing runs | done |
| F | `Words`, `Codegen`, `Bytecode`, `Expressions`; `Scopes` | the translated parser and generator produce code that the translated interpreter executes | none: the generator is recursive | checked |
| G | `Patterns`, `Pack`, `Sort`, and `TableLib`, `Utf8` and the arithmetic of `Words` called by `PureCalls`, composed by `Library` | pure algorithms as operators against reference definitions; `Sort` a state machine | `SortIsSafe` for every number of items, `CallsAreExact` for every word size, `Utf8Agrees` for all bytes and texts | done |
| H | none | frames, open upvalues, hooks; re-execution of concat and of a call through `__call`; dump/undump | none | left out, section 6 |

## 3. Modules and the code

Modules with a run of their own come with a `.cfg` of their name or an `MC`
module that adds constant definitions and symmetry. The line each definition
stands for is in `PROJECT.json`. Definitions commented "Mutant" are deliberate
errors that no specification uses.

### Coroutine (`lcorolib.go`, call boundary of `ldo.go`, `protect` of `lauxlib.go`)

`status`, `coSyncActive`, `promoted`, `nCcalls`, `tbc` and `deathErr` are the
fields of `LState`. The Go stack of a thread is `frames`, innermost last: an
activation of `call` (`pcall`, `meta`, `noyield`, `gc`, `handler`) or of
`runCloses` (`scope`, `rethrow`, `unwind`, `death`, `coclose`). `at` says where
its Go code is (executing Lua, unwinding an error or a Go panic, blocked on a
channel, resting) and `callee` whom it resumes or closes.

A coroutine starts synchronously on the resumer's goroutine (`ResumeSync`); a
yield there unwinds by panic (`YieldSync`). `Enter` is the call boundary: a
coroutine that may yield and is synchronous is promoted instead (`Promote`), and
control then goes back and forth on unbuffered channels (`ResumePromoted`,
`Handoff`, `YieldPromoted`, `RecvCoMsg`). Errors travel by `Raise`, `Catch`,
`DieSync`/`DiePromoted`; pending `__close` handlers run by `ScopeExit`,
`RunClose`, `EndClose` and for a dead or closed coroutine `EndDeath*`,
`Close`/`EndCoClose`. `GoPanic` is a Go callback that panics, with
`RecoverGoPanics` on or off.

Lua code is free: in `at = "lua"` a thread may do any of these at any moment.
`Behaviours` switches on the uses that are known to break a property, so that the
passing run and the violation runs share one model.

### Finalizers (`lgc.go`)

`SetMetatable` registers an object once (`finReg`); `GoCollect` hands unreachable
objects to the finalizer goroutine; `Enqueue` appends under `finMu` and
`CountEnqueued` increments `finPending` after the unlock, as two steps. `Poll`
starts a drain when `finPending` is positive, `FinalizeAll` starts one
unconditionally (collectgarbage, Close). A drain takes the last object, then
decrements, then calls `__gc`, which may nest further drains, resurrect its
object, register it again, or raise through several drains (`GCPanics`).

### ExecLimits (`lapi_sandbox.go`, gate of `lvm_execute.go`)

`budgets` are the `execBudget` structures, shared by pointer (an index); each
thread has its `finGCTick`. `chain` holds the activations of the threads that run,
the innermost last, each in its code or at its gate. `Execute` is an instruction
that does not reach the gate, `ReachGate` one that does: it resets the tick. Then
`pollFinalizers` may run any number of `__gc` functions (`RunFinalizer`,
`FinalizerEnds`) as new activations of the same thread: Lua code that is counted,
reaches gates of its own, starts and resumes coroutines, and may fail. Only after the
last of them do `GateCancelled`, `GateBudget` and `GateFree` test the context and
advance the budget, so that from `ReachGate` on the quantum of `finGCPoll`
instructions is neither in the tick nor in the count; it is lost when a Go panic
unwinds the gate (`GoPanic`) or the context is done (`GateCancelled`, which throws
before it reaches the budget). Which objects the poll finds is the subject of
`Finalizers`. `Spawn` copies budget and context as `newThread` does. The history
variables give the true number of instructions, to compare the budget with, and the
quanta lost.

### LuaTable and Table (`ltable.go`, `lgc_weak.go`, `lgc_weakkey.go`)

`LuaTable` is the abstract specification: a map from keys to values, in which an
entry whose object the program cannot reach any more may disappear. `Table` has
the fields of the Go structure. `Set` is `rawset` with array append and
absorption of following keys from the hash part, `SetMode` is `refreshWeak` with
`migrateWeakKeys`, `LengthStart/Step/End` is `length` one probe at a time,
`Walk`/`WalkEnds` a `pairs` loop driven by `next`, `Collect` the Go collector.
`Refines` maps `contents[k]` to what `RawGet(k)` returns.

### DebugSession (`debug_session.go`, `debug_session_driver.go`)

Per session: what the program's goroutine is doing (`vm`), where the hook holds
it, breakpoints, pause flag, mode and target depth. A line event swaps the pause
flag first (`LineEvent`) and looks at breakpoints and the step later
(`ShouldStop`); in between other goroutines may act. The stop and request
channels are unbuffered, so an exchange is one step of both sides: the module
gives the program's half (`OfferStop`, `ServeRequest`, `ServeResume`,
`OfferResult`) and a front end conjoins its own. A program inside a coroutine has
no hook, because `newThread` does not inherit it: `EnterCoroutine`.

### McpServer (`debugmcp/server.go`, `tools.go`), extends DebugSession

The server's fields are `state`, `sess`, `done`, `lastStop`, `stored`; a tool
call in progress is `pc` with the handler's locals `on`, `result`, `pending`,
`action`. Each stretch of a handler between lock, channel and session operations
is one action: `StoreBreakpoints`/`ApplyBreakpoints`, `Launch`,
`StartProgram`, `StoreDone`, `ReceiveStop`/`RecordStop`,
`ReceiveResult`/`RecordFinish`, `ClaimResume`/`SendResume`,
`ReadSession`/`RequestPause`, `PausedSession`/`Inspect`. `overlap` is a history
variable: the sources that two calls were setting at once.

### DapAdapter (`debugdap/adapter.go`), extends DebugSession

One connection: `launchReq`, `configured`, `stored`, `paused` and `handles` are
fields of the adapter; `reader` and `pump` say where those two goroutines are and
`action` what a resume will ask for. A handler is cut at its lock and channel
operations: `AdmitResume` tests `paused`, `ClearPaused` clears it, `SendResume`
talks to the program; `AdmitInspection`/`Inspect`; `OnVariables` looks a handle
up and either `ReadVariables` (a request to the program) or `Expand` (a table read
on the reader's goroutine); `OnDisconnect`, `ClearForDetach`, `Detach`. The pump
is `ReceiveStop`, `ResetHandles`, `SetPaused`, `SendStopped`, and at the end
`ReceiveResult`, `SendTerminated`. A handle names the locals of a frame, which are
read when it is used, or a table, and the model keeps the age of the table: `fresh`
if it was read at the present stop, `stale` if at an earlier one. `values` is the age
of what the reader is rendering: it becomes stale if the next stop arrives meanwhile,
because rendering holds no lock, and `AddHandle` appends a handle of that age,
before the pump's `ResetHandles` or after it. `overtaken` records that the
reset of the present stop found the reader in that position. The client sends any request at any time; one that its handler
refuses changes nothing and is not a step.

### Words, Codegen, Bytecode, Expressions (`lvm_arith.go`, `lvm.go`, `lcode.go`, `lparser.go`, `lvm_execute.go`)

`Words` is the integer arithmetic of the virtual machine on words of `W` bits:
wrapping, floor division and modulo, shifts, and the numeric for loop with its
unsigned iteration count. `Codegen` is `lcode.go`: each function of the code
generator is an operator from a function state and an expression descriptor to
both, `[fs |-> .., e |-> ..]`, with jump lists threaded through the code, constant
folding, operands that fall back from immediate to constant to register, and the
`MMBIN` instructions that follow an arithmetic one. Operand widths are the
constants `MaxC`, `MaxIndexRK`, `MaxSBx`. `Bytecode` executes the instructions
(`ExecLoad`, `ExecTable`, `ExecArith`, `ExecMeta`, `ExecUnary`, `ExecTest`,
`ExecCall`); values are nil, booleans, words, strings, tables, one function and
one object whose metamethods return which event they handled and their operands.
`Expressions` is the expression part of `lparser.go` (precedence climbing,
suffixes, argument lists, constructors, multiple assignment with its conflict
check, conditions, return) on tokens, and the reference: `Values` and
`AllAssigned` evaluate the statement by the language's definition, without code.
`Compile` and `Call` are the two steps of a behaviour.

### Scopes (`lparser.go`, `lparser_codegen.go`)

One step parses one statement: `LocalStat` (plain, compile-time constant,
`<close>`), `FunctionUsing` (a closure that captures a name), `DoStat`,
`WhileStat`, `RepeatStat`, `IfStat`/`ElseStat`, `IfBreakStat`, `BreakStat`,
`GotoStat`, `LabelStat`, `ForNum`, `ForList`, `RetStat`, and an `End..` for each
block. `actvar`, `nactvar`, `labels`, `gotos`, `blocks`, `needclose` are the
fields of `dynData`, `blockCnt` and `funcState`. When the function is complete
the interpreter runs it with every condition going either way; `regs` says which
variable each register holds and `open` which registers have an open upvalue or a
pending close. Each instruction carries the variables in scope where it was
emitted, for the properties only.

### Patterns, TableLib, Utf8, Pack, Sort, PureCalls, Library (`lstrlib_pattern.go`, `ltablib.go`, `lutf8lib.go`, `lstrlib_pack.go`)

`Patterns` translates the matcher: the match state, with its mutable array of
captures, goes into and comes out of every operator, so that what a failed
attempt leaves is what the next one finds. Its reference parses nothing: a
pattern is a list of items, `Spell` gives the characters the code reads, and
`Leftmost`, `Successive` and `Substituted` define the preferred match by
enumeration. `TableLib` has insert, remove, move, concat and unpack over words;
`Utf8` encoding, decoding and the functions built on them, a loop of the code being
a recursive function of the number of its turns; `Pack` the formats with
alignment and endianness. `Sort` is `auxsort` with its partition as a state
machine, one action for each question to the order function, which answers
honestly or anything. `PureCalls` makes the calls of divisions, shifts and for
loops of `Words` and of the functions of `TableLib` and `Utf8`; `Library` extends it
with the calls of the others. `call` is the call, and the properties compare the
answer of the translated code with the reference when it is `done`. `PureCalls`
reaches no RECURSIVE operator, so that it can be proved about.

## 4. Runs

| run | instance | what it shows |
|---|---|---|
| `coroutine` | 2 coroutines + main, 1 Go-level frame, 2 pending `<close>`, C-call limit 3 | Resume, yield, promotion, errors, close and handlers in every order: one active thread, a receiver for every yield, no frame discarded by a synchronous yield, dead stays dead. `ChainTellsTruth` says that statuses are truthful, the running thread is live and the resume chain acyclic; `HandlersAreOwed` that `<close>` variables are balanced and a dead thread owes none. |
| `coroutine_panic` | 1 coroutine, protected mode, Go panics, fairness | Each channel operation completes, whatever unwinds. |
| `coroutine_close_yield` (violation) | `__close` handlers that yield | Such a yield sends with no receiver: finding 1. |
| `finalizers` | 3 objects, nesting 2 | Counter and queue agree, `__gc` once, queued objects are taken. |
| `exec_limits` | 2 coroutines + main, limit 3, gate every 2, `__gc` functions nested 2 deep, 1 budget, 1 context, 6 instructions (1 712 656 states) | Every instruction is in the budget's count, in a tick, or in the quantum of a gate that still polls finalizers, was unwound, or found its context done; the cap is exceeded by less than one interval for each thread and one for each such gate; cancellation reaches every thread created since. |
| `table` | indexes 1..3, one float key, one object, one plain value, 2 weak entries | Slots, border search, refinement of `LuaTable`, in all four weak modes with the collector; `LoopIsSound` says that `next` finds every key of an ordinary table, and a loop visits each key once and none twice. |
| `mcp_server` | 2 clients, 2 launches, 1 source, 1 line, depth 2, fairness | The state word is truthful without a lock, one controller, no stray program, breakpoints reach the session, a pause returns a waiting call. |
| `mcp_inspection` (violation) | the same | An inspection waits for a program that has ended: finding 2. |
| `dap_adapter` | 1 source, 2 lines, depth 2, 2 handles, fairness (266 480 states) | The paused flag never outlives the stop it describes; once it is set no handle of an earlier stop is left or appended, unless the reset found the reader at work with values of an earlier stop; breakpoints are in force whenever they came, every stop and the end are reported, an admitted request is completed. |
| `expressions` | words of 4 bits, `MaxC` 3, constant index up to 1, jump field 3, flush every 2 items; 117 530 states | Compiled and executed, each of the statements does what the language defines, in every frame; constructors fill their table across flushes; registers are released as a stack, every register an instruction reads or writes (`Registers`) is below the stack size of the prototype, and every jump is patched. |
| `scopes` | functions of up to 5 statements, one of each sort, 1 variable name, 1 label (2.77 million states) | No path through gotos, breaks and loops reads a register that holds another variable; no upvalue or pending close stays open beyond its variable. |
| `library` | words of 4 bits: every pair of operands, every bound and step of a loop, every position, a full table and one with a hole, stacks with room for 0 and 3 results; bytes of 2 bits; subjects up to 3 characters and about 300 patterns; border bytes and code points; formats of up to 3 options; sorts of up to 6 items (498 971 states) | Quotients, remainders and shifts, the numeric for loop, and insert, remove, move, concat and unpack are exact up to both ends of the words; matches, replacements and captures are those of the definition; utf8 accepts exactly what it writes; unpack inverts pack; `table.sort` stays in range, keeps every item and ends, whatever the order function answers. |

Why the bounds are enough. Two coroutines and the main thread give every
relation a resume chain has (self, caller, callee, third party); a deeper Go
stack repeats the frame cases, which the proofs of section 5 cover for every
depth. Three objects let one be queued while another is drained and a third
registered, with drains nested two deep. A gate interval of 2 with limit 3 makes
the limit fall between gates, and `__gc` functions nested two deep leave a gate
polling below one that polls; one budget at a time is checked, since setting a new
limit starts the account again, and the proofs cover any number. Three indexes are the fewest for an append that
absorbs two keys and for a search with an inner probe. Two MCP clients give each
check-then-act pair an interferer, and two launches a stale session; three
clients with one launch, and two sources with two launches, were also explored
without a violation (235 411 and 8 062 129 states). The DAP adapter serves one
session for each connection, so one session is all there is; two lines and depth 2
let a step, a breakpoint and a pause fall on different lines. Words of 4 bits have
every relation to the ends of the range that 64 bits have (section 5 proves it for
words of any size), and let all operands, positions, limits and steps be tried; the operand widths of `Codegen` are small so that each
fallback (immediate, constant, register, `EXTRAARG`) happens within a statement of
a few operands. Limits that need hundreds of registers or instructions (255
registers, long jumps, 200 local variables) are not reached. In `Scopes`, one statement
of each sort, nested in every order, gives each jump a scope to leave or enter; a
shadowed name, two labels of a name or two loops need more. Three characters are enough
for a capture to be closed, given up and opened again; 6 items make `partition`
move both its scans and its recursion choose either half.

Fairness. `Coroutine`: a channel operation whose two goroutines are ready
completes; nothing is assumed of the Lua program. `Finalizers`: the finalizer
goroutine runs, the VM keeps executing and so reaches its poll, `__gc` functions
end. `McpServer`: handlers and the program are goroutines that the Go scheduler
runs; the program keeps reaching lines of its main thread (strong fairness of
`LineEvent`, since a loop's back edge is a line event, `ldo_hook.go:63-84`, so a
main thread that resumes coroutines for ever still passes through line events)
and each resume comes back. The last is an assumption about the program.
`DapAdapter`: the Go scheduler runs the reader, the pump and the program; nothing
is assumed of the client, and the program need not end. `Library`: a function that
can take a step takes one, and an order function returns.

`CHECK_DEADLOCK FALSE` is used where the system may stop: an unrecovered panic
ends the process (`coroutine_panic`), a connection ends with its program
(`dap_adapter`), and a compiled function or a library call returns (`expressions`,
`scopes`, `library`).

### Findings

1. `coroutine_close_yield`: `__close` handlers that `coroutine.close` or a dying
   synchronous coroutine runs can yield into a channel nobody reads, although
   `ldo.go:230-232` says they are non-yieldable.
2. `mcp_inspection`: `stack`, `variables` and `evaluate` test the state, unlock
   and then send; a concurrent continue leaves them waiting, for ever once the
   program has ended (`tools.go:259-260`, `server.go:86`).

### Divergences met while modelling that have no run

The first six are stated in the modules; TLC finds each one violated when it is
added as an INVARIANT.

- `Coroutine!PcallReportsTruly`: in protected mode `protect` takes the promotion
  signal for a Go panic and `pcall` fails without calling its function, although
  `ldo.go:232-233` says the aborted call has no lasting effect (one coroutine,
  `RecoverGoPanics = TRUE`, `Behaviours = {}`).
- `Coroutine!PanicIsContained`: in protected mode a Go panic in a handler run by
  `coContinue` escapes and ends the process, although `lapi_sandbox.go:25-29` says
  it does not (the same with `Behaviours = {"goPanic"}`).
- `ExecLimits!InstructionCap`: a fresh coroutine starts with an empty tick counter,
  so spawning does multiply the allowance, against `lstate.go:66-67`
  (`finGCPoll = 3`, no context, one budget, 9 instructions, `MaxNesting = 0`). With
  `MaxNesting = 1` it is violated by the main thread alone, whose `__gc` code reaches
  a gate of its own before the outer quantum is counted. `CapWithSlack` is what holds
  instead; a program that makes a Go callback panic in `__gc` functions again and
  again, each time caught, runs on uncounted (`lost`).
- `Table!NextFinds`: `t[k] = nil` in a `pairs` loop over a weak-keyed table makes
  `next` fail, against `lgc_weakkey.go:13-14` (constants of `MCTable.cfg`).
- `DapAdapter!RawReadWhileParked`: `variables` is served without testing that the
  program is stopped (`adapter.go:315`), and expanding a handle of an earlier stop
  reads a table on the reader's goroutine while the program runs, although a Var
  "is valid only while the program is paused at the stop the Var was read from"
  (`debug_session_driver.go:61-64`). With a handle on locals the reader waits until
  the next stop.
- `DapAdapter!HandlesOfThisStop`: the handles are "reset each stop"
  (`adapter.go:57`), but a reader that expands a table while the program runs on to
  its next stop appends the fields it finds after the reset, among the handles of the
  new stop (`adapter.go:332`, `473`, against `200`; constants of `DapAdapter.cfg`, 25
  states). `PausedTellsTruth` shows that nothing else leaves a stale handle.
- `disconnect` releases the program only if it is paused at that moment
  (`adapter.go:413`); one that stops later stays parked.
- A back reference `%1` to a position capture slices with a negative length and
  panics, where the reference implementation fails to match; a `gsub` replacement
  that ends in a lone `%` is accepted silently; `gmatch` with an init of 0, or one
  before the start of the subject, finds nothing. `PatternsMatch` says what holds
  otherwise. `unpack` of "s" with a length that reads as negative passes the test for
  "data string too short".
- A hook that raises leaves `allowHook` off (`ldo_hook.go:14`).
- `coroutine.close` of a suspended promoted coroutine never wakes its goroutine
  (`lcorolib.go:384`); entries of the weak-key list are emptied, never removed
  (`lgc_weakkey.go:63`).
- A resume of a promoted coroutine resets its `nCcalls`, against
  `luaconf.go:58-60`.
- A `__gc` function that raises leaves its entries in `L.tbc` (`lgc.go:136`,
  against `lgc.go:98-100`); the order in which a batch is finalized is the
  collector's, not the order of registration (`lgc.go:98-99`).
- A coroutine in which a Go panic passed keeps the status "running"
  (`lcorolib.go:176`, against `lapi_sandbox.go:25-33`).
- A limit or context set while coroutines exist does not reach those
  (`lcorolib.go:56,62`).
- `refreshWeak` does not convert the values of the weak-key list: a change from
  `kv` to `k` leaves cells (`ltable.go:62-65`). `migrateWeakKeys` leaves dead
  nodes that retain their key (`lgc_weak.go:35`). Values of the weak-key list are
  strong, so a key its own value refers to is never collected, against
  "ephemeron keys" in `docs/FILEMAP.md`. A `__mode` change in the middle of a
  `pairs` loop makes `next` skip entries.
- The unbound search of `length()` (`ltable.go:355-377`) is unreachable, by
  `OneSlotPerKey`.
- A `set_breakpoints` that overlaps a `launch`, or another `set_breakpoints` of
  the same source, can be overwritten by the older lines (`tools.go:141-143`),
  although the tool is described as "Safe before or during a run"
  (`tools.go:43`). The model records it in `overlap`, and `BreakpointsLive` says
  what holds without it.
- Lines executed inside a coroutine are not debugger events, so breakpoints,
  steps and pauses do not apply there ("Pause requests that the debugger stop at
  the next line it executes", `debug_session.go:139`).

## 5. Proofs

The theorems hold for all values of the constants, under the `ASSUME`s of the
component's module (distinctness of model values, bounds that are naturals).
Three theorems about `Coroutine` have a hypothesis on `Behaviours`: they do not
hold for a program that does the named thing, as finding 1 and the divergences of
section 4 describe. The run `coroutine` checks the same properties with those
behaviours switched off. The mode, the limits and all other behaviours stay free.

| module | theorem | argument |
|---|---|---|
| `CoroutineProofs` | `TypeCorrect`: `Spec => []TypeOK` | induction, one step per action |
| `CoroutineProofs` | `OnlyOneActive`: `Spec => []OneActive` | `OneActive` alone is not inductive: a resting thread may be handed control, so the invariant `HandInv` adds that a thread nobody has resumed or closed is at rest (`IdleRests`), that one which resumes or closes another waits and is not idle (`CallerWaits`), and that the coroutine a send on `resumeCh` is for has been marked running (`ResumedIsMarked`) |
| `CoroutineProofs` | `SyncYieldsAreFlat`: `Spec => []SyncYieldIsFlat` | `CoInv`, of two halves. `ShapeInv`: handlers stand on close frames and on nothing else (`FrameInv`), and a synchronous coroutine has no call frame, or its outermost forbids yields (`SyncInv`). `ChainInv`: a coroutine is the callee of one thread at most (`OneCaller`), nobody waits for himself in a circle (`Acyclic`), and caller, callee and status word agree (`Callers`, `CalleeAgrees`, `Called`, `StatusWords`) |
| `CoroutineProofs` | `SendsAreReceived`: `[]YieldHasReceiver`, if no `__close` handler yields (`"closeYield"`) | `ReceiverInv` on top of `CoInv`: a thread run on the goroutine of one that waits for no message (`inResume`, `inClose`) sends none, and neither does the main thread; by `ChainInv` whoever sends then has a caller, and it is in `recvCoMsg` |
| `CoroutineProofs` | `StatusIsTrue`: `[]ChainTellsTruth`, if no Go callback panics (`"goPanic"`) | `RunInv`: nothing unwinds by panic, and a coroutine marked running that rests is about to be resumed; that the chain ends in a live thread comes from `Acyclic` on a finite set |
| `CoroutineProofs` | `HandlersAreRun`: `[]HandlersAreOwed`, and `DeadNeverReturns`: `DeadStaysDead`, without `"goPanic"` and without a `__gc` function that declares a `<close>` variable (`"gcTbc"`) | `TbcInv`: the pending variables of a thread are ordered by the frame they belong to (`Rising`) and none belongs to a frame that has gone (`Balanced`, `Owed`); no finalizer leaves one behind (`GcClean`); a finished coroutine has none. Without it a dead coroutine could still own a handler, and closing it would run Lua code in it |
| `FinalizersProofs` | `TypeCorrect`, `PendingIsExact`, `FinalizedOnce` | the counter needs `OuterDrainsWait`: every drain but the innermost is below a `__gc` call, so at most one object is between the queue and the decrement; once-only needs `OnceInv`, which says where a registered object can be (armed, due, queued, taken) and that these places exclude each other |
| `ExecLimitsProofs` | `CancellationReachesAll` | `ContextInv`: heirs exist, and they carry the State's present context |
| `ExecLimitsProofs` | `TypeCorrect`, `BudgetCaps`: `Spec => []CapWithSlack` | the budget's count is exact up to the ticks of the threads that share it and the quanta of their gates (`Quanta`: gates that still poll, and those lost). The sum of the ticks is a fold, which cannot be reasoned about for an unknown number of threads; `Account` says instead that some function on sets of threads adds up the ticks one thread at a time, is at most `finGCPoll - 1` for each, and balances the books. Each action updates that function; a gate takes a full tick into its quantum and gives it to the count or, unwound, to `lost` (`HeldGate`, `HeldCut`). `Linked`: the threads in the chain exist, and what stands on an activation that is in its code is a coroutine, so the main thread is left only by ending its run. `SharedBudget` says which threads share the budget, `NotSpent` that the gate raises the error in time |
| `ExecLimitsProofs` | `BudgetIsExact`: `Spec => []BudgetAccounts` | the equation the run checks, about the fold itself. `Account` gives a function that adds up like a sum; a set of threads of least size on which it and the fold differ cannot exist, because both take a thread off in the same way. So the fold is that function, and the books it balances are the budget's |
| `TableProofs` | `TypeCorrect`, `KeyHasOneSlot` | `OneSlotPerKey` is inductive together with `TypeOK`; one lemma for each way an entry moves (append with absorption, hash assignment, deletion, migration both ways) |
| `TableProofs` | `LengthFindsBorder` | `NoCells /\ SearchInv`: the upper end of the bracket is empty or one past the array, and stays so because the collector only empties; the lower end is non-nil where values are strong, for then no slot is a cell |
| `TableProofs` | `TableIsAMap`: `Spec => Refines` | `AliveInv` (what the program holds or the table retains strongly is alive) and, for each action, what `RawGet` reads after it (`ReadsAs`) |
| `TableProofs` | `LoopsAreSound`: `Spec => []LoopIsSound` | the places of array, hash part and weak list, numbered one after another, are the order of `next`; `NextIsFirst` shows that `next` returns the first live key after the place of its argument. `LoopInv`: what the loop has visited is not live after the cursor's place, what it owes is. Every step between two calls of `next` only empties places (`Thinned`), which moves neither; a step that creates a field or changes the mode ends what the model follows |
| `DebugSessionProofs` | lemmas on the session's actions | the session's types, and which positions of its program each action leads from and to; both front ends cite them |
| `McpServerProofs` | `TypeCorrect`, `WordTellsTruth`: `[]StateTellsTruth`, `ControlIsExclusive`: `[]OneController` | the state word `running` is a lock without an owner field. `Owner`: exactly one call is inside it, and on the present session; `HolderKnows`: what that call may assume of the program at each of its points, and `WordKnows`: what holds when nobody is inside |
| `McpServerProofs` | `StoredBreakpointsLive`: `[]BreakpointsLive` | `LastValue`: a source that no two calls set at once is pending in one call at most, with the lines stored last |
| `LibraryProofs` | `SortsSafely`: `SortSpec => []SortIsSafe`, for any list of integers and any answers of the order function | `SortInv`: the ranges still to be sorted do not overlap (`Apart`) and both scans of a partition have the pivot as a sentinel (`Placed`), whatever the answers; with an order, two items out of order lie in one range (`OnlyWithin`) and the scanned part of the current range is on the right side of the pivot (`Partitioned`). `SplitRange` shows that a range may be split at the pivot, `SwapCounts` that a swap keeps every item |
| `LibraryProofs` | `ArithmeticForAllWords`, `RangesForAllWords` and, both together, `CallsForAllWords`: `Spec => []CallsAreExact`, for words of every size | nothing but `2 ^ W` depends on the size, and that it is even and positive comes from the number of subsets of a set (`PowerOfTwo`). A division is determined by its remainder (`Quotient`), a shift by the sum of powers (`PowerSum`, `LongShift`). The turn count of the for loop is compared with the set of its turns (`TurnsAreFirst`). `ForIndex` and the copying loops of `TableLib` are recursive functions or folds: a closed form satisfies their recursion, and no other function does (`SetInduction`, `CopiesWhat`, `AcrossWhat`), in either direction; `table.move` never reads a position it has written (`CopiesUp`, `CopiesDown`) |
| `LibraryProofs` | `Utf8ForAllTexts`: `Spec => []Utf8Agrees`, for every sequence of bytes and every sequence of code points up to 2^31 - 1 | Decoding a byte sequence (`DecodesAlways`): a first byte announces exactly the continuation bytes it is the first byte of (`LeadAnnounces`), a value is determined by its six-bit digits (`DigitsOf`, `SameDigits`), and `utf8limits` refuses exactly what fewer bytes could hold (`LimitsTell`), so what is accepted is what `utf8esc` writes, and no two encodings stand at one place (`WrittenUnique`). A text: `char` lays its code points out so that only a character's first byte is not a continuation byte (`CharLaid`). The loops of `len`, `codepoint`, `codes` and `offset` then have closed forms in the ends of the characters (`CodesRead`, `CodesIterated`, `GoesForward`, `GoesBack`); in strict mode `len` stops at the first code point it refuses (`LenWhenRefused`) |
| `DapAdapterProofs` | `TypeCorrect`, `FlagTellsTruth`: `[]PausedTellsTruth`, `ClientsBreakpointsApplied`: `[]BreakpointsApplied` | `PumpAhead`: while the pump handles a stop it works alone, the program parked and nothing admitted; `FlagHolds`: the flag and each admitted request are about the present stop; `Clean`: from the reset on, the handles and the values the reader renders are of the present stop, unless the reset found a reader with older values |

Only model-checked:

- the liveness properties `HandoffCompletes`, `QueueDrains`, `PauseInterrupts`,
  `StopsAndEndReported`, `AdmittedIsServed` and `SortEnds`: liveness under fairness
  and ENABLED are out of the prover's reach;
- `Scopes`, whose generated code is followed by recursive functions over it, and
  `Expressions` (`CodeComputes`, `ConstructorFills`, `RegistersAndJumps`) and the
  properties of `Library` about patterns and pack (`PatternsMatch`,
  `PackRoundTrips`), whose modules recurse over expressions, patterns and formats
  with RECURSIVE operators, for which the prover has no arithmetic. Recursion by a
  function or a fold is within reach, as `BudgetIsExact`, `CallsForAllWords` and
  `Utf8ForAllTexts` show: the induction is over a set of numbers that is named in
  the proof, not over a predicate.

## 6. Not modelled, and why

- Call frames and upvalues beyond what coroutines and scopes need (argument
  adjustment, varargs, growth of the stack), hook dispatch and the debug library,
  dumping and undumping: step H of the plan, left out. In `Coroutine`, the operands
  of an instruction that promotion re-executes, which belong to the same step.
- Floats and their conversions, in the interpreter, in the code generator's
  constants, in `pack` and in `math`: TLC has no floats.
- The lexer (a function of the text; the parsers start from tokens), line
  information, syntax errors other than those of labels and gotos, and the bit layout
  of instructions.
- `string.format`, I/O and OS libraries, the package loader, transports, framing
  and JSON (so neither the sequence numbers the DAP codec assigns before it takes
  its write lock), the disassembler, command line tools: I/O and text.
- In `Library`: the `plain` argument of `find`, replacements by a function in `gsub`,
  and patterns anchored with `^`; the test of `string.packsize` for a result that is
  too large, which the checked formats do not reach; and in `Sort`, the items are read
  and written back in one step each, so a table with `__index` or `__newindex`
  metamethods is left out.
- In `McpServer`, the table of inline sources and `get_source`; in `DapAdapter`,
  initialize, threads and source references; in `DebugSession`, `AddBreakpoint` and
  `RemoveBreakpoint`, which no front end calls, and evaluation that never ends.
