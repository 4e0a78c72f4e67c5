------------------------------- MODULE Scopes -------------------------------
(***************************************************************************)
(* Blocks, local variables, gotos and the closing of captured variables:   *)
(* the statement part of src/lua/lparser.go and src/lua/lparser_codegen.go *)
(* as a state machine that parses one statement per step, and the compiled *)
(* function run with every condition going either way.                     *)
(*                                                                         *)
(* Expressions are left out: a local statement writes the registers of its *)
(* variables, a closure captures one variable, a condition is a test.  A   *)
(* jump holds the pc it goes to.  Every instruction remembers the          *)
(* variables in scope where it was emitted; the interpreter of the code    *)
(* does not read them, the properties do.                                  *)
(***************************************************************************)
EXTENDS Integers, Sequences, FiniteSets, SequencesExt, Functions

CONSTANTS
    Names,        \* names of local variables
    LabelNames,   \* names of labels
    Most,         \* how many statements of each sort the function has
    MaxStatements \* and how many in all

Sorts == {"local", "function", "block", "loop", "jump", "label", "return"}

ASSUME ScopesAssumption == "break" \notin LabelNames /\ Most \in [Sorts -> Nat]
                           /\ MaxStatements \in Nat

VARIABLES
    phase,    \* "parse", "rejected", "run", "returned"
    code,     \* the instructions emitted
    actvar,   \* variable descriptors; the array is never shrunk
    nactvar,  \* how many of them are active
    blocks,   \* the open blocks, innermost last
    labels,   \* labels in scope of the function
    gotos,    \* pending gotos and breaks
    needclose,\* the function has something to close when it returns
    parsed,   \* statements parsed, by sort
    ending,   \* the block must end here: after a return or a last label
    pc,       \* program counter of the run
    regs,     \* register -> the variable it holds and whether it is captured
    open      \* <<register, "upval" or "tbc">>: what is still to be closed

parseVars == <<code, actvar, nactvar, blocks, labels, gotos, needclose, parsed, ending>>
runVars == <<pc, regs, open>>
vars == <<phase, code, actvar, nactvar, blocks, labels, gotos, needclose, parsed, ending,
          pc, regs, open>>

NoJump == -1
NoVar == 0
-----------------------------------------------------------------------------
(***************************************************************************)
(* The compiler state as a record, so that helpers compose.                *)
(***************************************************************************)
Compiler == [code |-> code, actvar |-> actvar, nactvar |-> nactvar, blocks |-> blocks,
             labels |-> labels, gotos |-> gotos, needclose |-> needclose, error |-> FALSE]

Pc(c) == Len(c.code)
Block(c) == Last(c.blocks)

\* reglevel: compile-time constants occupy no register.
RECURSIVE RegLevel(_, _)
RegLevel(c, nvar) ==
    IF nvar = 0 THEN 0
    ELSE IF c.actvar[nvar].kind = "ctconst" THEN RegLevel(c, nvar - 1)
    ELSE c.actvar[nvar].ridx + 1

NVarStack(c) == RegLevel(c, c.nactvar)

InScope(c) == {c.actvar[i] : i \in {j \in 1 .. c.nactvar : c.actvar[j].kind # "ctconst"}}

Emit(c, op, a, to) ==
    [c EXCEPT !.code = Append(@, [op |-> op, a |-> a, to |-> to, k |-> 0, id |-> NoVar,
                                  scope |-> {<<v.ridx, v.id>> : v \in InScope(c)}])]

EmitVar(c, op, a, id) ==
    LET e == Emit(c, op, a, NoJump) IN [e EXCEPT !.code[Len(e.code)].id = id]

Patch(c, at, to) == IF at = NoJump THEN c ELSE [c EXCEPT !.code[at + 1].to = to]
PatchToHere(c, at) == Patch(c, at, Pc(c))

\* new_localvar reuses the slots of variables that went out of scope; the id
\* of a variable is its position in the order of declarations.
NewLocalVar(c, name, kind, id) ==
    LET vd == [name |-> name, kind |-> kind, ridx |-> 0, id |-> id]
        n == c.nactvar + 1
    IN [c EXCEPT !.actvar = IF n <= Len(@) THEN [@ EXCEPT ![n] = vd] ELSE Append(@, vd)]

NextReg(c) == RegLevel(c, c.nactvar)

\* adjustlocalvars, for one variable.
AdjustLocalVar(c) ==
    [c EXCEPT !.nactvar = @ + 1, !.actvar[c.nactvar + 1].ridx = NextReg(c)]

Declare(c, name, kind, id) == AdjustLocalVar(NewLocalVar(c, name, kind, id))

RemoveVars(c, tolevel) == [c EXCEPT !.nactvar = tolevel]

\* searchvar: the last active variable of that name, 0 if there is none.
SearchVar(c, name) ==
    LET found == {i \in 1 .. c.nactvar : c.actvar[i].name = name} IN
    IF found = {} THEN 0 ELSE CHOOSE i \in found : \A j \in found : j <= i

\* markupval: the block that declares the variable at a level.
MarkUpval(c, level) ==
    LET b == CHOOSE i \in DOMAIN c.blocks :
                 /\ c.blocks[i].nactvar < level
                 /\ \A j \in i + 1 .. Len(c.blocks) : c.blocks[j].nactvar >= level
    IN [c EXCEPT !.blocks[b].upval = TRUE, !.needclose = TRUE]

MarkToBeClosed(c) ==
    [c EXCEPT !.blocks[Len(c.blocks)].upval = TRUE, !.blocks[Len(c.blocks)].insidetbc = TRUE,
              !.needclose = TRUE]

-----------------------------------------------------------------------------
(***************************************************************************)
(* Gotos and labels.                                                       *)
(***************************************************************************)
NewGotoEntry(c, name, at) ==
    [c EXCEPT !.gotos = Append(@, [name |-> name, pc |-> at, nactvar |-> c.nactvar,
                                   close |-> FALSE])]

FindLabel(c, name) == {i \in DOMAIN c.labels : c.labels[i].name = name}

\* Mutant: a goto may jump over the declaration of a local variable.
EntersScopeNever(gt, label) == FALSE

EntersScope(gt, label) == gt.nactvar < label.nactvar

\* solvegotos: the pending gotos of the block that name the label.
SolveGotos(c, label) ==
    LET first == Block(c).firstgoto
        mine == {i \in first .. Len(c.gotos) : c.gotos[i].name = label.name}
        patched == FoldLeft(LAMBDA acc, i : IF i \in mine THEN Patch(acc, c.gotos[i].pc, label.pc)
                                            ELSE acc,
                            c, [i \in DOMAIN c.gotos |-> i])
    IN [c |-> [patched EXCEPT
                 !.gotos = LET left == SelectSeq([i \in DOMAIN @ |-> i], LAMBDA i : i \notin mine)
                           IN [i \in DOMAIN left |-> c.gotos[left[i]]],
                 !.error = @ \/ \E i \in mine : EntersScope(c.gotos[i], label)],
        close |-> \E i \in mine : c.gotos[i].close]

CloseAtLabel(solved, level) ==
    [solved EXCEPT !.c = IF solved.close THEN Emit(@, "CLOSE", level, NoJump) ELSE @]

CreateLabel(c, name, last) ==
    LET label == [name |-> name, pc |-> Pc(c),
                  nactvar |-> IF last THEN Block(c).nactvar ELSE c.nactvar]
    IN CloseAtLabel(SolveGotos([c EXCEPT !.labels = Append(@, label)], label), NVarStack(c))

\* movegotosout: a goto that leaves the scope of a captured variable closes it.
LeavesCaptured(c, gt, bl) == RegLevel(c, gt.nactvar) > RegLevel(c, bl.nactvar) /\ bl.upval

MoveGotosOut(c, bl) ==
    [c EXCEPT !.gotos = [i \in DOMAIN @ |->
        IF i < bl.firstgoto THEN @[i]
        ELSE [@[i] EXCEPT !.close = @ \/ LeavesCaptured(c, c.gotos[i], bl), !.nactvar = bl.nactvar]]]

-----------------------------------------------------------------------------
(***************************************************************************)
(* Blocks.  `stat' says which statement a block belongs to and `pending'   *)
(* which jumps and labels of that statement its end needs.                 *)
(***************************************************************************)
EnterBlock(c, isloop, stat, pending) ==
    [c EXCEPT !.blocks = Append(@, [isloop |-> isloop, nactvar |-> c.nactvar,
                                    firstlabel |-> Len(c.labels) + 1,
                                    firstgoto |-> Len(c.gotos) + 1, upval |-> FALSE,
                                    insidetbc |-> c.blocks # <<>> /\ Block(c).insidetbc,
                                    stat |-> stat, pending |-> pending])]

\* Mutant: only the block of a loop closes its variables.
CloseNeededInLoops(c, bl, hasclose) == Len(c.blocks) > 1 /\ bl.upval /\ bl.isloop

CloseNeeded(c, bl, hasclose) == ~hasclose /\ Len(c.blocks) > 1 /\ bl.upval

\* The label `break' of a loop, and whether it closes variables.
BreakLabel(c, bl) ==
    IF bl.isloop THEN CreateLabel(c, "break", FALSE) ELSE [c |-> c, close |-> FALSE]

CloseVariables(c, bl, broken) ==
    IF CloseNeeded(c, bl, broken.close)
    THEN Emit(broken.c, "CLOSE", RegLevel(c, bl.nactvar), NoJump) ELSE broken.c

PopBlock(c, bl) ==
    [c EXCEPT !.labels = SubSeq(@, 1, bl.firstlabel - 1), !.blocks = Front(@)]

UndefGotos(c) == [c EXCEPT !.error = @ \/ c.gotos # <<>>]

LeaveBlock(c) ==
    LET bl == Block(c)
        popped == PopBlock(CloseVariables(c, bl, BreakLabel(RemoveVars(c, bl.nactvar), bl)), bl)
    IN IF Len(c.blocks) > 1 THEN MoveGotosOut(popped, bl) ELSE UndefGotos(popped)

Apply(c) ==
    /\ phase' = IF c.error THEN "rejected" ELSE phase
    /\ code' = c.code /\ actvar' = c.actvar /\ nactvar' = c.nactvar /\ blocks' = c.blocks
    /\ labels' = c.labels /\ gotos' = c.gotos /\ needclose' = c.needclose
    /\ UNCHANGED runVars

\* The parser is at the start of a statement.
Statement(sort) ==
    /\ phase = "parse" /\ ~ending /\ parsed[sort] < Most[sort]
    /\ SumFunction(parsed) < MaxStatements
    /\ parsed' = [parsed EXCEPT ![sort] = @ + 1]

Id == SumFunction(parsed) + 1

-----------------------------------------------------------------------------
(***************************************************************************)
(* Statements.                                                             *)
(***************************************************************************)

\* localstat with one variable: a register, a compile-time constant, or a
\* variable to be closed.
LocalStat(name, kind) ==
    /\ Statement("local")
    /\ LET c == Compiler
           written == IF kind = "ctconst" THEN c ELSE EmitVar(c, "LOCAL", NVarStack(c), Id)
           declared == Declare(written, name, kind, Id)
       IN Apply(IF kind = "tbc"
                THEN Emit(MarkToBeClosed(declared), "TBC", NVarStack(c), NoJump)
                ELSE declared)
    /\ UNCHANGED ending

\* A function expression that uses a variable of this function.
FunctionUsing(name) ==
    /\ Statement("function")
    /\ LET c == Compiler
           i == SearchVar(c, name)
       IN /\ i # 0 /\ c.actvar[i].kind # "ctconst"
          /\ Apply(EmitVar(MarkUpval(c, i), "CLOSURE", c.actvar[i].ridx, c.actvar[i].id))
    /\ UNCHANGED ending

DoStat ==
    /\ Statement("block")
    /\ Apply(EnterBlock(Compiler, FALSE, "do", <<>>))
    /\ UNCHANGED ending

WhileStat ==
    /\ Statement("loop")
    /\ LET c == Compiler
           tested == Emit(c, "TEST", 0, NoJump)
       IN Apply(EnterBlock(EnterBlock(tested, TRUE, "while", <<Pc(c), Pc(c)>>), FALSE, "body", <<>>))
    /\ UNCHANGED ending

RepeatStat ==
    /\ Statement("loop")
    /\ LET c == Compiler
       IN Apply(EnterBlock(EnterBlock(c, TRUE, "repeat", <<Pc(c)>>), FALSE, "until", <<>>))
    /\ UNCHANGED ending

\* testThenBlock: pending is the jump over the block, and the jumps past the
\* whole statement.
IfStat ==
    /\ Statement("block")
    /\ LET c == Compiler
       IN Apply(EnterBlock(Emit(c, "TEST", 0, NoJump), FALSE, "then", <<Pc(c)>>))
    /\ UNCHANGED ending

\* `if c then break end' jumps out without a block; with more statements
\* after the break the block is skipped when the condition is false.
IfBreakStat ==
    /\ Statement("jump")
    /\ LET c == Compiler
           tested == Emit(c, "TEST", 0, NoJump)
           inside == NewGotoEntry(EnterBlock(tested, FALSE, "then", <<Pc(c) + 1>>), "break", Pc(c))
       IN \/ Apply(LeaveBlock(inside))
          \/ Apply(Emit(inside, "JMP", 0, NoJump))
    /\ UNCHANGED ending

\* A loop's state variables and its own ones get distinct ids.
StateId(i) == -(Id * 10 + i)

DeclareState(c, n) ==
    FoldLeft(LAMBDA acc, i : Declare(acc, "(for state)", "state", StateId(i)),
             c, [i \in 1 .. n |-> i])

ForNum(name) ==
    /\ Statement("loop")
    /\ LET c == EnterBlock(Compiler, TRUE, "for", <<>>)
           base == NVarStack(c)
           state == DeclareState(EmitVar(c, "FORPREP", base, Id), 3)
           inner == EnterBlock(state, FALSE, "fornum", <<Pc(c), base>>)
       IN Apply(EnterBlock(Declare(inner, name, "reg", Id), FALSE, "body", <<>>))
    /\ UNCHANGED ending

ForList(name) ==
    /\ Statement("loop")
    /\ LET c == EnterBlock(Compiler, TRUE, "for", <<>>)
           base == NVarStack(c)
           state == MarkToBeClosed(DeclareState(EmitVar(c, "TFORPREP", base, Id), 4))
           inner == EnterBlock(state, FALSE, "forlist", <<Pc(c), base>>)
       IN Apply(EnterBlock(Declare(inner, name, "reg", Id), FALSE, "body", <<>>))
    /\ UNCHANGED ending

GotoStat(name) ==
    /\ Statement("jump")
    /\ LET c == Compiler
           found == FindLabel(c, name)
           lb == c.labels[CHOOSE i \in found : \A j \in found : i <= j]
           level == RegLevel(c, lb.nactvar)
           back == IF NVarStack(c) > level THEN Emit(c, "CLOSE", level, NoJump) ELSE c
       IN Apply(IF found = {} THEN NewGotoEntry(Emit(c, "JMP", 0, NoJump), name, Pc(c))
                ELSE Emit(back, "JMP", 0, lb.pc))
    /\ UNCHANGED ending

BreakStat ==
    /\ Statement("jump")
    /\ Apply(NewGotoEntry(Emit(Compiler, "JMP", 0, NoJump), "break", Pc(Compiler)))
    /\ UNCHANGED ending

\* blockFollow(false): a label at the end of a block, but not before `until',
\* is outside the scope of the block's variables.
LabelStat(name, last) ==
    /\ Statement("label")
    /\ last => Block(Compiler).stat # "until"
    /\ LET c == Compiler
       IN Apply(IF FindLabel(c, name) # {} THEN [c EXCEPT !.error = TRUE]
                ELSE CreateLabel(c, name, last).c)
    /\ ending' = last

\* `return f()': a tail call would leave nothing behind to close a variable.
RetStat ==
    /\ Statement("return")
    /\ LET c == Compiler
       IN Apply(Emit(c, IF Block(c).insidetbc THEN "RETURN" ELSE "TAILCALL", 0, NoJump))
    /\ ending' = TRUE

-----------------------------------------------------------------------------
(***************************************************************************)
(* The ends of blocks.                                                     *)
(***************************************************************************)
EndOf(stats) == phase = "parse" /\ Block(Compiler).stat \in stats /\ ending' = FALSE /\ UNCHANGED parsed

Enclosing == blocks[Len(blocks) - 1]

\* A last label belongs to a block that ends here.
EndDo ==
    /\ EndOf({"do"})
    /\ Apply(LeaveBlock(Compiler))

EndWhile ==
    /\ EndOf({"body"})
    /\ Enclosing.stat = "while"
    /\ LET again == Emit(LeaveBlock(Compiler), "JMP", 0, Enclosing.pending[1])
       IN Apply(PatchToHere(LeaveBlock(again), Enclosing.pending[2]))

\* A loop whose body's variables were captured closes them on both ways out:
\* exit is the jump out of the loop, condexit the one back to its start.
CloseRepeat(c, condexit, init, level) ==
    LET exit == Pc(c)
        closing == Emit(Patch(Emit(c, "JMP", 0, NoJump), condexit, exit + 1), "CLOSE", level, NoJump)
    IN PatchToHere(Emit(closing, "JMP", 0, init), exit)

EndRepeat ==
    /\ EndOf({"until"})
    /\ LET c == Compiler
           scope == LeaveBlock(Emit(c, "TEST", 0, NoJump))
           init == Enclosing.pending[1]
       IN Apply(LeaveBlock(IF Block(c).upval
                           THEN CloseRepeat(scope, Pc(c), init, RegLevel(c, Block(c).nactvar))
                           ELSE Patch(scope, Pc(c), init)))

EndIf ==
    /\ EndOf({"then", "else"})
    /\ Apply(PatchToHere(LeaveBlock(Compiler), Block(Compiler).pending[1]))

ElseBlock(c, skip) ==
    EnterBlock(PatchToHere(Emit(c, "JMP", 0, NoJump), skip), FALSE, "else", <<Pc(c)>>)

ElseStat ==
    /\ EndOf({"then"})
    /\ Apply(ElseBlock(LeaveBlock(Compiler), Block(Compiler).pending[1]))

\* forbody after the block: the jumps of the loop instructions.
ForLoop(c, bl) ==
    LET prep == bl.pending[1]
        loop == EmitVar(PatchToHere(c, prep),
                        IF bl.stat = "forlist" THEN "TFORLOOP" ELSE "FORLOOP",
                        bl.pending[2], c.code[prep + 1].id)
    IN Patch(loop, Pc(c), prep + 1)

EndFor ==
    /\ EndOf({"body"})
    /\ Enclosing.stat \in {"fornum", "forlist"}
    /\ Apply(LeaveBlock(ForLoop(LeaveBlock(LeaveBlock(Compiler)), Enclosing)))

\* closefunc and the final pass, which marks the returns that close.
FinishReturn(i, needed) ==
    IF i.op \in {"RETURN", "RETURN0", "TAILCALL"} /\ needed THEN [i EXCEPT !.k = 1] ELSE i

CloseFunction(c) ==
    /\ phase' = IF c.error THEN "rejected" ELSE "run"
    /\ code' = [i \in DOMAIN c.code |-> FinishReturn(c.code[i], c.needclose)]
    /\ actvar' = <<>> /\ nactvar' = 0 /\ blocks' = <<>> /\ labels' = <<>> /\ gotos' = <<>>
    /\ needclose' = c.needclose
    /\ UNCHANGED runVars

\* Then the function is called.
EndFunction ==
    /\ EndOf({"function"})
    /\ CloseFunction(LeaveBlock(Emit(Compiler, "RETURN0", NVarStack(Compiler), NoJump)))

-----------------------------------------------------------------------------
(***************************************************************************)
(* The run.                                                                *)
(***************************************************************************)
Current == code[pc + 1]
Running(ops) == phase = "run" /\ Current.op \in ops

Goto(p) == pc' = p
Fresh(id) == [id |-> id, captured |-> FALSE]
Write(r, id) == [q \in DOMAIN regs \cup {r} |-> IF q = r THEN Fresh(id) ELSE regs[q]]
From(lowest) == {o \in open : o[1] >= lowest}

ExecLocal ==
    /\ Running({"LOCAL"})
    /\ regs' = Write(Current.a, Current.id)
    /\ Goto(pc + 1)
    /\ UNCHANGED <<phase, open>>

\* OP_CLOSURE finds or makes the open upvalue; OP_TBC registers the variable.
ExecCapture ==
    /\ Running({"CLOSURE", "TBC"})
    /\ open' = open \cup {<<Current.a, IF Current.op = "TBC" THEN "tbc" ELSE "upval">>}
    /\ regs' = [regs EXCEPT ![Current.a].captured = @ \/ Current.op = "CLOSURE"]
    /\ Goto(pc + 1)
    /\ UNCHANGED phase

ExecClose ==
    /\ Running({"CLOSE"})
    /\ open' = open \ From(Current.a)
    /\ Goto(pc + 1)
    /\ UNCHANGED <<phase, regs>>

ExecJump ==
    /\ Running({"JMP", "TEST"})
    /\ \/ Goto(Current.to)
       \/ Current.op = "TEST" /\ Goto(pc + 1)
    /\ UNCHANGED <<phase, regs, open>>

\* The loop's state goes to the first registers, the control variable after
\* them; a generic loop's fourth value is to be closed.
StateWidth(op) == IF op \in {"FORPREP", "FORLOOP"} THEN 3 ELSE 4

Loop(n, width, id) ==
    [q \in DOMAIN regs \cup n .. n + width |->
        CASE q >= n /\ q < n + width -> Fresh(-(id * 10 + q - n + 1))
          [] q = n + width -> Fresh(id)
          [] OTHER -> regs[q]]

ExecForPrep ==
    /\ Running({"FORPREP", "TFORPREP"})
    /\ regs' = Loop(Current.a, StateWidth(Current.op), Current.id)
    /\ \/ /\ Current.op = "FORPREP" /\ Goto(pc + 1)
          /\ UNCHANGED open
       \/ /\ Current.op = "FORPREP" /\ Goto(Current.to + 1)
          /\ UNCHANGED open
       \/ /\ Current.op = "TFORPREP" /\ Goto(Current.to)
          /\ open' = open \cup {<<Current.a + 3, "tbc">>}
    /\ UNCHANGED phase

ExecForLoop ==
    /\ Running({"FORLOOP", "TFORLOOP"})
    /\ \/ Goto(pc + 1) /\ UNCHANGED regs
       \/ Goto(Current.to) /\ regs' = Loop(Current.a, StateWidth(Current.op), Current.id)
    /\ UNCHANGED <<phase, open>>

\* k: the frame closes what it has open.
ExecReturn ==
    /\ Running({"RETURN", "RETURN0", "TAILCALL"})
    /\ phase' = "returned"
    /\ open' = IF Current.k = 1 THEN {} ELSE open
    /\ UNCHANGED <<pc, regs>>

Init ==
    /\ phase = "parse"
    /\ code = <<>> /\ actvar = <<>> /\ nactvar = 0 /\ labels = <<>> /\ gotos = <<>>
    /\ blocks = <<[isloop |-> FALSE, nactvar |-> 0, firstlabel |-> 1, firstgoto |-> 1,
                   upval |-> FALSE, insidetbc |-> FALSE, stat |-> "function", pending |-> <<>>]>>
    /\ needclose = FALSE /\ parsed = [s \in Sorts |-> 0] /\ ending = FALSE
    /\ pc = 0 /\ regs = <<>> /\ open = {}

Parse ==
    \/ \E name \in Names : \/ \E kind \in {"reg", "ctconst", "tbc"} : LocalStat(name, kind)
                           \/ FunctionUsing(name) \/ ForNum(name) \/ ForList(name)
    \/ DoStat \/ WhileStat \/ RepeatStat \/ IfStat \/ IfBreakStat \/ BreakStat
    \/ \E name \in LabelNames : GotoStat(name) \/ \E last \in BOOLEAN : LabelStat(name, last)
    \/ RetStat
    \/ EndDo \/ EndWhile \/ EndRepeat \/ EndIf \/ ElseStat \/ EndFor \/ EndFunction

Run ==
    /\ \/ ExecLocal \/ ExecCapture \/ ExecClose \/ ExecJump \/ ExecForPrep \/ ExecForLoop
       \/ ExecReturn
    /\ UNCHANGED parseVars

Next == Parse \/ Run

Spec == Init /\ [][Next]_vars

-----------------------------------------------------------------------------
\* The instructions whose expressions may use any variable in scope.
Uses == {"LOCAL", "CLOSURE", "TEST", "TBC", "FORPREP", "TFORPREP", "RETURN", "TAILCALL"}

\* No goto, break or loop enters the scope of a local variable: wherever an
\* instruction can use a variable, its register holds that variable, from
\* its latest declaration (solveGoto's check, the registers that leaveBlock
\* and adjustLocalVars hand out).
LocalsAreInitialised ==
    Running(Uses) =>
        \A v \in Current.scope : v[1] \in DOMAIN regs /\ regs[v[1]].id = v[2]

\* A captured variable is closed on every way out of its scope and not
\* before: no instruction runs with an upvalue or a pending close open on a
\* register above the variables in scope, so that no new variable shares a
\* register with a captured one; a variable in scope shares its register with
\* the closures made of it; a tail call leaves no variable to be closed, and
\* a function returns with everything closed (leaveBlock, createLabel,
\* moveGotosOut, gotostat, repeatstat, retstat).
CapturedAreClosed ==
    /\ Running(Uses) =>
         {o[1] : o \in open} \subseteq {v[1] : v \in Current.scope}
    /\ Running(Uses) =>
         \A v \in Current.scope : regs[v[1]].captured => <<v[1], "upval">> \in open
    /\ Running({"TAILCALL"}) => \A o \in open : o[2] # "tbc"
    /\ phase = "returned" => open = {}
=============================================================================
