---------------------------- MODULE Expressions -----------------------------
(***************************************************************************)
(* The expression parser of src/lua/lparser.go driving the code generator, *)
(* and the compiled statement run against what the language defines.       *)
(*                                                                         *)
(* A statement is parsed from tokens.  An expression is a sequence of      *)
(* operator tokens and operands; an operand (what simpleexp and            *)
(* suffixedexp read) is one record whose fields hold its own expressions.  *)
(* The frame has four local variables: a value, a table, a value and the   *)
(* function that returns its arguments; upvalue 1 is a table (as _ENV is)  *)
(* and upvalue 2 a value.                                                  *)
(***************************************************************************)
EXTENDS Bytecode

CONSTANTS
    Statements,     \* the statements compiled, a sequence of sets
    Frames,         \* the frames they run in
    FieldsPerFlush  \* list items a constructor keeps in registers

VARIABLES
    statement,  \* what is compiled
    proto,      \* its code and constants, <<>> before
    frame,      \* the frame it starts in
    final       \* the frame after the run

vars == <<statement, proto, frame, final>>

NumLocals == 4
TableReg == 1
FuncReg == 3

Op(op) == [n |-> "op", op |-> op]
Un(op) == [n |-> "un", op |-> op]

-----------------------------------------------------------------------------
(***************************************************************************)
(* Parsing.                                                                *)
(***************************************************************************)

\* The priorities to the left and to the right of an operator.
Priority(op) ==
    CASE op = "or" -> <<1, 1>>
      [] op = "and" -> <<2, 2>>
      [] op \in {"eq", "ne", "lt", "le", "gt", "ge"} -> <<3, 3>>
      [] op = "band" -> <<6, 6>>
      [] op \in {"shl", "shr"} -> <<7, 7>>
      [] op = "concat" -> <<9, 8>>
      [] op \in {"add", "sub"} -> <<10, 10>>
      [] op \in {"mul", "mod", "idiv"} -> <<11, 11>>

UnaryPriority == 12

HasMultRet(e) == e.k \in {"VCALL", "VVARARG"}

SetMultRet(p) == SetReturns(p, -1)

RECURSIVE SimpleExp(_, _), SubExpr(_, _, _), BinaryLoop(_, _), ExpList(_, _), Fields(_, _, _)

\* expr: the descriptor of a whole expression.
Expr(fs, toks) == SubExpr(fs, toks, 0)

\* explist: every expression but the last is in the next register.
MoreExps(p, exps) == IF exps = <<>> THEN p ELSE ExpList(Exp2NextReg(p).fs, exps)

ExpList(fs, exps) == MoreExps(Expr(fs, Head(exps)), Tail(exps))

\* funcargs, after the function was put in register `base'; a call with an
\* open list of arguments has nparams -1.
EmitCall(fs, base, nparams) ==
    [fs |-> [Emit(fs, Ins("CALL", base, nparams + 1, 2, 0)) EXCEPT !.freereg = base + 1],
     e |-> Exp("VCALL", Pc(fs))]

CallFixed(fs, base) == EmitCall(fs, base, fs.freereg - (base + 1))

CallWithList(p, base) ==
    IF HasMultRet(p.e) THEN EmitCall(SetMultRet(p), base, -1) ELSE CallFixed(Exp2NextReg(p).fs, base)

FuncArgs(callee, exps) ==
    LET base == callee.e.info
    IN IF exps = <<>> THEN CallFixed(callee.fs, base)
       ELSE CallWithList(ExpList(callee.fs, exps), base)

\* yindex or fieldsel: the key of an index or of a field.
Key(fs, key) ==
    IF key[1].n = "name" THEN [fs |-> fs, e |-> Exp("VKSTR", key[1].str)] ELSE Exp2Val(Expr(fs, key))

IndexWith(table, key) == Indexed(table.e, Key(table.fs, key))

\* constructor: list items wait in registers until FieldsPerFlush of them
\* are stored together; the last one may stand for many.  `cc' is the state
\* [fs, na, tostore, last] of consControl, last the pending item or <<>>.
FlushList(fs, t, na, tostore) ==
    IF tostore = FieldsPerFlush
    THEN [fs |-> SetList(fs, t, na, tostore), na |-> na + tostore, tostore |-> 0]
    ELSE [fs |-> fs, na |-> na, tostore |-> tostore]

LastItem(cc) == [fs |-> cc.fs, e |-> cc.last[1]]

CloseListField(t, cc) ==
    IF cc.last = <<>> THEN cc ELSE FlushList(Exp2NextReg(LastItem(cc)).fs, t, cc.na, cc.tostore)

LastListField(t, cc) ==
    LET multi == cc.last # <<>> /\ HasMultRet(cc.last[1])
        stored == IF cc.last = <<>> THEN cc.fs ELSE Exp2NextReg(LastItem(cc)).fs
    IN CASE cc.tostore = 0 -> [fs |-> cc.fs, na |-> cc.na]
         [] cc.tostore # 0 /\ multi -> [fs |-> SetList(SetMultRet(LastItem(cc)), t, cc.na, 0),
                                        na |-> cc.na + cc.tostore - 1]
         [] OTHER -> [fs |-> SetList(stored, t, cc.na, cc.tostore), na |-> cc.na + cc.tostore]

StoreValue(var, p) == StoreVar(p.fs, var, p.e)

StoreField(field, toks) == StoreValue(field.e, Expr(field.fs, toks))

RecField(fs, t, field) ==
    [StoreField(IndexWith([fs |-> fs, e |-> Exp("VNONRELOC", t)], field.key), field.value)
        EXCEPT !.freereg = fs.freereg]

\* One field, after the item before it was closed.
ListField(cc, p) == [fs |-> p.fs, na |-> cc.na, tostore |-> cc.tostore + 1, last |-> <<p.e>>]

Field1(cc, t, field) ==
    IF field.key = <<>> THEN ListField(cc, Expr(cc.fs, field.value))
    ELSE [fs |-> RecField(cc.fs, t, field), na |-> cc.na, tostore |-> cc.tostore, last |-> <<>>]

Fields(t, cc, fields) ==
    IF fields = <<>> THEN LastListField(t, cc)
    ELSE Fields(t, Field1(CloseListField(t, cc), t, Head(fields)), Tail(fields))

SizeTable(filled, pc, t) ==
    [fs |-> SetTableSize(filled.fs, pc, t, filled.na), e |-> Exp("VNONRELOC", t)]

Constructor(fs, fields) ==
    LET opened == ReserveRegs(Emit(Emit(fs, Ins("NEWTABLE", 0, 0, 0, 0)),
                                   Ins("EXTRAARG", 0, 0, 0, 0)), 1)
    IN SizeTable(Fields(fs.freereg, [fs |-> opened, na |-> 0, tostore |-> 0, last |-> <<>>], fields),
                 Pc(fs), fs.freereg)

\* What a call needs in registers: the function, for a method also its object.
Callee(fs, o) ==
    IF o.n = "call" THEN Exp2NextReg(SimpleExp(fs, o.callee))
    ELSE Self(SimpleExp(fs, o.object), Exp("VKSTR", o.name))

\* simpleexp, suffixedexp and primaryexp.
SimpleExp(fs, o) ==
    CASE o.n = "nil"   -> [fs |-> fs, e |-> Exp("VNIL", 0)]
      [] o.n = "true"  -> [fs |-> fs, e |-> Exp("VTRUE", 0)]
      [] o.n = "false" -> [fs |-> fs, e |-> Exp("VFALSE", 0)]
      [] o.n = "int"   -> [fs |-> fs, e |-> Exp("VKINT", o.int)]
      [] o.n = "str"   -> [fs |-> fs, e |-> Exp("VKSTR", o.str)]
      [] o.n = "vararg" -> [fs |-> Emit(fs, Ins("VARARG", 0, 0, 1, 0)), e |-> Exp("VVARARG", Pc(fs))]
      [] o.n = "local" -> [fs |-> fs, e |-> Exp("VLOCAL", o.reg)]
      [] o.n = "upval" -> [fs |-> fs, e |-> Exp("VUPVAL", o.up)]
      [] o.n = "const" -> [fs |-> fs, e |-> Exp("VCONST", o.val)]
      [] o.n = "paren" -> DischargeVars(Expr(fs, o.toks))
      [] o.n = "index" -> IndexWith(Exp2AnyRegUp(SimpleExp(fs, o.table)), o.key)
      [] o.n \in {"call", "method"} -> FuncArgs(Callee(fs, o), o.args)
      [] o.n = "table" -> Constructor(fs, o.fields)

\* The operators after an operand, while they bind more than the limit.
WithRest(p, rest) == [fs |-> p.fs, e |-> p.e, rest |-> rest]

BothOperands(op, e1, right) == WithRest(Posfix(op, e1, right), right.rest)

RightOperand(op, left, rest) ==
    BothOperands(op, left.e, SubExpr(left.fs, rest, Priority(op)[2]))

BinaryLoop(p, limit) ==
    IF p.rest = <<>> \/ Priority(Head(p.rest).op)[1] <= limit THEN p
    ELSE LET op == Head(p.rest).op
         IN BinaryLoop(RightOperand(op, Infix(op, p), Tail(p.rest)), limit)

UnaryOperand(op, p) == WithRest(Prefix(op, p), p.rest)

SubExpr(fs, toks, limit) ==
    BinaryLoop(IF Head(toks).n = "un"
               THEN UnaryOperand(Head(toks).op, SubExpr(fs, Tail(toks), UnaryPriority))
               ELSE WithRest(SimpleExp(fs, Head(toks)), Tail(toks)), limit)

-----------------------------------------------------------------------------
(***************************************************************************)
(* Statements.                                                             *)
(***************************************************************************)
AddNils(fs, needed) == IF needed > 0 THEN LoadNil(fs, fs.freereg, needed) ELSE fs

TakeRegs(fs, needed) ==
    IF needed > 0 THEN ReserveRegs(fs, needed) ELSE [fs EXCEPT !.freereg = @ + needed]

AdjustAssign(nvars, nexps, p) ==
    LET needed == nvars - nexps
    IN TakeRegs(IF HasMultRet(p.e) THEN SetReturns(p, IF needed + 1 < 0 THEN 0 ELSE needed + 1)
                ELSE AddNils(Exp2NextReg(p).fs, needed), needed)

IsIndexed(v) == v.k \in {"VINDEXED", "VINDEXUP", "VINDEXI", "VINDEXSTR"}

Conflicts(v, lh) ==
    \/ lh.k = "VINDEXUP" /\ v.k = "VUPVAL" /\ lh.tab = v.info
    \/ IsIndexed(lh) /\ lh.k # "VINDEXUP" /\ v.k = "VLOCAL" /\ lh.tab = v.info
    \/ lh.k = "VINDEXED" /\ v.k = "VLOCAL" /\ lh.idx = v.info

\* An earlier target that uses the assigned variable uses a copy of it.
Rescue(v, lh, extra) ==
    IF ~Conflicts(v, lh) THEN lh
    ELSE IF lh.k = "VINDEXUP" THEN [lh EXCEPT !.k = "VINDEXSTR", !.tab = extra]
    ELSE [lh EXCEPT !.tab = IF @ = v.info THEN extra ELSE @,
                    !.idx = IF lh.k = "VINDEXED" /\ @ = v.info THEN extra ELSE @]

CheckConflict(lhs, p) ==
    LET v == p.e
        extra == p.fs.freereg
        copy == Emit(p.fs, Ins(IF v.k = "VLOCAL" THEN "MOVE" ELSE "GETUPVAL", extra, v.info, 0, 0))
        conflict == ~IsIndexed(v) /\ \E i \in DOMAIN lhs : Conflicts(v, lhs[i])
    IN IF ~conflict THEN [fs |-> p.fs, lhs |-> Append(lhs, v)]
       ELSE [fs |-> ReserveRegs(copy, 1),
             lhs |-> Append([i \in DOMAIN lhs |-> Rescue(v, lhs[i], extra)], v)]

\* restassign: the targets from left to right, the values, then the stores
\* from right to left.
ParseTargets(fs, targets) ==
    FoldLeft(LAMBDA acc, o : CheckConflict(acc.lhs, SimpleExp(acc.fs, o)),
             [fs |-> fs, lhs |-> <<>>], targets)

StoreLast(fs, lhs) ==
    FoldRight(LAMBDA v, acc : StoreVar(acc, v, Exp("VNONRELOC", acc.freereg - 1)), lhs, fs)

StoreAll(lhs, nexps, p) ==
    IF nexps = Len(lhs) THEN StoreLast(StoreValue(Last(lhs), SetOneRet(p)), Front(lhs))
    ELSE StoreLast(AdjustAssign(Len(lhs), nexps, p), lhs)

AssignTo(parsed, exps) == StoreAll(parsed.lhs, Len(exps), ExpList(parsed.fs, exps))

RestAssign(fs, targets, exps) == AssignTo(ParseTargets(fs, targets), exps)

\* cond, and the jump over a block that returns nothing.
NilIsFalse(p) == [p EXCEPT !.e.k = IF @ = "VNIL" THEN "VFALSE" ELSE @]

ReturnUnless(p) == PatchToHere(Ret(p.fs, 0, 0), p.e.f)

Cond(fs, toks) == ReturnUnless(GoIfTrue(NilIsFalse(Expr(fs, toks))))

\* `first' is the first register after the local variables.
ReturnOpen(fs, e, nexps, first) ==
    Ret(IF e.k = "VCALL" /\ nexps = 1 THEN [fs EXCEPT !.code[e.info + 1].op = "TAILCALL"] ELSE fs,
        first, -1)

ReturnOne(p) == Ret(p.fs, p.e.info, 1)

ReturnList(p, nexps, first) ==
    CASE HasMultRet(p.e) -> ReturnOpen(SetMultRet(p), p.e, nexps, first)
      [] ~HasMultRet(p.e) /\ nexps = 1 -> ReturnOne(Exp2AnyReg(p))
      [] OTHER -> Ret(Exp2NextReg(p).fs, first, nexps)

RetStat(fs, exps) == ReturnList(ExpList(fs, exps), Len(exps), fs.nvar)

CompileStatement(s) ==
    LET fs == OpenFunc(NumLocals)
    IN Finish(CASE s.s = "local"  -> AdjustAssign(s.nvars, Len(s.exps), ExpList(fs, s.exps))
                [] s.s = "assign" -> RestAssign(fs, s.targets, s.exps)
                [] s.s = "if"     -> Cond(fs, s.exps[1])
                [] s.s = "return" -> RetStat(fs, s.exps),
              FALSE, TRUE)

-----------------------------------------------------------------------------
(***************************************************************************)
(* What the language defines.  Tables that the statement makes are counted *)
(* in the order they are made, as the heap does.                           *)
(***************************************************************************)

\* The binary operator that is applied last: the one that binds least, the
\* last of its level, or the first for concatenation.
Level(op) == CASE op = "or" -> 1 [] op = "and" -> 2
               [] op \in {"eq", "ne", "lt", "le", "gt", "ge"} -> 3
               [] op = "band" -> 4 [] op \in {"shl", "shr"} -> 5 [] op = "concat" -> 6
               [] op \in {"add", "sub"} -> 7 [] OTHER -> 8

BinaryAt(toks) == {i \in DOMAIN toks : toks[i].n = "op"}

SplitAt(toks) ==
    CHOOSE i \in BinaryAt(toks) :
        \A j \in BinaryAt(toks) \ {i} :
            LET a == toks[i].op
                b == toks[j].op
            IN \/ Level(a) < Level(b)
               \/ Level(a) = Level(b) /\ (IF a = "concat" THEN i < j ELSE j < i)

BinaryValue(op, x, y) ==
    CASE x = Undefined \/ y = Undefined -> Undefined
      [] op \in {"eq", "ne"} -> Bool((x = y) = (op = "eq"))
      [] op \in {"lt", "le"} /\ Ordered(x, y) -> Bool(Less(op, x, y))
      [] op \in {"gt", "ge"} /\ Ordered(x, y) -> Bool(Less(IF op = "gt" THEN "lt" ELSE "le", y, x))
      [] op = "concat" -> ConcatStep(x, y)
      [] op \in Arithmetic /\ BothInts(x, y) ->
           IF ValidOp(op, y.v) THEN Integer(IntArith(op, x.v, y.v)) ELSE Undefined
      [] op \in Arithmetic /\ ~BothInts(x, y) /\ HasMeta(x, y) -> MetaResult(op, x, y)
      [] OTHER -> Undefined

UnaryValue(op, x) ==
    CASE x = Undefined -> Undefined
      [] op = "not" /\ x # Undefined -> Bool(Falsy(x))
      [] op = "unm" /\ x.t = "int" -> Integer(ISub(0, x.v))
      [] op = "len" /\ x.t = "str" -> Integer(Digits(x.v))
      [] op \in {"unm", "len"} /\ x.t = "obj" -> MetaResult(op, x, x)
      [] OTHER -> Undefined

RECURSIVE Meaning(_, _), Values(_, _)

\* The values of a list: the last expression may give any number.
OperandValues(o, f) ==
    LET args == Values(o.args, f)
        callee == Meaning(<<o.callee>>, f)
    IN CASE o.n = "vararg" -> f.va
         [] o.n = "call" ->
              IF callee # Func \/ Undefined \in Range(args) THEN <<Undefined>> ELSE args
         [] o.n = "method" ->
              LET obj == Meaning(<<o.object>>, f)
              IN IF obj.t # "tab" \/ Field(f.heap[obj.v], Str(o.name)) # Func
                    \/ Undefined \in Range(args) THEN <<Undefined>>
                 ELSE <<obj>> \o args

IsMulti(toks) == Len(toks) = 1 /\ toks[1].n \in {"vararg", "call", "method"}

Values(exps, f) ==
    IF exps = <<>> THEN <<>>
    ELSE IF Len(exps) = 1 /\ IsMulti(exps[1]) THEN OperandValues(exps[1][1], f)
    ELSE <<Meaning(exps[1], f)>> \o Values(Tail(exps), f)

OperandValue(o, f) ==
    LET t == Meaning(<<o.table>>, f)
        k == IF o.key[1].n = "name" THEN Str(o.key[1].str) ELSE Meaning(o.key, f)
        vals == OperandValues(o, f)
    IN CASE o.n = "nil" -> Nil
         [] o.n = "true" -> Bool(TRUE)
         [] o.n = "false" -> Bool(FALSE)
         [] o.n = "int" -> Integer(o.int)
         [] o.n = "str" -> Str(o.str)
         [] o.n = "local" -> f.R[o.reg]
         [] o.n = "upval" -> f.up[o.up + 1]
         [] o.n = "const" -> o.val
         [] o.n = "paren" -> Meaning(o.toks, f)
         [] o.n = "index" -> IF t.t # "tab" \/ k = Undefined THEN Undefined
                             ELSE Field(f.heap[t.v], k)
         [] o.n = "table" -> Table(Len(f.heap) + 1)
         [] OTHER -> IF vals = <<>> THEN Nil ELSE vals[1]

Meaning(toks, f) ==
    LET i == SplitAt(toks)
        left == Meaning(SubSeq(toks, 1, i - 1), f)
        right == Meaning(SubSeq(toks, i + 1, Len(toks)), f)
    IN CASE Len(toks) = 1 -> OperandValue(toks[1], f)
         [] Len(toks) > 1 /\ BinaryAt(toks) = {} -> UnaryValue(toks[1].op, Meaning(Tail(toks), f))
         [] OTHER ->
              CASE toks[i].op = "and" /\ left # Undefined -> IF Falsy(left) THEN left ELSE right
                [] toks[i].op = "or" /\ left # Undefined -> IF Falsy(left) THEN right ELSE left
                [] left = Undefined -> Undefined
                [] OTHER -> BinaryValue(toks[i].op, left, right)

\* The fields of a constructor, the items numbered; only an item that is the
\* last field may give more than one value.
ConstructorFields(fields, f) ==
    LET items == SelectSeq(fields, LAMBDA x : x.key = <<>>)
        all == Values([i \in DOMAIN items |-> items[i].value], f)
        vals == IF fields # <<>> /\ Last(fields).key # <<>>
                THEN [i \in DOMAIN items |-> Meaning(items[i].value, f)] ELSE all
        keyOf(x) == IF x.key[1].n = "name" THEN Str(x.key[1].str) ELSE Meaning(x.key, f)
        named == FoldLeft(LAMBDA acc, x : WithField(acc, keyOf(x), Meaning(x.value, f)),
                          <<>>, SelectSeq(fields, LAMBDA x : x.key # <<>>))
    IN FoldLeft(LAMBDA acc, i : WithField(acc, Integer(i), vals[i]), named,
                [i \in DOMAIN vals |-> i])

NthValue(vals, i) == IF i <= Len(vals) THEN vals[i] ELSE Nil

\* One assignment; the table and the key were evaluated in f.
Assigned(g, o, v, f) ==
    LET t == Meaning(<<o.table>>, f)
        k == IF o.key[1].n = "name" THEN Str(o.key[1].str) ELSE Meaning(o.key, f)
    IN CASE o.n = "local" -> [g EXCEPT !.R[o.reg] = v]
         [] o.n = "upval" -> [g EXCEPT !.up[o.up + 1] = v]
         [] OTHER -> IF t.t # "tab" \/ k \in {Nil, Undefined} THEN Fail(g)
                     ELSE [g EXCEPT !.heap[t.v] = WithField(@, k, v)]

\* Every value is known before the first assignment.
AllAssigned(targets, vals, f) ==
    FoldRight(LAMBDA i, g : Assigned(g, targets[i], NthValue(vals, i), f),
              [i \in DOMAIN targets |-> i], f)
-----------------------------------------------------------------------------
NoFrame == [out |-> "none"]

Init ==
    /\ \E i \in DOMAIN Statements : statement \in Statements[i]
    /\ proto = <<>>
    /\ frame = NoFrame
    /\ final = NoFrame

\* luaY_parser: the statement is compiled to a prototype.
Compile ==
    /\ proto = <<>>
    /\ proto' = <<CompileStatement(statement)>>
    /\ UNCHANGED <<statement, frame, final>>

\* execute: the compiled code runs in a frame.
Call(f) ==
    /\ proto # <<>>
    /\ frame = NoFrame
    /\ frame' = f
    /\ final' = RunCode(proto[1].code, proto[1].consts, f)
    /\ UNCHANGED <<statement, proto>>

Next == Compile \/ \E f \in Frames : Call(f)

Spec == Init /\ [][Next]_vars

-----------------------------------------------------------------------------
Ran == frame # NoFrame

Results1(f) == Values(statement.exps, f)

\* A statement computes what the language defines, in every frame: the code
\* that the parser and the code generator emit, executed by the interpreter,
\* leaves the defined values in the local variables, upvalues, fields and
\* results, and fails when an operation is not defined (lcode.go, the
\* expression part of lparser.go, lvm_execute.go).
CodeComputes ==
    Ran =>
    LET vals == Results1(frame)
        undefined == Undefined \in Range(vals)
        g == AllAssigned(statement.targets, vals, frame)
    IN CASE undefined -> final.out = "error"
         [] ~undefined /\ statement.s = "local" ->
              /\ final.out = "running"
              /\ \A i \in 1 .. statement.nvars : final.R[NumLocals + i - 1] = NthValue(vals, i)
         [] ~undefined /\ statement.s = "if" ->
              (final.out = "return") = ~Falsy(NthValue(vals, 1))
         [] ~undefined /\ statement.s = "return" -> final.out = "return" /\ final.res = vals
         [] ~undefined /\ statement.s = "assign" ->
              \/ g.out = "error" /\ final.out = "error"
              \/ /\ g.out = "running" /\ final.out = "running"
                 /\ g.up = final.up /\ g.heap = final.heap
                 /\ \A r \in 0 .. NumLocals - 1 : g.R[r] = final.R[r]

\* A constructor makes a table with the items and fields it lists, however
\* many times its items are flushed from registers (closelistfield,
\* lastlistfield, luaK_setlist).
ConstructorFills ==
    Ran /\ final.out # "error" /\ statement.exps[1][1].n = "table" =>
        final.heap[Len(frame.heap) + 1] = ConstructorFields(statement.exps[1][1].fields, frame)

\* Temporary registers are a stack: every one is released while it is the
\* topmost (freeReg only decrements a counter).  Every register that an
\* instruction reads or writes, the ranges of calls, concatenations and lists
\* included, is below the stack size the prototype asks for (checkStack), and
\* no jump is left unpatched (patchlistaux).
RegistersAndJumps ==
    proto # <<>> =>
    LET p == proto[1] IN
    /\ p.inOrder
    /\ \A pc \in DOMAIN p.code :
         /\ Registers(p.code[pc]) \subseteq 0 .. p.max - 1
         /\ p.code[pc].op = "JMP" => p.code[pc].b # NoJump
                                     /\ pc + p.code[pc].b \in 0 .. Len(p.code)
=============================================================================
