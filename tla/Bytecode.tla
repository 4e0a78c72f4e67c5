------------------------------ MODULE Bytecode ------------------------------
(***************************************************************************)
(* The instructions that expressions and assignments compile to, as        *)
(* src/lua/lvm_execute.go executes them.                                   *)
(*                                                                         *)
(* Values are nil, booleans, words, strings, tables, one function that     *)
(* returns its arguments, and one object whose metamethods return a value  *)
(* that tells the event and both operands, in their order.  The strings    *)
(* are numbers whose decimal digits are the characters.                    *)
(***************************************************************************)
EXTENDS Codegen, Folds

Str(n) == Val("str", n)
\* The table at an index of the heap.
Table(n) == Val("tab", n)
Func == Val("fn", 0)
Object == Val("obj", 0)
Undefined == Val("undef", 0)

Events == <<"add", "sub", "mul", "idiv", "mod", "band", "shl", "shr", "concat", "unm", "len">>
TypeNumber == [nil |-> 0, true |-> 1, false |-> 2, int |-> 3, str |-> 4, tab |-> 5, fn |-> 6,
               obj |-> 7, res |-> 8]

\* Which event, and which operands in which order.
Code(v) == TypeNumber[v.t] * 64 + (v.v % 64)
EventNumber(event) == CHOOSE i \in DOMAIN Events : Events[i] = event
MetaResult(event, a, b) == Val("res", EventNumber(event) * 1000000 + Code(a) * 1000 + Code(b))
MetaOrder(op, a, b) == IF op = "lt" THEN Code(a) < Code(b) ELSE Code(a) <= Code(b)

HasMeta(a, b) == a.t = "obj" \/ b.t = "obj"
BothInts(a, b) == a.t = "int" /\ b.t = "int"

Concatable(v) == v.t \in {"int", "str"}

RECURSIVE Digits(_)
Digits(n) == IF n < 10 THEN 1 ELSE 1 + Digits(n \div 10)

\* The string of a number is one character here.
ToStr(v) == IF v.t = "int" THEN (v.v % 8) + 1 ELSE v.v
Join(a, b) == Str(ToStr(a) * 10 ^ Digits(ToStr(b)) + ToStr(b))

-----------------------------------------------------------------------------
(***************************************************************************)
(* The frame: program counter, registers, top, upvalues, the fields of     *)
(* every table, the extra arguments, and how it ended.                     *)
(***************************************************************************)
Frame(regs, up, heap, varargs) ==
    [pc |-> 0, R |-> regs, top |-> 0, up |-> up, heap |-> heap, va |-> varargs,
     out |-> "running", res |-> <<>>]

Fail(st) == [st EXCEPT !.out = "error"]
SetR(st, a, v) == [st EXCEPT !.R[a] = v, !.pc = @ + 1]
SetRange(st, a, vals) ==
    [st EXCEPT !.R = [r \in DOMAIN @ |-> IF r >= a /\ r < a + Len(vals)
                                         THEN vals[r - a + 1] ELSE @[r]]]

Field(fields, key) == IF key \in DOMAIN fields THEN fields[key] ELSE Nil
WithField(fields, key, v) == [k \in DOMAIN fields \cup {key} |-> IF k = key THEN v ELSE fields[k]]

GetTable(st, a, t, key) ==
    IF t.t # "tab" THEN Fail(st) ELSE SetR(st, a, Field(st.heap[t.v], key))

SetTable(st, t, key, v) ==
    IF t.t # "tab" \/ key = Nil THEN Fail(st)
    ELSE [st EXCEPT !.heap[t.v] = WithField(@, key, v), !.pc = @ + 1]

\* An arithmetic instruction skips the metamethod call that follows it.
ArithOp(st, i, op, x, y) ==
    CASE BothInts(x, y) /\ ValidOp(op, y.v) ->
           [SetR(st, i.a, Integer(IntArith(op, x.v, y.v))) EXCEPT !.pc = @ + 1]
      [] BothInts(x, y) /\ ~ValidOp(op, y.v) -> Fail(st)
      [] OTHER -> [st EXCEPT !.pc = @ + 1]

TryBinTM(st, a, x, y, event) ==
    IF HasMeta(x, y) THEN SetR(st, a, MetaResult(event, x, y)) ELSE Fail(st)

CondMatches(cond, k) == (IF cond THEN 1 ELSE 0) = k

\* condJump: take the jump that follows or skip it.
CondJumpTo(st, code, i, cond) ==
    [st EXCEPT !.pc = IF CondMatches(cond, i.k) THEN @ + 2 + code[@ + 2].b ELSE @ + 2]

Less(op, x, y) ==
    IF BothInts(x, y) \/ (x.t = "str" /\ y.t = "str")
    THEN IF op = "lt" THEN x.v < y.v ELSE x.v <= y.v
    ELSE MetaOrder(op, x, y)

Ordered(x, y) == BothInts(x, y) \/ (x.t = "str" /\ y.t = "str") \/ HasMeta(x, y)

Order(st, code, i, op, x, y) ==
    IF Ordered(x, y) THEN CondJumpTo(st, code, i, Less(op, x, y)) ELSE Fail(st)

\* L.concat: from the top down; a metamethod consumes two operands.
ConcatStep(x, acc) ==
    CASE Concatable(x) /\ Concatable(acc) -> Join(x, acc)
      [] ~(Concatable(x) /\ Concatable(acc)) /\ HasMeta(x, acc) -> MetaResult("concat", x, acc)
      [] OTHER -> Undefined

ConcatOp(st, i) ==
    LET vals == [j \in 1 .. i.b |-> st.R[i.a + j - 1]]
        v == FoldRight(LAMBDA x, acc : IF acc = Undefined THEN acc ELSE ConcatStep(x, acc),
                       Front(vals), Last(vals))
    IN IF v = Undefined THEN Fail(st) ELSE SetR(st, i.a, v)

\* OP_CALL of the function that returns its arguments, and OP_VARARG.
Deliver(st, a, vals, wanted) ==
    IF wanted < 0
    THEN [SetRange(st, a, vals) EXCEPT !.top = a + Len(vals), !.pc = @ + 1]
    ELSE [SetRange(st, a, [j \in 1 .. wanted |-> IF j <= Len(vals) THEN vals[j] ELSE Nil])
             EXCEPT !.pc = @ + 1]

Args(st, i) ==
    LET n == IF i.b # 0 THEN i.b - 1 ELSE st.top - i.a - 1
    IN [j \in 1 .. n |-> st.R[i.a + j]]

Results(st, i) ==
    LET n == IF i.b # 0 THEN i.b - 1 ELSE st.top - i.a
    IN [j \in 1 .. n |-> st.R[i.a + j - 1]]

\* OP_SETLIST: the values after the table, from index `last' + 1.
StoreList(st, code, i) ==
    LET n == IF i.b = 0 THEN st.top - i.a - 1 ELSE i.b
        extra == IF i.k = 1 THEN code[st.pc + 2].a * (MaxC + 1) ELSE 0
        index == st.R[i.a].v
        last == i.c + extra
    IN [st EXCEPT !.heap[index] =
                      FoldLeft(LAMBDA fields, j :
                                   WithField(fields, Integer(last + j), st.R[i.a + j]),
                               @, [j \in 1 .. n |-> j]),
                  !.pc = @ + 1 + i.k]

\* OP_NEWTABLE, with the EXTRAARG that follows it.
NewTable(st, a) ==
    [SetR(st, a, Table(Len(st.heap) + 1)) EXCEPT !.heap = Append(@, <<>>), !.pc = @ + 1]

\* OP_SELF: the object is read before the function overwrites a register.
SelfOp(st, i, obj, key) ==
    IF obj.t # "tab" THEN Fail(st)
    ELSE [GetTable(st, i.a, obj, key) EXCEPT !.R[i.a + 1] = obj]

Constant(consts, n) == consts[n + 1]
\* RK(C): a constant or a register.
RKC(st, consts, i) == IF i.k = 1 THEN Constant(consts, i.c) ELSE st.R[i.c]
Immediate(n) == Integer(n - OffsetC)

LoadOps == {"MOVE", "LOADI", "LOADK", "LOADFALSE", "LFALSESKIP", "LOADTRUE", "LOADNIL",
            "GETUPVAL", "SETUPVAL"}
ExecLoad(consts, st, i) ==
    CASE i.op = "MOVE" -> SetR(st, i.a, st.R[i.b])
      [] i.op = "LOADI" -> SetR(st, i.a, Integer(i.b))
      [] i.op = "LOADK" -> SetR(st, i.a, Constant(consts, i.b))
      [] i.op = "LOADFALSE" -> SetR(st, i.a, Bool(FALSE))
      [] i.op = "LFALSESKIP" -> [SetR(st, i.a, Bool(FALSE)) EXCEPT !.pc = @ + 1]
      [] i.op = "LOADTRUE" -> SetR(st, i.a, Bool(TRUE))
      [] i.op = "LOADNIL" ->
           [SetRange(st, i.a, [j \in 1 .. i.b + 1 |-> Nil]) EXCEPT !.pc = @ + 1]
      [] i.op = "GETUPVAL" -> SetR(st, i.a, st.up[i.b + 1])
      [] i.op = "SETUPVAL" -> [st EXCEPT !.up[i.b + 1] = st.R[i.a], !.pc = @ + 1]

TableOps == {"GETTABUP", "GETTABLE", "GETI", "GETFIELD", "SETTABUP", "SETTABLE", "SETI", "SETFIELD",
             "NEWTABLE", "SELF"}
ExecTable(consts, st, i) ==
    LET A == st.R[i.a]
        B == st.R[i.b]
        rkc == RKC(st, consts, i)
    IN CASE i.op = "GETTABUP" -> GetTable(st, i.a, st.up[i.b + 1], Constant(consts, i.c))
         [] i.op = "GETTABLE" -> GetTable(st, i.a, B, st.R[i.c])
         [] i.op = "GETI" -> GetTable(st, i.a, B, Integer(i.c))
         [] i.op = "GETFIELD" -> GetTable(st, i.a, B, Constant(consts, i.c))
         [] i.op = "SETTABUP" -> SetTable(st, st.up[i.a + 1], Constant(consts, i.b), rkc)
         [] i.op = "SETTABLE" -> SetTable(st, A, B, rkc)
         [] i.op = "SETI" -> SetTable(st, A, Integer(i.b), rkc)
         [] i.op = "SETFIELD" -> SetTable(st, A, Constant(consts, i.b), rkc)
         [] i.op = "NEWTABLE" -> NewTable(st, i.a)
         [] i.op = "SELF" -> SelfOp(st, i, B, rkc)

ArithOps == {"ADDI", "SHRI", "SHLI"} \cup Range(OpReg) \cup Range(OpK)
ExecArith(consts, st, i) ==
    LET B == st.R[i.b] IN
    CASE i.op = "ADDI" -> ArithOp(st, i, "add", B, Immediate(i.c))
      [] i.op = "SHRI" -> ArithOp(st, i, "shr", B, Immediate(i.c))
      [] i.op = "SHLI" -> ArithOp(st, i, "shl", Immediate(i.c), B)
      [] i.op \in Range(OpReg) ->
           ArithOp(st, i, CHOOSE o \in DOMAIN OpReg : OpReg[o] = i.op, B, st.R[i.c])
      [] i.op \in Range(OpK) ->
           ArithOp(st, i, CHOOSE o \in DOMAIN OpK : OpK[o] = i.op, B, Constant(consts, i.c))

\* The result goes where the instruction before would have put it.
MetaOps == {"MMBIN", "MMBINI", "MMBINK"}
ExecMeta(code, consts, st, i) ==
    LET to == code[st.pc].a
        A == st.R[i.a]
        Flip(x, y) == IF i.k = 1 THEN TryBinTM(st, to, y, x, i.c) ELSE TryBinTM(st, to, x, y, i.c)
    IN CASE i.op = "MMBIN" -> TryBinTM(st, to, A, st.R[i.b], i.c)
         [] i.op = "MMBINI" -> Flip(A, Immediate(i.b))
         [] i.op = "MMBINK" -> Flip(A, Constant(consts, i.b))

UnaryOps == {"UNM", "LEN", "NOT", "CONCAT"}
ExecUnary(st, i) ==
    LET B == st.R[i.b] IN
    CASE i.op = "UNM" -> IF B.t = "int" THEN SetR(st, i.a, Integer(ISub(0, B.v)))
                         ELSE TryBinTM(st, i.a, B, B, "unm")
      [] i.op = "LEN" -> CASE B.t = "str" -> SetR(st, i.a, Integer(Digits(B.v)))
                           [] B.t = "obj" -> SetR(st, i.a, MetaResult("len", B, B))
                           [] OTHER -> Fail(st)
      [] i.op = "NOT" -> SetR(st, i.a, Bool(Falsy(B)))
      [] i.op = "CONCAT" -> ConcatOp(st, i)

TestOps == {"JMP", "EQ", "EQK", "EQI", "LT", "LE", "LTI", "LEI", "GTI", "GEI", "TEST", "TESTSET"}
ExecTest(code, consts, st, i) ==
    LET A == st.R[i.a]
        B == st.R[i.b]
        sB == Immediate(i.b)
    IN CASE i.op = "JMP" -> [st EXCEPT !.pc = @ + 1 + i.b]
         [] i.op = "EQ" -> CondJumpTo(st, code, i, A = B)
         [] i.op = "EQK" -> CondJumpTo(st, code, i, A = Constant(consts, i.b))
         [] i.op = "EQI" -> CondJumpTo(st, code, i, A = sB)
         [] i.op = "LT" -> Order(st, code, i, "lt", A, B)
         [] i.op = "LE" -> Order(st, code, i, "le", A, B)
         [] i.op = "LTI" -> Order(st, code, i, "lt", A, sB)
         [] i.op = "LEI" -> Order(st, code, i, "le", A, sB)
         [] i.op = "GTI" -> Order(st, code, i, "lt", sB, A)
         [] i.op = "GEI" -> Order(st, code, i, "le", sB, A)
         [] i.op = "TEST" -> CondJumpTo(st, code, i, ~Falsy(A))
         [] i.op = "TESTSET" ->
              IF CondMatches(~Falsy(B), i.k)
              THEN CondJumpTo([st EXCEPT !.R[i.a] = B], code, i, ~Falsy(B))
              ELSE [st EXCEPT !.pc = @ + 2]

ExecCall(code, st, i) ==
    CASE i.op = "CALL" -> IF st.R[i.a] # Func THEN Fail(st)
                          ELSE Deliver(st, i.a, Args(st, i), i.c - 1)
      [] i.op = "TAILCALL" -> IF st.R[i.a] # Func THEN Fail(st)
                              ELSE [st EXCEPT !.out = "return", !.res = Args(st, i)]
      [] i.op = "VARARG" -> Deliver(st, i.a, st.va, i.c - 1)
      [] i.op = "SETLIST" -> StoreList(st, code, i)
      [] i.op \in {"RETURN", "RETURN0", "RETURN1"} ->
           [st EXCEPT !.out = "return", !.res = Results(st, i)]

Execute(code, consts, st) ==
    LET i == code[st.pc + 1] IN
    CASE i.op \in LoadOps -> ExecLoad(consts, st, i)
      [] i.op \in TableOps -> ExecTable(consts, st, i)
      [] i.op \in ArithOps -> ExecArith(consts, st, i)
      [] i.op \in MetaOps -> ExecMeta(code, consts, st, i)
      [] i.op \in UnaryOps -> ExecUnary(st, i)
      [] i.op \in TestOps -> ExecTest(code, consts, st, i)
      [] OTHER -> ExecCall(code, st, i)

-----------------------------------------------------------------------------
(***************************************************************************)
(* The registers an instruction reads or writes, apart from open results,  *)
(* which are delivered above them and for which the interpreter grows the  *)
(* stack.                                                                  *)
(***************************************************************************)
Span(first, n) == first .. first + n - 1

OpsA == {"LOADI", "LOADK", "LOADFALSE", "LFALSESKIP", "LOADTRUE", "GETUPVAL", "SETUPVAL",
         "GETTABUP", "NEWTABLE", "MMBINI", "MMBINK", "EQK", "EQI", "LTI", "LEI", "GTI", "GEI", "TEST"}
OpsAB == {"MOVE", "GETI", "GETFIELD", "ADDI", "SHRI", "SHLI", "MMBIN", "UNM", "LEN", "NOT",
          "EQ", "LT", "LE", "TESTSET"} \cup Range(OpK)
OpsABC == {"GETTABLE"} \cup Range(OpReg)

Registers(i) ==
    LET third == IF i.k = 1 THEN {} ELSE {i.c}
    IN CASE i.op \in {"JMP", "EXTRAARG"} -> {}
         [] i.op \in OpsA -> {i.a}
         [] i.op \in OpsAB -> {i.a, i.b}
         [] i.op \in OpsABC -> {i.a, i.b, i.c}
         [] i.op = "SETTABUP" -> third
         [] i.op \in {"SETI", "SETFIELD"} -> {i.a} \cup third
         [] i.op = "SETTABLE" -> {i.a, i.b} \cup third
         [] i.op = "SELF" -> {i.a, i.a + 1, i.b} \cup third
         [] i.op \in {"LOADNIL", "SETLIST"} -> Span(i.a, i.b + 1)
         [] i.op = "CONCAT" -> Span(i.a, i.b)
         [] i.op \in {"CALL", "TAILCALL"} -> {i.a} \cup Span(i.a, i.b) \cup Span(i.a, i.c - 1)
         [] i.op = "VARARG" -> {i.a} \cup Span(i.a, i.c - 1)
         [] i.op \in {"RETURN", "RETURN0", "RETURN1"} ->
              IF i.b = 0 THEN {i.a} ELSE Span(i.a, i.b - 1)

RECURSIVE RunCode(_, _, _)
RunCode(code, consts, st) ==
    IF st.out # "running" \/ st.pc >= Len(code) THEN st
    ELSE RunCode(code, consts, Execute(code, consts, st))
=============================================================================
