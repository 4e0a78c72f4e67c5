------------------------------ MODULE Codegen -------------------------------
(***************************************************************************)
(* The code generator, src/lua/lcode.go: expression descriptors, registers *)
(* and jump lists threaded through the code.  Every operator takes the     *)
(* function state and the descriptor it works on and returns both, as a    *)
(* record [fs, e].                                                         *)
(*                                                                         *)
(* Code is a sequence of instructions; a program counter counts from 0.    *)
(* The widths of the operands are constants, so that a small instance      *)
(* reaches the cases in which an operand does not fit.  Numbers are        *)
(* integers: float constants have descriptors and loads of their own in    *)
(* the code, with the same control.  Line numbers are left out.            *)
(***************************************************************************)
EXTENDS Words, SequencesExt, Functions

CONSTANTS
    MaxC,        \* largest operand C, MaxArgC
    MaxIndexRK,  \* largest constant index an operand holds, MaxArgB
    MaxSBx       \* largest signed operand Bx

ASSUME WidthAssumption == MaxC \in Nat /\ MaxIndexRK \in Nat /\ MaxSBx \in Nat

NoJump == -1
NoReg == 255

\* A value: a type and what distinguishes values of that type.
Val(t, v) == [t |-> t, v |-> v]
Nil == Val("nil", 0)
Bool(b) == Val(IF b THEN "true" ELSE "false", 0)
Integer(i) == Val("int", i)

Falsy(v) == v.t \in {"nil", "false"}

Ins(op, a, b, c, k) == [op |-> op, a |-> a, b |-> b, c |-> c, k |-> k]

\* initExp.
Exp(k, info) == [k |-> k, info |-> info, t |-> NoJump, f |-> NoJump, tab |-> 0, idx |-> 0]

HasJumps(e) == e.t # e.f

(***************************************************************************)
(* FuncState: the code, the constants, the first free register, the number *)
(* of registers that hold active local variables, the pc of the last jump  *)
(* target, the stack size; `inOrder' remembers whether every temporary     *)
(* register was released when it was the topmost one.                      *)
(***************************************************************************)
OpenFunc(nvars) ==
    [code |-> <<>>, consts |-> <<>>, freereg |-> nvars, nvar |-> nvars, lasttarget |-> 0,
     max |-> nvars, inOrder |-> TRUE]

Pc(fs) == Len(fs.code)

Emit(fs, i) == [fs EXCEPT !.code = Append(@, i)]

\* previousInstruction: none when a jump may land between it and the next.
HasPrevious(fs) == Pc(fs) > 0 /\ Pc(fs) > fs.lasttarget

AddK(fs, v) == IF v \in Range(fs.consts) THEN fs ELSE [fs EXCEPT !.consts = Append(@, v)]

KIndex(fs, v) == (CHOOSE i \in DOMAIN fs.consts : fs.consts[i] = v) - 1

-----------------------------------------------------------------------------
(***************************************************************************)
(* Registers.                                                              *)
(***************************************************************************)
\* Mutant: the stack is checked before the registers are taken.
ReserveRegsThenCheck(fs, n) ==
    [fs EXCEPT !.freereg = @ + n, !.max = IF fs.freereg > @ THEN fs.freereg ELSE @]

ReserveRegs(fs, n) ==
    [fs EXCEPT !.freereg = @ + n, !.max = IF fs.freereg + n > @ THEN fs.freereg + n ELSE @]

FreeReg(fs, reg) ==
    IF reg >= fs.nvar
    THEN [fs EXCEPT !.freereg = @ - 1, !.inOrder = @ /\ reg = fs.freereg - 1]
    ELSE fs

\* Mutant: registers are freed in the order they are given.
FreeRegsAsGiven(fs, r1, r2) == FreeReg(FreeReg(fs, r1), r2)

FreeRegs(fs, r1, r2) ==
    IF r1 > r2 THEN FreeReg(FreeReg(fs, r1), r2) ELSE FreeReg(FreeReg(fs, r2), r1)

RegOf(e) == IF e.k = "VNONRELOC" THEN e.info ELSE -1

FreeExp(fs, e) == FreeReg(fs, RegOf(e))

FreeExps(fs, e1, e2) == FreeRegs(fs, RegOf(e1), RegOf(e2))

-----------------------------------------------------------------------------
(***************************************************************************)
(* Jump lists.  A pending jump's offset leads to the next one of its list. *)
(***************************************************************************)
GetJump(code, pc) ==
    LET offset == code[pc + 1].b IN IF offset = NoJump THEN NoJump ELSE pc + 1 + offset

RECURSIVE JumpsOf(_, _)
JumpsOf(code, list) ==
    IF list = NoJump THEN <<>> ELSE <<list>> \o JumpsOf(code, GetJump(code, list))

FixJump(code, pc, dest) == [code EXCEPT ![pc + 1].b = dest - (pc + 1)]

\* luaK_concat: list l2 at the end of list l1.
ConcatInto(code, l1, l2) ==
    IF l1 = NoJump \/ l2 = NoJump THEN code ELSE FixJump(code, Last(JumpsOf(code, l1)), l2)

ConcatHead(l1, l2) == IF l1 = NoJump THEN l2 ELSE l1

Jump(fs) == Emit(fs, Ins("JMP", 0, NoJump, 0, 0))

\* The pc of the jump that CondJump emits.
CondJump(fs, op, a, b, c, k) == Jump(Emit(fs, Ins(op, a, b, c, k)))

GetLabel(fs) == [fs EXCEPT !.lasttarget = Pc(fs)]

IsTest(op) == op \in {"TEST", "TESTSET", "EQ", "LT", "LE", "EQK", "EQI", "LTI", "LEI", "GTI", "GEI"}

\* getjumpcontrol, as a pc.
JumpControl(code, pc) == IF pc >= 1 /\ IsTest(code[pc].op) THEN pc - 1 ELSE pc

ControlOp(code, pc) == code[JumpControl(code, pc) + 1].op

PatchTestReg(code, node, reg) ==
    LET i == JumpControl(code, node) + 1 IN
    IF code[i].op # "TESTSET" THEN code
    ELSE IF reg # NoReg /\ reg # code[i].b THEN [code EXCEPT ![i].a = reg]
    ELSE [code EXCEPT ![i] = Ins("TEST", @.b, 0, 0, @.k)]

RemoveValues(code, list) ==
    FoldLeft(LAMBDA c, node : PatchTestReg(c, node, NoReg), code, JumpsOf(code, list))

PatchListAux(code, list, vtarget, reg, dtarget) ==
    FoldLeft(LAMBDA c, node :
                 FixJump(PatchTestReg(c, node, reg), node,
                         IF ControlOp(c, node) = "TESTSET" THEN vtarget ELSE dtarget),
             code, JumpsOf(code, list))

PatchList(fs, list, target) ==
    [fs EXCEPT !.code = PatchListAux(@, list, target, NoReg, target)]

PatchToHere(fs, list) == PatchList(GetLabel(fs), list, Pc(fs))

NeedValue(code, list) == \E n \in Range(JumpsOf(code, list)) : ControlOp(code, n) # "TESTSET"

-----------------------------------------------------------------------------
(***************************************************************************)
(* Constants.                                                              *)
(***************************************************************************)
ConstantKinds == {"VNIL", "VTRUE", "VFALSE", "VKINT", "VKSTR", "VK"}

Const2Exp(v) ==
    Exp(CASE v.t = "nil"   -> "VNIL"
          [] v.t = "true"  -> "VTRUE"
          [] v.t = "false" -> "VFALSE"
          [] v.t = "int"   -> "VKINT"
          [] v.t = "str"   -> "VKSTR", v.v)

ConstOf(fs, e) ==
    CASE e.k = "VNIL"   -> Nil
      [] e.k = "VTRUE"  -> Bool(TRUE)
      [] e.k = "VFALSE" -> Bool(FALSE)
      [] e.k = "VKINT"  -> Integer(e.info)
      [] e.k = "VKSTR"  -> Val("str", e.info)
      [] e.k = "VK"     -> fs.consts[e.info + 1]

IsNumeral(e) == e.k = "VKINT" /\ ~HasJumps(e)

OffsetC == MaxC \div 2
FitsC(i) == -OffsetC <= i /\ i <= MaxC - OffsetC
FitsBx(i) == -MaxSBx <= i /\ i <= MaxSBx
IsCint(e) == IsNumeral(e) /\ 0 <= e.info /\ e.info <= MaxC
IsSCint(e) == IsNumeral(e) /\ FitsC(e.info)

\* str2K and the constant kinds of exp2K: the constant gets an index.
WithK(p, v) ==
    LET fs == AddK(p.fs, v) IN [fs |-> fs, e |-> [p.e EXCEPT !.k = "VK", !.info = KIndex(fs, v)]]

ToK(p) == WithK(p, ConstOf(p.fs, p.e))

CanK(p) == /\ ~HasJumps(p.e)
           /\ p.e.k \in ConstantKinds
           /\ ToK(p).e.info <= MaxIndexRK

\* exp2K adds the constant even when its index turns out not to fit.
AfterExp2K(p) ==
    IF ~HasJumps(p.e) /\ p.e.k \in ConstantKinds
    THEN [p EXCEPT !.fs = ToK(p).fs, !.e = IF CanK(p) THEN ToK(p).e ELSE @]
    ELSE p

LoadConst(fs, reg, v) ==
    LET g == AddK(fs, v) IN Emit(g, Ins("LOADK", reg, KIndex(g, v), 0, 0))

\* luaK_int.
LoadInt(fs, reg, i) ==
    IF FitsBx(i) THEN Emit(fs, Ins("LOADI", reg, i, 0, 0)) ELSE LoadConst(fs, reg, Integer(i))

\* luaK_nil: extends a LOADNIL just before when the ranges connect.
LoadNil(fs, from, n) ==
    LET prev == fs.code[Pc(fs)]
        last == from + n - 1
        connects == /\ HasPrevious(fs)
                    /\ prev.op = "LOADNIL"
                    /\ \/ prev.a <= from /\ from <= prev.a + prev.b + 1
                       \/ from <= prev.a /\ prev.a <= last + 1
        lo == IF prev.a < from THEN prev.a ELSE from
        hi == IF prev.a + prev.b > last THEN prev.a + prev.b ELSE last
    IN IF connects
       THEN [fs EXCEPT !.code[Pc(fs)] = Ins("LOADNIL", lo, hi - lo, 0, 0)]
       ELSE Emit(fs, Ins("LOADNIL", from, n - 1, 0, 0))

-----------------------------------------------------------------------------
(***************************************************************************)
(* Discharging a descriptor: from a variable to a value, to a register.    *)
(***************************************************************************)
Reloc(fs, e, op, b, c) ==
    [fs |-> Emit(fs, Ins(op, 0, b, c, 0)),
     e |-> [e EXCEPT !.k = "VRELOC", !.info = Pc(fs)]]

\* luaK_setreturns; LUA_MULTRET is -1.
SetReturns(p, nresults) ==
    LET set == [p.fs EXCEPT !.code[p.e.info + 1].c = nresults + 1] IN
    IF p.e.k = "VCALL" THEN set
    ELSE ReserveRegs([set EXCEPT !.code[p.e.info + 1].a = p.fs.freereg], 1)

SetOneRet(p) ==
    CASE p.e.k = "VCALL" ->
           [p EXCEPT !.e.k = "VNONRELOC", !.e.info = p.fs.code[p.e.info + 1].a]
      [] p.e.k = "VVARARG" ->
           [p EXCEPT !.fs.code[p.e.info + 1].c = 2, !.e.k = "VRELOC"]
      [] OTHER -> p

\* The registers of the table and the key are free before the load.
FreeIndex(fs, e) ==
    CASE e.k = "VINDEXUP" -> fs
      [] e.k = "VINDEXED" -> FreeRegs(fs, e.tab, e.idx)
      [] OTHER -> FreeReg(fs, e.tab)

OpLoad == [VINDEXUP |-> "GETTABUP", VINDEXI |-> "GETI", VINDEXSTR |-> "GETFIELD",
           VINDEXED |-> "GETTABLE"]

DischargeVars(p) ==
    CASE p.e.k = "VCONST" -> [p EXCEPT !.e = Const2Exp(@.info)]
      [] p.e.k = "VLOCAL" -> [p EXCEPT !.e.k = "VNONRELOC"]
      [] p.e.k = "VUPVAL" -> Reloc(p.fs, p.e, "GETUPVAL", p.e.info, 0)
      [] p.e.k \in DOMAIN OpLoad ->
           Reloc(FreeIndex(p.fs, p.e), p.e, OpLoad[p.e.k], p.e.tab, p.e.idx)
      [] p.e.k \in {"VCALL", "VVARARG"} -> SetOneRet(p)
      [] OTHER -> p

PutInReg(p, reg) ==
    LET fs == p.fs
        e == p.e
    IN CASE e.k = "VNIL"   -> LoadNil(fs, reg, 1)
         [] e.k = "VFALSE" -> Emit(fs, Ins("LOADFALSE", reg, 0, 0, 0))
         [] e.k = "VTRUE"  -> Emit(fs, Ins("LOADTRUE", reg, 0, 0, 0))
         [] e.k \in {"VKSTR", "VK"} -> LoadConst(fs, reg, ConstOf(fs, e))
         [] e.k = "VKINT"  -> LoadInt(fs, reg, e.info)
         [] e.k = "VRELOC" -> [fs EXCEPT !.code[e.info + 1].a = reg]
         [] e.k = "VNONRELOC" /\ e.info # reg -> Emit(fs, Ins("MOVE", reg, e.info, 0, 0))
         [] OTHER -> fs

ValueInReg(p, reg) ==
    IF p.e.k = "VJMP" THEN p
    ELSE [fs |-> PutInReg(p, reg), e |-> [p.e EXCEPT !.k = "VNONRELOC", !.info = reg]]

Discharge2Reg(p, reg) == ValueInReg(DischargeVars(p), reg)

Discharge2AnyReg(p) ==
    IF p.e.k = "VNONRELOC" THEN p
    ELSE LET r == [p EXCEPT !.fs = ReserveRegs(@, 1)] IN Discharge2Reg(r, r.fs.freereg - 1)

\* code_loadbool: each of the two loads may be a jump target.
LoadBool(fs, reg, op) == Emit(GetLabel(fs), Ins(op, reg, 0, 0, 0))

\* A comparison's own jump belongs to the jumps that are taken when true.
JoinOwnJump(p) ==
    IF p.e.k # "VJMP" THEN p
    ELSE [p EXCEPT !.fs.code = ConcatInto(@, p.e.t, p.e.info), !.e.t = ConcatHead(@, p.e.info)]

NeedsValues(p) == NeedValue(p.fs.code, p.e.t) \/ NeedValue(p.fs.code, p.e.f)

\* Where LFALSESKIP is: after the jump over both loads, if there is one.
LoadsAt(p) == IF p.e.k = "VJMP" THEN Pc(p.fs) ELSE Pc(p.fs) + 1

LoadBools(p, reg) ==
    LET skip == IF p.e.k = "VJMP" THEN p.fs ELSE Jump(p.fs)
    IN PatchToHere(LoadBool(LoadBool(skip, reg, "LFALSESKIP"), reg, "LOADTRUE"),
                   IF p.e.k = "VJMP" THEN NoJump ELSE Pc(p.fs))

PatchValues(fs, e, reg, pf) ==
    [fs EXCEPT !.code = PatchListAux(PatchListAux(@, e.f, Pc(fs), reg, pf), e.t, Pc(fs), reg, pf + 1)]

SettleJumps(p, reg) ==
    IF ~HasJumps(p.e) THEN p.fs
    ELSE PatchValues(GetLabel(IF NeedsValues(p) THEN LoadBools(p, reg) ELSE p.fs),
                     p.e, reg, LoadsAt(p))

Exp2Reg(p, reg) ==
    [fs |-> SettleJumps(JoinOwnJump(Discharge2Reg(p, reg)), reg), e |-> Exp("VNONRELOC", reg)]

NextReg(p) == [p EXCEPT !.fs = ReserveRegs(FreeExp(@, p.e), 1)]
LastReg(fs) == fs.freereg - 1

ToNextReg(p) == Exp2Reg(p, LastReg(p.fs))

Exp2NextReg(p) == ToNextReg(NextReg(DischargeVars(p)))

\* A temporary register that holds the value takes the jumps' values too.
HoldsValue(p) == p.e.k = "VNONRELOC" /\ p.e.info >= p.fs.nvar

ToAnyReg(p) ==
    IF p.e.k = "VNONRELOC" /\ ~HasJumps(p.e) THEN p
    ELSE Exp2Reg(IF HoldsValue(p) THEN p ELSE NextReg(p),
                 IF HoldsValue(p) THEN p.e.info ELSE LastReg(NextReg(p).fs))

Exp2AnyReg(p) == ToAnyReg(DischargeVars(p))

Exp2AnyRegUp(p) == IF p.e.k = "VUPVAL" /\ ~HasJumps(p.e) THEN p ELSE Exp2AnyReg(p)

Exp2Val(p) == IF p.e.k = "VJMP" \/ HasJumps(p.e) THEN Exp2AnyReg(p) ELSE DischargeVars(p)

Exp2RK(p) == IF CanK(p) THEN AfterExp2K(p) ELSE Exp2AnyReg(AfterExp2K(p))

\* codeABRK.
EmitRK(p, op, a, b) ==
    [p EXCEPT !.fs = Emit(@, Ins(op, a, b, p.e.info, IF p.e.k = "VK" THEN 1 ELSE 0))]

CodeABRK(fs, op, a, b, e) == EmitRK(Exp2RK([fs |-> fs, e |-> e]), op, a, b)

FreeOperand(p) == FreeExp(p.fs, p.e)

SetUpval(p, up) == [p EXCEPT !.fs = Emit(@, Ins("SETUPVAL", p.e.info, up, 0, 0))]

OpStore == [VINDEXUP |-> "SETTABUP", VINDEXI |-> "SETI", VINDEXSTR |-> "SETFIELD",
            VINDEXED |-> "SETTABLE"]

StoreVar(fs, var, ex) ==
    CASE var.k = "VLOCAL" -> Exp2Reg([fs |-> FreeExp(fs, ex), e |-> ex], var.info).fs
      [] var.k = "VUPVAL" -> FreeOperand(SetUpval(Exp2AnyReg([fs |-> fs, e |-> ex]), var.info))
      [] OTHER -> FreeOperand(CodeABRK(fs, OpStore[var.k], var.tab, var.idx, ex))

-----------------------------------------------------------------------------
(***************************************************************************)
(* Conditions.                                                             *)
(***************************************************************************)
NegateCondition(p) ==
    [p EXCEPT !.fs.code[JumpControl(p.fs.code, p.e.info) + 1].k = 1 - @]

RemoveLast(fs) == [fs EXCEPT !.code = Front(@)]

\* jumponcond: the state after it, and the pc of the jump.
WithJump(p) == [fs |-> p.fs, e |-> p.e, jump |-> Pc(p.fs) - 1]

TestSet(p, cond) ==
    [p EXCEPT !.fs = CondJump(FreeOperand(p), "TESTSET", NoReg, p.e.info, 0, cond)]

JumpOnCond(p, cond) ==
    LET not == p.fs.code[p.e.info + 1]
    IN WithJump(IF p.e.k = "VRELOC" /\ not.op = "NOT"
                THEN [p EXCEPT !.fs = CondJump(RemoveLast(p.fs), "TEST", not.b, 0, 0, 1 - cond)]
                ELSE TestSet(Discharge2AnyReg(p), cond))

NoTest(p) == [fs |-> p.fs, e |-> p.e, jump |-> IF p.e.k = "VJMP" THEN p.e.info ELSE NoJump]

JumpIfFalse(p) ==
    CASE p.e.k = "VJMP" -> NoTest(NegateCondition(p))
      [] p.e.k \in {"VK", "VKINT", "VKSTR", "VTRUE"} -> NoTest(p)
      [] OTHER -> JumpOnCond(p, 0)

JumpIfTrue(p) == IF p.e.k \in {"VJMP", "VNIL", "VFALSE"} THEN NoTest(p) ELSE JumpOnCond(p, 1)

\* The jump joins one list, and the other list goes on here.
FalseGoes(p) ==
    [fs |-> PatchToHere([p.fs EXCEPT !.code = ConcatInto(@, p.e.f, p.jump)], p.e.t),
     e |-> [p.e EXCEPT !.f = ConcatHead(@, p.jump), !.t = NoJump]]

TrueGoes(p) ==
    [fs |-> PatchToHere([p.fs EXCEPT !.code = ConcatInto(@, p.e.t, p.jump)], p.e.f),
     e |-> [p.e EXCEPT !.t = ConcatHead(@, p.jump), !.f = NoJump]]

GoIfTrue(p) == FalseGoes(JumpIfFalse(DischargeVars(p)))
GoIfFalse(p) == TrueGoes(JumpIfTrue(DischargeVars(p)))

NotOfReg(p) == Reloc(FreeOperand(p), p.e, "NOT", p.e.info, 0)

NotValue(p) ==
    CASE p.e.k \in {"VNIL", "VFALSE"} -> [p EXCEPT !.e.k = "VTRUE"]
      [] p.e.k \in {"VK", "VKINT", "VKSTR", "VTRUE"} -> [p EXCEPT !.e.k = "VFALSE"]
      [] p.e.k = "VJMP" -> NegateCondition(p)
      [] OTHER -> NotOfReg(Discharge2AnyReg(p))

SwapLists(p) ==
    [fs |-> [p.fs EXCEPT !.code = RemoveValues(RemoveValues(@, p.e.t), p.e.f)],
     e |-> [p.e EXCEPT !.t = p.e.f, !.f = p.e.t]]

CodeNot(p) == SwapLists(NotValue(p))

-----------------------------------------------------------------------------
(***************************************************************************)
(* Indexing: p holds the table in a register or upvalue.                   *)
(***************************************************************************)
IsKstr(fs, e) ==
    /\ e.k = "VK" /\ ~HasJumps(e) /\ e.info <= MaxIndexRK
    /\ fs.consts[e.info + 1].t = "str"

At(t, kind, idx) == [t EXCEPT !.k = kind, !.tab = t.info, !.idx = idx]

AtKeyReg(t, key) == [key EXCEPT !.e = At(t, "VINDEXED", key.e.info)]

\* The table t is in place, k is the key.
IndexedBy(t, k) ==
    CASE t.e.k = "VUPVAL" -> [t EXCEPT !.e = At(@, "VINDEXUP", k.info)]
      [] t.e.k # "VUPVAL" /\ IsKstr(t.fs, k) -> [t EXCEPT !.e = At(@, "VINDEXSTR", k.info)]
      [] t.e.k # "VUPVAL" /\ IsCint(k) -> [t EXCEPT !.e = At(@, "VINDEXI", k.info)]
      [] OTHER -> AtKeyReg(t.e, Exp2AnyReg([t EXCEPT !.e = k]))

UpvalInReg(t, k) == IF t.e.k = "VUPVAL" /\ ~IsKstr(t.fs, k) THEN Exp2AnyReg(t) ELSE t

IndexedK(t, key) == IndexedBy(UpvalInReg([fs |-> key.fs, e |-> t], key.e), key.e)

\* luaK_indexed: the state and the descriptor of t[k], the key in p.
Indexed(t, p) == IndexedK(t, IF p.e.k = "VKSTR" THEN ToK(p) ELSE p)

-----------------------------------------------------------------------------
(***************************************************************************)
(* Operators.                                                              *)
(***************************************************************************)
Arithmetic == {"add", "sub", "mul", "idiv", "mod", "band", "shl", "shr"}

OpReg == [add |-> "ADD", sub |-> "SUB", mul |-> "MUL", idiv |-> "IDIV", mod |-> "MOD",
          band |-> "BAND", shl |-> "SHL", shr |-> "SHR"]
OpK == [add |-> "ADDK", sub |-> "SUBK", mul |-> "MULK", idiv |-> "IDIVK", mod |-> "MODK",
        band |-> "BANDK"]

\* intArith.  The conjunction of words is computed on their bits.
BitAnd(a, b) ==
    Signed(FoldLeft(LAMBDA sum, i :
                        LET bit(x) == (Unsigned(x) \div 2 ^ (i - 1)) % 2
                        IN sum + bit(a) * bit(b) * 2 ^ (i - 1),
                    0, [i \in 1 .. W |-> i]))

IntArith(op, a, b) ==
    CASE op = "add"  -> IAdd(a, b)
      [] op = "sub"  -> ISub(a, b)
      [] op = "mul"  -> IMul(a, b)
      [] op = "idiv" -> IntIDiv(a, b)
      [] op = "mod"  -> IntMod(a, b)
      [] op = "band" -> BitAnd(a, b)
      [] op = "shl"  -> ShiftL(a, b)
      [] op = "shr"  -> ShiftR(a, b)

ValidOp(op, b) == op \in {"idiv", "mod"} => b # 0

\* constfolding.
Folds(op, e1, e2) == IsNumeral(e1) /\ IsNumeral(e2) /\ ValidOp(op, e2.info)

Int2sC(i) == i + OffsetC

\* finishbinexpval: the operation, then the call of the metamethod that the
\* operation skips when it needs none.
Operate(r, e2, op, v2, flip, mmop, event) ==
    LET done == Reloc(r.fs, r.e, op, r.e.info, v2)
    IN [done EXCEPT !.fs = Emit(FreeExps(@, r.e, e2), Ins(mmop, r.e.info, v2, event, flip))]

FinishBin(fs, e1, e2, op, v2, flip, mmop, event) ==
    Operate(Exp2AnyReg([fs |-> fs, e |-> e1]), e2, op, v2, flip, mmop, event)

CodeBinRegs(opr, e1, p2) ==
    FinishBin(p2.fs, e1, p2.e, OpReg[opr], p2.e.info, 0, "MMBIN", opr)

\* codebinexpval: the second operand in a register, then the first.
CodeBin(opr, fs, e1, e2) == CodeBinRegs(opr, e1, Exp2AnyReg([fs |-> fs, e |-> e2]))

\* codearith and codebitwise from here on: a constant operand if it fits.
BinK(opr, e1, k, flip) == FinishBin(k.fs, e1, k.e, OpK[opr], k.e.info, flip, "MMBINK", opr)

CodeBinK(opr, fs, e1, e2, flip) ==
    LET k == [fs |-> fs, e |-> e2]
        tried == IF IsNumeral(e2) THEN AfterExp2K(k).fs ELSE fs
    IN IF IsNumeral(e2) /\ CanK(k) THEN BinK(opr, e1, ToK(k), flip)
       ELSE CodeBin(opr, tried, IF flip = 1 THEN e2 ELSE e1, IF flip = 1 THEN e1 ELSE e2)

CodeImmediate(fs, e1, e2, op, flip, event) ==
    FinishBin(fs, e1, e2, op, Int2sC(e2.info), flip, "MMBINI", event)

\* Mutant: the metamethod is given the negated constant.
NegatedOperandKept(i) == -i

MetamethodOperand(i) == i

\* finishbinexpneg, when the constant and its negation fit.
FitsNegated(e) == IsNumeral(e) /\ FitsC(e.info) /\ FitsC(-e.info)

SetLastOperand(p, i) == [p EXCEPT !.fs.code[Pc(p.fs)].b = Int2sC(i)]

FinishBinNeg(fs, e1, e2, op, event) ==
    SetLastOperand(FinishBin(fs, e1, e2, op, Int2sC(-e2.info), 0, "MMBINI", event),
                   MetamethodOperand(e2.info))

Imm(op) == [lt |-> "LTI", le |-> "LEI"][op]
ImmFlipped(op) == [lt |-> "GTI", le |-> "GEI"][op]
RegOrder(op) == [lt |-> "LT", le |-> "LE"][op]

Comparison(fs, e, op, a, b, k) ==
    LET j == CondJump(fs, op, a, b, 0, k) IN
    [fs |-> j, e |-> [e EXCEPT !.k = "VJMP", !.info = Pc(j) - 1]]

\* A register against a constant, and against a register.
CompareConstant(r, const, op, k) ==
    Comparison(FreeExps(r.fs, r.e, const), r.e, op, r.e.info, Int2sC(const.info), k)

CompareRegs(e1, r2, op, k) ==
    Comparison(FreeExps(r2.fs, e1, r2.e), e1, op, e1.info, r2.e.info, k)

OrderRegs(opr, r1, e2) ==
    CompareRegs(r1.e, Exp2AnyReg([fs |-> r1.fs, e |-> e2]), RegOrder(opr), 1)

CodeOrder(opr, fs, e1, e2) ==
    CASE IsSCint(e2) -> CompareConstant(Exp2AnyReg([fs |-> fs, e |-> e1]), e2, Imm(opr), 1)
      [] ~IsSCint(e2) /\ IsSCint(e1) ->
           CompareConstant(Exp2AnyReg([fs |-> fs, e |-> e2]), e1, ImmFlipped(opr), 1)
      [] OTHER -> OrderRegs(opr, Exp2AnyReg([fs |-> fs, e |-> e1]), e2)

EqRK(e1, rk, k) == CompareRegs(e1, rk, IF rk.e.k = "VK" THEN "EQK" ELSE "EQ", k)

EqWith(r1, e2, k) ==
    IF IsSCint(e2) THEN CompareConstant(r1, e2, "EQI", k)
    ELSE EqRK(r1.e, Exp2RK([fs |-> r1.fs, e |-> e2]), k)

CodeEq(opr, fs, x1, x2) ==
    LET swap == x1.k # "VNONRELOC"
        k == IF opr = "eq" THEN 1 ELSE 0
    IN EqWith(Exp2AnyReg([fs |-> fs, e |-> IF swap THEN x2 ELSE x1]), IF swap THEN x1 ELSE x2, k)

\* codeconcat: joins the CONCAT of the operand to the right.
CodeConcat(e1, p) ==
    LET fs == p.fs
    IN IF HasPrevious(fs) /\ fs.code[Pc(fs)].op = "CONCAT"
       THEN [fs |-> [FreeOperand(p) EXCEPT !.code[Pc(fs)].a = e1.info, !.code[Pc(fs)].b = @ + 1],
             e |-> e1]
       ELSE [fs |-> FreeExp(Emit(fs, Ins("CONCAT", e1.info, 2, 0, 0)), p.e), e |-> e1]

\* codeunexpval.
UnaryOfReg(p, op) == Reloc(FreeOperand(p), p.e, op, p.e.info, 0)
CodeUnary(p, op) == UnaryOfReg(Exp2AnyReg(p), op)

PrefixOf(opr, p) ==
    CASE opr = "not" -> CodeNot(p)
      [] opr = "unm" /\ IsNumeral(p.e) -> [p EXCEPT !.e.info = ISub(0, @)]
      [] OTHER -> CodeUnary(p, IF opr = "unm" THEN "UNM" ELSE "LEN")

Prefix(opr, p) == PrefixOf(opr, DischargeVars(p))

InfixOf(opr, p) ==
    CASE opr = "and" -> GoIfTrue(p)
      [] opr = "or" -> GoIfFalse(p)
      [] opr = "concat" -> Exp2NextReg(p)
      [] opr \in Arithmetic -> IF IsNumeral(p.e) THEN p ELSE Exp2AnyReg(p)
      [] opr \in {"eq", "ne"} -> IF IsNumeral(p.e) THEN p ELSE Exp2RK(p)
      [] opr \in {"lt", "le", "gt", "ge"} -> IF IsSCint(p.e) THEN p ELSE Exp2AnyReg(p)

Infix(opr, p) == InfixOf(opr, DischargeVars(p))

\* The arithmetic and bitwise operators that are not folded.  A commutative
\* one takes a constant as its second operand (codecommutative, codebitwise).
CodeArith(opr, fs, e1, e2) ==
    LET flip == opr \in {"add", "mul", "band"} /\ IsNumeral(e1)
        a == IF flip THEN e2 ELSE e1
        b == IF flip THEN e1 ELSE e2
        k == IF flip THEN 1 ELSE 0
    IN CASE opr = "add" /\ IsSCint(b) -> CodeImmediate(fs, a, b, "ADDI", k, "add")
         [] opr = "sub" /\ FitsNegated(e2) -> FinishBinNeg(fs, e1, e2, "ADDI", "sub")
         [] opr = "shl" /\ IsSCint(e1) -> CodeImmediate(fs, e2, e1, "SHLI", 1, "shl")
         [] opr = "shl" /\ ~IsSCint(e1) /\ FitsNegated(e2) ->
              FinishBinNeg(fs, e1, e2, "SHRI", "shl")
         [] opr = "shr" /\ IsSCint(e2) -> CodeImmediate(fs, e1, e2, "SHRI", 0, "shr")
         [] OTHER -> IF opr \in {"shl", "shr"} THEN CodeBin(opr, fs, e1, e2)
                     ELSE CodeBinK(opr, fs, a, b, k)

PosfixOf(opr, e1, p) ==
    LET fs == p.fs
        e2 == p.e
    IN CASE opr = "and" -> [fs |-> [fs EXCEPT !.code = ConcatInto(@, e2.f, e1.f)],
                            e |-> [e2 EXCEPT !.f = ConcatHead(@, e1.f)]]
         [] opr = "or"  -> [fs |-> [fs EXCEPT !.code = ConcatInto(@, e2.t, e1.t)],
                            e |-> [e2 EXCEPT !.t = ConcatHead(@, e1.t)]]
         [] opr = "concat" -> CodeConcat(e1, Exp2NextReg(p))
         [] opr \in {"eq", "ne"} -> CodeEq(opr, fs, e1, e2)
         [] opr \in {"lt", "le", "gt", "ge"} ->
              LET swap == opr \in {"gt", "ge"}
              IN CodeOrder(IF opr \in {"lt", "gt"} THEN "lt" ELSE "le", fs,
                           IF swap THEN e2 ELSE e1, IF swap THEN e1 ELSE e2)
         [] opr \in Arithmetic ->
              IF Folds(opr, e1, e2)
              THEN [p EXCEPT !.e = [e1 EXCEPT !.info = IntArith(opr, e1.info, e2.info)]]
              ELSE CodeArith(opr, fs, e1, e2)

\* luaK_posfix: e1 is the left operand after Infix, p the right one.
Posfix(opr, e1, p) == PosfixOf(opr, e1, DischargeVars(p))

-----------------------------------------------------------------------------
(***************************************************************************)
(* Methods, table constructors, returns and the final pass.                *)
(***************************************************************************)

\* luaK_self: the function and the object in the next two registers.
SelfOf(obj, key) ==
    LET fs == ReserveRegs(FreeOperand(obj), 2)
        base == fs.freereg - 2
    IN [fs |-> FreeOperand(CodeABRK(fs, "SELF", base, obj.e.info, key)),
        e |-> [obj.e EXCEPT !.k = "VNONRELOC", !.info = base]]

Self(p, key) == SelfOf(Exp2AnyReg(p), key)

\* luaK_settablesize.  The sizes are hints that the virtual machine may ignore.
SetTableSize(fs, pc, ra, asize) ==
    [fs EXCEPT !.code[pc + 1] = Ins("NEWTABLE", ra, 0, asize % (MaxC + 1),
                                    IF asize > MaxC THEN 1 ELSE 0),
               !.code[pc + 2] = Ins("EXTRAARG", asize \div (MaxC + 1), 0, 0, 0)]

\* Mutant: the index of the first item is cut to the width of the operand.
SetListTruncated(fs, base, nelems, tostore) ==
    [Emit(fs, Ins("SETLIST", base, tostore, nelems % (MaxC + 1), 0)) EXCEPT !.freereg = base + 1]

\* luaK_setlist: `tostore' is 0 for all values up to the top.
SetList(fs, base, nelems, tostore) ==
    LET short == Emit(fs, Ins("SETLIST", base, tostore, nelems, 0))
        long == Emit(Emit(fs, Ins("SETLIST", base, tostore, nelems % (MaxC + 1), 1)),
                     Ins("EXTRAARG", nelems \div (MaxC + 1), 0, 0, 0))
    IN [(IF nelems <= MaxC THEN short ELSE long) EXCEPT !.freereg = base + 1]

Ret(fs, first, nret) ==
    Emit(fs, Ins(CASE nret = 0 -> "RETURN0" [] nret = 1 -> "RETURN1" [] OTHER -> "RETURN",
                 first, nret + 1, 0, 0))

\* finaltarget, with the code's bound on the length of a chain.
RECURSIVE FinalTarget(_, _, _)
FinalTarget(code, pc, count) ==
    IF count = 100 \/ pc >= Len(code) \/ code[pc + 1].op # "JMP" THEN pc
    ELSE FinalTarget(code, pc + 1 + code[pc + 1].b, count + 1)

\* luaK_finish: jumps to jumps, and what a return has to close or remove.
Finish(fs, needclose, vararg) ==
    LET plain == ~needclose /\ ~vararg
        Return(i) == [i EXCEPT !.op = IF @ = "TAILCALL" THEN @ ELSE "RETURN",
                               !.k = IF needclose THEN 1 ELSE @,
                               !.c = IF vararg THEN 1 ELSE @]
        Final(pc) ==
            LET i == fs.code[pc] IN
            CASE i.op \in {"RETURN0", "RETURN1"} -> IF plain THEN i ELSE Return(i)
              [] i.op \in {"RETURN", "TAILCALL"} -> Return(i)
              [] i.op = "JMP" -> [i EXCEPT !.b = FinalTarget(fs.code, pc - 1, 0) - pc]
              [] OTHER -> i
    IN [fs EXCEPT !.code = [pc \in DOMAIN @ |-> Final(pc)]]
=============================================================================
