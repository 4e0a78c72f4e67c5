--------------------------- MODULE MCExpressions ----------------------------
(***************************************************************************)
(* Expressions for TLC: every operator on a rich set of operands, every    *)
(* pair of operators on a small one, assignments to two targets, calls,    *)
(* conditions and constructors.                                            *)
(***************************************************************************)
EXTENDS Expressions

IntTok(i) == [n |-> "int", int |-> i]
StrTok(s) == [n |-> "str", str |-> s]
Local(r) == [n |-> "local", reg |-> r]
Upval(u) == [n |-> "upval", up |-> u]
Name(s) == [n |-> "name", str |-> s]
Index(t, k) == [n |-> "index", table |-> t, key |-> <<k>>]
CallOf(args) == [n |-> "call", callee |-> Local(FuncReg), args |-> args]
MethodOf(args) == [n |-> "method", object |-> Local(TableReg), name |-> 3, args |-> args]
Paren(toks) == [n |-> "paren", toks |-> toks]
Vararg == [n |-> "vararg"]

X == Local(0)
Y == Local(2)
T == Local(TableReg)
Env == Upval(0)
CondOperand == Paren(<<X, Op("and"), IntTok(1)>>)

Operands ==
    {[n |-> "nil"], [n |-> "true"], [n |-> "false"], IntTok(1), IntTok(2), IntTok(5), StrTok(1),
     X, Upval(1), [n |-> "const", val |-> Integer(5)], Index(T, Name(1)), Index(T, IntTok(1)),
     Index(T, X), Index(Env, Name(2)), Index(Env, Y), CallOf(<<<<X>>, <<Vararg>>>>),
     MethodOf(<<<<Y>>>>), Vararg, CondOperand}

FewOperands == {X, IntTok(1), IntTok(5), Index(T, IntTok(1)), [n |-> "false"]}

BinaryOps == {"add", "sub", "mul", "idiv", "mod", "band", "shl", "shr", "concat",
              "eq", "ne", "lt", "le", "gt", "ge", "and", "or"}
FewOps == {"sub", "mul", "shl", "concat", "eq", "gt", "and", "or"}

One(s, toks) == [s |-> s, nvars |-> 1, targets |-> <<X>>, exps |-> <<toks>>]
Contexts == {"local", "assign", "if", "return"}

Unaries == UNION {{<<Un(u), o>>, <<Un("not"), Un(u), o>>} : u \in {"not", "unm", "len"}, o \in Operands}
Binaries == {<<a, Op(op), b>> : a \in Operands, op \in BinaryOps, b \in Operands}
Triples == {<<a, Op(o1), b, Op(o2), c>> :
               a \in FewOperands, o1 \in FewOps, b \in FewOperands, o2 \in FewOps, c \in {X, IntTok(2), Vararg}}
Negated == {<<Un("not"), Paren(<<a, Op(o1), b, Op(o2), X>>)>> :
               a \in FewOperands, o1 \in FewOps, b \in FewOperands, o2 \in FewOps}
Grouped == {<<a, Op(o1), Paren(<<b, Op(o2), Y>>)>> :
               a \in FewOperands, o1 \in FewOps, b \in FewOperands, o2 \in FewOps}

Expressions1 == Unaries \cup {<<o>> : o \in Operands}

Targets == {X, T, Upval(0), Index(T, X), Index(T, IntTok(1)), Index(Env, Name(1)), Index(T, Name(1))}
Sources == {<<X>>, <<Vararg>>, <<IntTok(5)>>, <<CallOf(<<<<X>>, <<Y>>>>)>>,
            <<MethodOf(<<<<X>>>>)>>, <<Y, Op("add"), IntTok(1)>>}

Assignments ==
    {[s |-> "assign", nvars |-> 2, targets |-> <<t1, t2>>, exps |-> es] :
        t1 \in Targets, t2 \in Targets,
        es \in {<<e>> : e \in Sources} \cup {<<e1, e2>> : e1 \in Sources, e2 \in Sources}
                 \cup {<<<<Y>>, e, <<X>>>> : e \in Sources}}

Lists ==
    {[s |-> s, nvars |-> n, targets |-> <<X>>, exps |-> es] :
        s \in {"local", "return"}, n \in {1, 3},
        es \in {<<e1, e2>> : e1 \in Sources, e2 \in Sources} \cup {<<e>> : e \in Sources}}

Item(toks) == [key |-> <<>>, value |-> toks]
Record(k, toks) == [key |-> <<k>>, value |-> toks]
ItemSources == {Item(<<X>>), Item(<<Vararg>>), Item(<<IntTok(5)>>), Record(Name(1), <<Y>>), Record(StrTok(2), <<X>>)}

Constructors ==
    {One("return", <<[n |-> "table", fields |-> fs]>>) :
        fs \in UNION {[1 .. n -> ItemSources] : n \in 0 .. 3}
               \cup {[i \in 1 .. n |-> IF i = n THEN last ELSE Item(<<X>>)] :
                        n \in 4 .. 9, last \in ItemSources}}

MCStatements ==
    <<{One(s, e) : s \in Contexts, e \in Expressions1},
      {One(s, e) : s \in {"if", "assign"}, e \in Binaries},
      {One("if", e) : e \in Negated},
      {One("return", e) : e \in Triples},
      {One("return", e) : e \in Grouped},
      Assignments, Lists, Constructors>>

MCFrame(x, y, u) ==
    Frame([r \in 0 .. 15 |-> CASE r = 0 -> x [] r = TableReg -> Table(1) [] r = 2 -> y
                                [] r = FuncReg -> Func [] OTHER -> Undefined],
          <<Table(1), u>>,
          <<[k \in {Str(1), Str(3), Integer(1)} |->
                CASE k = Str(1) -> Integer(2) [] k = Str(3) -> Func [] OTHER -> Object]>>,
          <<Integer(3), Str(2)>>)

MCFrames ==
    {MCFrame(p[1], p[2], p[3]) :
        p \in {<<Nil, Integer(3), Str(1)>>, <<Integer(1), Integer(-1), Object>>,
               <<Object, Str(2), Integer(2)>>}}
=============================================================================
