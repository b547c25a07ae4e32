----------------------------- MODULE MCCodegen -----------------------------
(***************************************************************************)
(* Source functions for Codegen, over bytes of 2 bits: char has 2 bits,    *)
(* int 8 and long 16.  The expressions pair every operator with every pair *)
(* of the six types that differ in width or signedness after promotion;    *)
(* the statements combine every kind of jump with every kind of loop, each *)
(* condition an input, so that every path is taken.                        *)
(***************************************************************************)
EXTENDS Codegen

\* Two parameters, a local and a global of each type.
P == [char |-> "p1", uchar |-> "pu1", short |-> "p2", ushort |-> "pu2",
      int |-> "p4", uint |-> "pu4", long |-> "p8", ulong |-> "pu8"]
Q == [char |-> "q1", uchar |-> "qu1", short |-> "q2", ushort |-> "qu2",
      int |-> "q4", uint |-> "qu4", long |-> "q8", ulong |-> "qu8"]
X == [char |-> "x1", uchar |-> "xu1", short |-> "x2", ushort |-> "xu2",
      int |-> "x4", uint |-> "xu4", long |-> "x8", ulong |-> "xu8"]
Gl == [char |-> "g1", uchar |-> "gu1", short |-> "g2", ushort |-> "gu2",
       int |-> "g4", uint |-> "gu4", long |-> "g8", ulong |-> "gu8"]
Types == DOMAIN TypeNamed
Wide == {"char", "ushort", "int", "uint", "long", "ulong"}

Names(m) == {m[t] : t \in Types}
MCGlobals == Names(Gl)
MCVarType == [x \in Names(P) \cup Names(Q) \cup Names(X) \cup Names(Gl) |->
                 TypeNamed[CHOOSE t \in Types : x \in {P[t], Q[t], X[t], Gl[t]}]]

Fn(params, gs, ret, body) == [params |-> params, globals |-> gs, ret |-> ret, body |-> body]
ReturnOf(params, ret, e) == Fn(params, {}, ret, Return(e))
In == Call("in", << >>)
Out(e) == Expr(Call("out", <<e>>))
Trap_ == Expr(Call("__builtin_trap", << >>))

-----------------------------------------------------------------------------
\* A function is named by its family and what varies in the family.
Steps == {"++x", "--x", "x++", "x--"}

Straight == [
    \* Every operator on every pair of types.
    binary |-> {"b"} \X Wide \X Wide \X BinaryOps,
    \* The result of one operation is the operand of another.
    nested |-> {"n"} \X {"ushort", "int", "uint"} \X {"char", "uint", "ulong"}
                  \X ({"+", "-", "*", "<<"} \X {"<", "==", "/", ">>", "|"}),
    compound |-> {"c"} \X Wide \X {"char", "uint", "long", "ulong"} \X (Arithmetic \cup Shifts),
    local    |-> {"l"} \X Types \X Steps,
    param    |-> {"i"} \X Types \X Steps,
    global   |-> {"g"} \X Types \X Steps,
    assign   |-> {"a"} \X Types,
    constant |-> {<<"h", v>> : v \in {15, 16, 300, 4096}},
    cast     |-> {"t"} \X Types \X Types,
    unary    |-> {"u"} \X Types \X {"~", "!", "neg"},
    ternary  |-> {"?"} \X Wide,
    literal  |-> {"k"} \X {"char", "int", "uint", "long"} \X {"<", "-", ">"} \X {"", "u", "l", "ul"},
    fault    |-> {<<"f">>}]

StraightFn(k) ==
    LET p == P[k[2]]
        x == X[k[2]]
        g == Gl[k[2]]
    IN  CASE k[1] = "b" -> ReturnOf(<<p, Q[k[3]]>>, "long", Bin(k[4], Var(p), Var(Q[k[3]])))
          [] k[1] = "n" -> LET q == Q[k[3]]
                           IN  ReturnOf(<<p, q>>, "uint",
                                        Bin(k[4][2], Bin(k[4][1], Var(p), Var(q)), Var(q)))
          [] k[1] = "c" -> Fn(<<p, Q[k[3]]>>, {}, "long",
                              Block(<<Decl(x, Var(p)),
                                      Return(Bin(",", OpAssign(k[4], x, Var(Q[k[3]])), Var(x)))>>))
          [] k[1] = "l" -> Fn(<<p>>, {}, "long",
                              Block(<<Decl(x, Var(p)), Out(IncDec(k[3], x)), Return(Var(x))>>))
          [] k[1] = "i" -> Fn(<<p>>, {}, "long", Block(<<Out(IncDec(k[3], p)), Return(Var(p))>>))
          [] k[1] = "h" -> ReturnOf(<<P.long>>, "long", Bin("+", Var(P.long), NumSuffix(k[2], "l")))
          [] k[1] = "g" -> Fn(<< >>, {g}, "long", Block(<<Out(IncDec(k[3], g)), Return(Var(g))>>))
          [] k[1] = "a" -> Fn(<<P.long>>, {g}, "int",
                              Block(<<Expr(Assign(g, Var(P.long))), Return(Var(g))>>))
          [] k[1] = "t" -> ReturnOf(<<p>>, "long", Cast(k[3], Var(p)))
          [] k[1] = "u" -> ReturnOf(<<p>>, "long", Un(k[3], Var(p)))
          [] k[1] = "?" -> ReturnOf(<<P.int, Q[k[2]]>>, "long",
                                    Cond(Var(P.int), Var(P.int), Var(Q[k[2]])))
          [] k[1] = "k" -> ReturnOf(<<p>>, "int", Bin(k[3], Var(p), NumSuffix(3, k[4])))
          [] k[1] = "f" -> ReturnOf(<<P.long, Q.long>>, "long",
                                    Bin("/", Bin("<<", Var(P.long), Num(8)), Var(Q.long)))

-----------------------------------------------------------------------------
I4 == X["int"]
Control == <<
    Block(<<While(In, Block(<<If(In, Continue), Out(Num(1)), If(In, Break), Out(Num(2))>>)),
            Out(Num(3))>>),
    Block(<<Decl(I4, Num(1)),
            Do(Block(<<Expr(Assign(I4, In)), If(Bin("==", Var(I4), Num(2)), Continue), Out(Num(1)),
                       IfElse(In, Break, Out(Num(2)))>>), Var(I4)),
            Out(Num(3))>>),
    Block(<<For(Decl(I4, Num(0)), In, Expr(IncDec("x++", I4)),
                Block(<<If(In, Continue), Out(Var(I4))>>)),
            Return(Num(3))>>),
    Block(<<For(None, None, None, If(In, Break)), Out(Num(1))>>),
    Block(<<Decl(X["char"], In),
            For(None, In, Expr(OpAssign("+", X["char"], Num(1))), Out(Var(X["char"]))),
            Return(Var(X["char"]))>>),
    \* Falling through cases, a default in the middle, and no default.
    Block(<<Switch(In, Block(<<Case(0), Out(Num(0)), Case(1), Out(Num(1)), Break,
                               Default, Out(Num(9)), Case(2), Out(Num(2))>>)),
            Switch(In, Block(<<Case(1), Out(Num(1))>>)),
            Return(Num(4))>>),
    \* continue and break in a switch in a loop.
    Block(<<While(In, Block(<<Switch(In, Block(<<Case(0), Continue, Case(1), Break,
                                                 Default, Return(Num(7))>>)),
                              Out(Num(5))>>)),
            Return(Num(8))>>),
    \* A switch in a switch.
    Block(<<Switch(In, Block(<<
                Case(0), Switch(In, Block(<<Case(0), Out(Num(1)), Case(1), Break,
                                            Default, Out(Num(2))>>)),
                         Out(Num(3)), Break,
                Case(1), Out(Num(4)), Switch(In, Block(<<Case(2), Return(Num(6))>>)),
                Default, Out(Num(5))>>)),
            Return(Num(0))>>),
    \* A case inside a loop inside the switch.
    Block(<<Decl(I4, In),
            Switch(Var(I4), Block(<<Case(0), Do(Block(<<Out(Num(0)), Case(1), Out(Num(1)),
                                                        Expr(Assign(I4, In))>>), Var(I4))>>)),
            Return(Num(2))>>),
    \* Jumps: back, out of two loops, into a branch, over dead code.
    Block(<<Label("again", Out(Num(1))), If(In, Goto("again")), Return(Num(2))>>),
    Block(<<While(In, While(In, If(In, Goto("out")))), Return(Num(1)),
            Label("out", Out(Num(2))), Return(Num(3))>>),
    Block(<<If(In, Goto("inside")), Out(Num(1)),
            IfElse(In, Block(<<Out(Num(2)), Label("inside", Out(Num(3)))>>), Out(Num(4))),
            Return(Num(5))>>),
    Block(<<Goto("end"), Out(Num(1)), While(In, Out(Num(2))),
            Label("end", Out(Num(3))), Return(Num(4)), Out(Num(5)), Goto("end")>>),
    Block(<<While(In, Block(<<Break, Out(Num(1))>>)),
            For(None, In, Out(Num(2)), Block(<<Continue, Out(Num(3))>>)),
            If(In, Block(<<Trap_, Out(Num(4))>>)), Return(Num(5))>>),
    \* Short circuits and conditional expressions, with operands pending.
    If(Bin("&&", In, In), Empty),
    Return(Cond(Bin("&&", In, Bin("||", In, In)), In, Num(3))),
    Return(Bin("+", In, Cond(In, Bin("&&", In, In), Bin("||", In, In)))),
    Block(<<Out(Bin("-", Bin("*", In, Num(5)), Bin("||", In, Un("!", In)))), Return(Num(0))>>),
    Block(<<While(Bin("&&", In, Bin("!=", In, Num(2))), Out(Bin("/", Num(6), In))), Return(Num(1))>>),
    Block(<<Decl(I4, In), Expr(Bin(",", Assign(I4, Bin("+", Var(I4), In)), Var(I4))),
            Empty, Return(Un("neg", Var(I4)))>>)
>>

ControlFn(n) ==
    IF n = 0 THEN Fn(<< >>, {}, "void", Block(<<Out(Num(1)), If(In, ReturnVoid), Out(Num(2))>>))
    ELSE Fn(<< >>, {}, "int", Control[n])

MCFunctions == UNION {Straight[family] : family \in DOMAIN Straight}
                  \cup {<<"s", n>> : n \in 0 .. Len(Control)}
MCSource == [k \in MCFunctions |-> IF k[1] = "s" THEN ControlFn(k[2]) ELSE StraightFn(k)]
MCCodes == {LowerFunc(MCSource[k]).code : k \in MCFunctions}

\* On x86-64 a signed char global is loaded wrongly (Extended), and a postfix
\* operator on a parameter yields the raw argument.
Gaps(k) == \/ k[1] \in {"g", "a"} /\ k[2] = "char"
           \/ k[1] = "i" /\ k[3] \in {"x++", "x--"} /\ TypeNamed[k[2]].size < WordSize
MCTargets == [k \in MCFunctions |-> IF Gaps(k) THEN {"arm64"} ELSE {"x86_64", "arm64"}]

MCArgWords == {-1, 3, 128, 300}
MCHighBits == {129}
=============================================================================
