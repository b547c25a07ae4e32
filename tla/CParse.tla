------------------------------- MODULE CParse -------------------------------
(***************************************************************************)
(* What the parser (src/parser.c) makes of expressions and statements over *)
(* integer variables: the tree it builds, with the size and signedness it  *)
(* gives every node, the comparison with zero it wraps around a truth      *)
(* value, and the assignment it makes of a compound one.                   *)
(*                                                                         *)
(* The source is a tree of [op, name, arg, value, kids]; the parser's      *)
(* nodes are [op, name, value, kids, size, uns, cmpu, label], after op,    *)
(* name, value, lhs/rhs/body, type_size, is_unsigned, compare_unsigned     *)
(* and the name collect_cases gives to a case.                             *)
(***************************************************************************)
EXTENDS CInt, Sequences

CONSTANTS
    Globals,     \* names of global variables
    VarType      \* the type of every variable, global, parameter or local

-----------------------------------------------------------------------------
(* Source trees                                                            *)

Src(op, name, arg, value, kids) ==
    [op |-> op, name |-> name, arg |-> arg, value |-> value, kids |-> kids]

Num(v)            == Src("num", "", "", v, << >>)
NumSuffix(v, sfx) == Src("num", "", sfx, v, << >>)
Var(x)            == Src("var", x, "", 0, << >>)
Un(op, e)         == Src(op, "", "", 0, <<e>>)
Bin(op, a, b)     == Src(op, "", "", 0, <<a, b>>)
IncDec(op, x)     == Src(op, x, "", 0, <<Var(x)>>)
Assign(x, e)      == Src("=", x, "", 0, <<e>>)
OpAssign(op, x, e) == Src("op=", x, op, 0, <<e>>)
Cond(c, a, b)     == Src("?", "", "", 0, <<c, a, b>>)
Cast(t, e)        == Src("cast", t, "", 0, <<e>>)
Call(f, args)     == Src("call", f, "", 0, args)

None        == Src("none", "", "", 0, << >>)
Block(ss)   == Src("block", "", "", 0, ss)
Expr(e)     == Src("expr", "", "", 0, <<e>>)
Decl(x, e)  == Src("decl", x, "", 0, <<e>>)
Label(l, s) == Src("label_stmt", l, "", 0, <<s>>)
Goto(l)     == Src("goto", l, "", 0, << >>)
Return(e)   == Src("return", "", "", 0, <<e>>)
ReturnVoid  == Src("return", "", "", 0, << >>)
If(c, s)    == Src("if", "", "", 0, <<c, s>>)
IfElse(c, s, t) == Src("if", "", "", 0, <<c, s, t>>)
While(c, s) == Src("while", "", "", 0, <<c, s>>)
Do(s, c)    == Src("do_while", "", "", 0, <<c, s>>)
For(init, c, step, s) == Src("for", "", "", 0, <<init, c, step, s>>)
Break       == Src("break", "", "", 0, << >>)
Continue    == Src("continue", "", "", 0, << >>)
Switch(e, s) == Src("switch", "", "", 0, <<e, s>>)
Case(v)     == Src("case", "", "", v, << >>)
Default     == Src("default", "", "", 0, << >>)
Empty       == Src("empty", "", "", 0, << >>)

Relational == {"<", ">", "<=", ">="}
Equality   == {"==", "!="}
Compare    == Relational \cup Equality
Shifts     == {"<<", ">>"}
Arithmetic == {"*", "/", "%", "+", "-", "&", "^", "|"}
Logical    == {"&&", "||"}
BinaryOps  == Arithmetic \cup Shifts \cup Compare

\* External functions, int in(void) and void out(long), and a builtin that
\* traps.  The parser gives a void result the size of a word.
CallType(f) == IF f = "in" THEN TypeNamed.int ELSE TypeNamed.long

-----------------------------------------------------------------------------
(* Typing the nodes                                                        *)

\* A label is its kind and number; a user's has its name and number -1.
NoLabel == <<"", 0>>

\* create_node.
Node(op) == [op |-> op, name |-> "", value |-> 0, kids |-> << >>,
             size |-> 8, uns |-> FALSE, cmpu |-> FALSE, label |-> NoLabel]

Typed(n, t) == [n EXCEPT !.size = t.size, !.uns = t.uns]

\* apply_integer_conversion and apply_integer_literal_conversion, of a decimal
\* literal.
IntMax == 2^(Bits(4) - 1) - 1
ParseNum(e) ==
    [Node("num") EXCEPT
        !.value = e.value,
        !.size = IF e.value > IntMax \/ e.arg \in {"l", "ul"} THEN 8 ELSE 4,
        !.uns = e.arg \in {"u", "ul"}]

PromotedSize(n) == IF n.size < 4 THEN 4 ELSE n.size
PromotedIsUnsigned(n) ==
    n.op \notin Compare \cup Logical \cup {"!"} /\ n.uns /\ n.size >= 4

\* The usual arithmetic conversions, as the parser computes them.
ArithmeticType(l, r) ==
    LET ls == PromotedSize(l)
        rs == PromotedSize(r)
        lu == PromotedIsUnsigned(l)
        ru == PromotedIsUnsigned(r)
    IN  T(IF ls >= rs THEN ls ELSE rs,
          IF ls = rs THEN lu \/ ru ELSE IF ls > rs THEN lu ELSE ru)

\* The signedness of the wider operand is not looked at.
CompareUnsigned_either(l, r) == PromotedIsUnsigned(l) \/ PromotedIsUnsigned(r)

CompareUnsigned(l, r) ==
    IF PromotedSize(l) = PromotedSize(r)
    THEN PromotedIsUnsigned(l) \/ PromotedIsUnsigned(r)
    ELSE \/ PromotedIsUnsigned(l) /\ l.size > r.size
         \/ PromotedIsUnsigned(r) /\ r.size > l.size

BoolNormalize(n) ==
    [Node("!=") EXCEPT !.kids = <<n, Node("num")>>, !.size = 4]

BinaryNode(op, l, r) ==
    LET n == [Node(op) EXCEPT !.kids = <<l, r>>]
    IN  CASE op \in Arithmetic -> Typed(n, ArithmeticType(l, r))
          [] op \in Shifts     -> Typed(n, l)
          [] op \in Compare    -> [n EXCEPT !.size = 4, !.cmpu = CompareUnsigned(l, r)]
          [] op \in Logical    -> [n EXCEPT !.size = 4,
                                     !.kids = <<BoolNormalize(l), BoolNormalize(r)>>]

UnaryNode(op, l) ==
    LET n == [Node(op) EXCEPT !.kids = <<l>>]
    IN  IF op = "!" THEN [n EXCEPT !.size = 4]
        ELSE [n EXCEPT !.size = PromotedSize(l), !.uns = PromotedIsUnsigned(l)]

\* The operands of a conditional expression are not normalised.
TernaryNode(c, a, b) ==
    Typed([Node("?") EXCEPT !.kids = <<c, a, b>>], ArithmeticType(a, b))

VarNode(x) == Typed([Node("var") EXCEPT !.name = x], VarType[x])

IncDecNode(op, x, l) == Typed([Node(op) EXCEPT !.name = x, !.kids = <<l>>], l)
CommaNode(l, r) == Typed([Node(",") EXCEPT !.kids = <<l, r>>], r)
CastNode(t, l) == Typed([Node("cast") EXCEPT !.kids = <<l>>], TypeNamed[t])
CallNode(f, args) == Typed([Node("call") EXCEPT !.name = f, !.kids = args], CallType(f))

AssignNode(x, rhs) ==
    Typed([Node("assign") EXCEPT !.name = x, !.kids = <<rhs>>], VarType[x])

\* x op= e is x = x op e, with an operator node that is never typed.
CompoundNode(op, x, rhs) ==
    AssignNode(x, [Node(op) EXCEPT !.kids = <<VarNode(x), rhs>>])

-----------------------------------------------------------------------------
(* Statements                                                              *)

\* The condition of a statement is compared with zero; a switch's value is not.
CondOf == [if |-> 1, while |-> 1, do_while |-> 1, for |-> 2]

StmtNode(e, kids) ==
    LET n == [Node(e.op) EXCEPT !.name = e.name, !.value = e.value, !.kids = kids]
    IN  IF e.op \notin DOMAIN CondOf \/ kids[CondOf[e.op]].op = "none"
        THEN IF e.op = "decl" THEN Typed(n, VarType[e.name]) ELSE n
        ELSE [n EXCEPT !.kids[CondOf[e.op]] = BoolNormalize(@)]

RECURSIVE Parse(_)

RECURSIVE ParseAll(_)
ParseAll(es) ==
    IF es = << >> THEN << >> ELSE <<Parse(Head(es))>> \o ParseAll(Tail(es))

Parse(e) ==
    LET k == ParseAll(e.kids)
    IN  CASE e.op = "num"  -> ParseNum(e)
          [] e.op = "var"  -> VarNode(e.name)
          [] e.op \in {"~", "!", "neg"} -> UnaryNode(e.op, k[1])
          [] e.op \in {"++x", "--x", "x++", "x--"} -> IncDecNode(e.op, e.name, k[1])
          [] e.op \in BinaryOps \cup Logical -> BinaryNode(e.op, k[1], k[2])
          [] e.op = "?"    -> TernaryNode(k[1], k[2], k[3])
          [] e.op = "="    -> AssignNode(e.name, k[1])
          [] e.op = "op="  -> CompoundNode(e.arg, e.name, k[1])
          [] e.op = ","    -> CommaNode(k[1], k[2])
          [] e.op = "cast" -> CastNode(e.name, k[1])
          [] e.op = "call" -> CallNode(e.name, k)
          [] OTHER         -> StmtNode(e, k)
=============================================================================
