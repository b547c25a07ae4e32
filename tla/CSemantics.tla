----------------------------- MODULE CSemantics -----------------------------
(***************************************************************************)
(* The reference for the code generator: what a source function of CParse  *)
(* does according to C, written from the language and not from the         *)
(* compiler.  Operands are evaluated from left to right, one of the orders *)
(* C allows, and a division by zero aborts, as src/backend_x86_64.c has it *)
(* (testq, jne, call abort).                                               *)
(*                                                                         *)
(* A state of the reference is [env, in, out, stop, go, target, val]: the  *)
(* variables, the inputs left, the outputs so far, why the program ended   *)
(* ("" while it has not), and how control leaves a statement: "" normally, *)
(* "break", "continue", "return", "goto", "halt", or "seek" while a jump   *)
(* looks for its target.  stop = "open" if C leaves the behaviour open.    *)
(*                                                                         *)
(* The compiler computes unsigned int in words of 8 bytes and cuts the     *)
(* result to 4 bytes only where it is stored, converted or compared.  A    *)
(* program that uses the value of such an operation otherwise (in a        *)
(* division, a right shift, a truth test, a conversion to 8 bytes) after   *)
(* it has left the range of unsigned int is "open" too.  wide says that    *)
(* the value of an expression is of this kind.                             *)
(***************************************************************************)
EXTENDS CParse

-----------------------------------------------------------------------------
(* The types of C                                                          *)

Promote(t) == IF t.size < 4 THEN TypeNamed.int ELSE t

Common(s, t) ==
    LET a == Promote(s)
        b == Promote(t)
    IN  CASE a.size = b.size -> T(a.size, a.uns \/ b.uns)
          [] a.size > b.size -> a
          [] OTHER           -> b

LiteralType(v, sfx) ==
    LET size == IF sfx \in {"l", "ul"} \/ v > IntMax THEN 8 ELSE 4
    IN  T(size, sfx \in {"u", "ul"})

RECURSIVE TypeOf(_)
TypeOf(e) ==
    CASE e.op = "num"  -> LiteralType(e.value, e.arg)
      [] e.op \in {"var", "++x", "--x", "x++", "x--", "=", "op="} -> VarType[e.name]
      [] e.op \in Compare \cup Logical \cup {"!"} -> TypeNamed.int
      [] e.op \in Arithmetic -> Common(TypeOf(e.kids[1]), TypeOf(e.kids[2]))
      [] e.op \in Shifts \cup {"~", "neg"} -> Promote(TypeOf(e.kids[1]))
      [] e.op = "?"    -> Common(TypeOf(e.kids[2]), TypeOf(e.kids[3]))
      [] e.op = ","    -> TypeOf(e.kids[2])
      [] e.op = "cast" -> TypeNamed[e.name]
      [] e.op = "call" -> CallType(e.name)

-----------------------------------------------------------------------------
(* Operations on values                                                    *)

Uint == TypeNamed.uint
Fits(v, t) == v = Conv(v, t)

\* The exact result of an arithmetic operator on values of type t; products
\* of the widest unsigned type are taken of representatives that are small.
Exact(op, a, b, t) ==
    CASE op = "+" -> a + b
      [] op = "-" -> a - b
      [] op = "*" -> IF t.uns THEN Word(a) * Word(b) ELSE a * b
      [] op = "/" -> IF t.uns THEN a \div b ELSE Quot(a, b)
      [] op = "%" -> IF t.uns THEN a % b ELSE Rem(a, b)
      [] op \in {"&", "|", "^"} -> Conv(BitOp(op, a, b), t)

Compares(op, a, b) ==
    Truth(CASE op = "<"  -> a < b  [] op = ">"  -> a > b
            [] op = "<=" -> a <= b [] op = ">=" -> a >= b
            [] op = "==" -> a = b  [] op = "!=" -> a # b)

\* A value of an expression, wide or not, in the state the evaluation leaves.
V(v, wide, s) == [v |-> v, wide |-> wide, s |-> s]

Stop(s, why) == IF s.stop = "" THEN [s EXCEPT !.stop = why] ELSE s
Open(s, bad) == IF bad THEN Stop(s, "open") ELSE s

\* a op b for values a and b of types s and t.
ArithmeticOf(op, a, b, s, t, st) ==
    LET ct == Common(s, t)
        x  == Conv(a.v, ct)
        y  == Conv(b.v, ct)
        moved   == x # a.v \/ y # b.v
        wide    == a.wide \/ b.wide \/ (ct = Uint /\ moved)
        divides == op \in {"/", "%"}
    IN  IF divides /\ y = 0
        THEN V(0, FALSE, Stop(Open(st, wide), "abort"))
        ELSE LET r == Exact(op, x, y, ct)
             IN  V(Conv(r, ct), ct = Uint /\ (wide \/ ~Fits(r, ct)),
                   Open(Open(st, /\ ~ct.uns
                                 /\ ~Fits(r, ct) \/ (divides /\ ~Fits(Quot(x, y), ct))),
                        (wide /\ divides) \/ ((a.wide \/ b.wide) /\ ct.size = 8)))

\* C leaves open a shift by a negative or too large count, and the shift to
\* the left of a negative value or out of a signed type.
ShiftOf(op, a, b, s, st) ==
    LET t == Promote(s)
        n == b.v
        low  == n % 8        \* in two parts, each a small product
        part == a.v * 2^low
        r    == Word(part) * 2^(n - low)
        lost == ~Fits(part, t) \/ ~Fits(r, t)
    IN  IF n < 0 \/ n >= Bits(t.size) THEN V(0, FALSE, Open(st, TRUE))
        ELSE IF op = "<<"
        THEN V(Conv(r, t), t = Uint /\ (a.wide \/ lost),
               Open(st, ~t.uns /\ (a.v < 0 \/ lost)))
        ELSE V(a.v \div 2^n, FALSE, Open(st, a.wide))

CompareOf(op, a, b, s, t, st) ==
    LET ct == Common(s, t)
    IN  V(Compares(op, Conv(a.v, ct), Conv(b.v, ct)), FALSE,
          Open(st, (a.wide \/ b.wide) /\ ct.size = 8))

UnaryOf(op, a, s) ==
    LET t == Promote(s)
        r == IF op = "~" THEN -a.v - 1 ELSE -a.v
    IN  IF op = "!" THEN V(Truth(a.v = 0), FALSE, Open(a.s, a.wide /\ a.v = 0))
        ELSE V(Conv(r, t), t = Uint /\ (a.wide \/ ~Fits(r, t)), Open(a.s, ~t.uns /\ ~Fits(r, t)))

\* The value a converted to type t, as by a cast, an assignment or a return.
ConvertTo(a, t) == V(Conv(a.v, t), FALSE, Open(a.s, a.wide /\ t.size = 8))

\* A test of a is true or false.
Tested(a) == Open(a.s, a.wide /\ a.v = 0)

\* The assignment x op= b computes in words, signed, whatever the types are.
CompoundOpen(op, x, a, b, t) ==
    LET ct == IF op \in Shifts THEN Promote(VarType[x]) ELSE Common(VarType[x], t)
        odd(c) == Conv(c.v, ct) # c.v \/ Word(c.v) # c.v
    IN  op \in {"/", "%", ">>"} /\ ct.uns
            /\ (b.wide \/ odd(a) \/ (op # ">>" /\ odd(b)))

-----------------------------------------------------------------------------
(* Expressions                                                             *)

Put(s, x, v) == IF s.stop = "" THEN [s EXCEPT !.env[x] = v] ELSE s

Output(s, v) == IF s.stop = "" THEN [s EXCEPT !.out = Append(@, Word(v))] ELSE s

\* The call of f with the argument a.
CallOf(f, a) ==
    CASE f = "in" /\ a.s.in = << >> -> V(0, FALSE, Stop(a.s, "starved"))
      [] f = "in" /\ a.s.in # << >> ->
            V(Head(a.s.in), FALSE, IF a.s.stop = "" THEN [a.s EXCEPT !.in = Tail(@)] ELSE a.s)
      [] f = "out" -> V(0, FALSE, Output(Open(a.s, a.wide), a.v))
      [] f = "__builtin_trap" -> V(0, FALSE, Stop(a.s, "trap"))

RECURSIVE Eval(_, _)

EvalIncDec(e, s) ==
    LET x == e.name
        t == VarType[x]
        old == s.env[x]
        r == IF e.op \in {"++x", "x++"} THEN old + 1 ELSE old - 1
        new == Conv(r, t)
    IN  V(IF e.op \in {"++x", "--x"} THEN new ELSE old, FALSE,
          Put(Open(s, ~Promote(t).uns /\ ~Fits(r, Promote(t))), x, new))

\* x becomes c.
PutIn(x, c) == V(c.v, FALSE, Put(c.s, x, c.v))

Excused(r, bad) == [r EXCEPT !.s = Open(@, bad)]

\* x op b for the value a that x has after the evaluation of b.
Compound(op, x, a, b, t) ==
    Excused(IF op \in Shifts THEN ShiftOf(op, a, b, VarType[x], b.s)
            ELSE ArithmeticOf(op, a, b, VarType[x], t, b.s),
            CompoundOpen(op, x, a, b, t))

AssignOf(e, b) ==
    PutIn(e.name,
          ConvertTo(IF e.op = "=" THEN b
                    ELSE Compound(e.arg, e.name, V(b.s.env[e.name], FALSE, b.s), b,
                                  TypeOf(e.kids[1])),
                    VarType[e.name]))

\* && and || and ?: evaluate what they need; c is the value of the condition.
TruthOf(a) == V(Truth(a.v # 0), FALSE, Tested(a))

Chosen(a, t) ==
    V(Conv(a.v, t), t = Uint /\ (a.wide \/ ~Fits(a.v, t)), Open(a.s, a.wide /\ t.size = 8))

LazyOf(e, c) ==
    CASE e.op = "?" -> Chosen(Eval(e.kids[IF c.v # 0 THEN 2 ELSE 3], Tested(c)), TypeOf(e))
      [] e.op \in Logical -> IF (e.op = "&&") = (c.v # 0)
                             THEN TruthOf(Eval(e.kids[2], Tested(c))) ELSE TruthOf(c)

BinaryOf(e, a, b) ==
    CASE e.op \in Compare -> CompareOf(e.op, a, b, TypeOf(e.kids[1]), TypeOf(e.kids[2]), b.s)
      [] e.op \in Shifts  -> ShiftOf(e.op, a, b, TypeOf(e.kids[1]), b.s)
      [] OTHER            -> ArithmeticOf(e.op, a, b, TypeOf(e.kids[1]), TypeOf(e.kids[2]), b.s)
EvalRight(e, a) == BinaryOf(e, a, Eval(e.kids[2], a.s))

Eval(e, s) ==
    CASE e.op = "num" -> V(e.value, FALSE, s)
      [] e.op = "var" -> V(s.env[e.name], FALSE, s)
      [] e.op \in {"++x", "--x", "x++", "x--"} -> EvalIncDec(e, s)
      [] e.op \in {"=", "op="} -> AssignOf(e, Eval(e.kids[1], s))
      [] e.op \in {"&&", "||", "?"} -> LazyOf(e, Eval(e.kids[1], s))
      [] e.op = "," -> Eval(e.kids[2], Eval(e.kids[1], s).s)
      [] e.op = "call" -> CallOf(e.name, IF e.kids = << >> THEN V(0, FALSE, s)
                                         ELSE Eval(e.kids[1], s))
      [] e.op = "cast" -> ConvertTo(Eval(e.kids[1], s), TypeNamed[e.name])
      [] e.op \in {"~", "neg", "!"} -> UnaryOf(e.op, Eval(e.kids[1], s), TypeOf(e.kids[1]))
      [] e.op \in BinaryOps -> EvalRight(e, Eval(e.kids[1], s))

-----------------------------------------------------------------------------
(* Statements                                                              *)

Leave(s, how) == [s EXCEPT !.go = how]

\* The state after the evaluation of a full expression.
After(s) == IF s.stop = "" THEN s ELSE Leave(s, "halt")

Seek(s, target) == [s EXCEPT !.go = "seek", !.target = target]
Found(s, target) == IF s.go = "seek" /\ s.target = target THEN Leave(s, "") ELSE s

RECURSIVE Exec(_, _)

RECURSIVE ExecAll(_, _)
ExecAll(ss, s) ==
    IF ss = << >> \/ s.go \notin {"", "seek"} THEN s
    ELSE ExecAll(Tail(ss), Exec(Head(ss), s))

\* r is the value of the condition: go on with one of the branches.
GoOn(q, e) == IF q.go = "halt" THEN q ELSE Exec(e, q)
Branch(r, yes, no) == GoOn(After(Tested(r)), IF r.v # 0 THEN yes ELSE no)

\* A jump that did not end in the first branch may end in the second.
SeekElse(e, r) == IF r.go = "seek" /\ Len(e.kids) > 2 THEN Exec(e.kids[3], r) ELSE r

ExecIf(e, s) ==
    IF s.go = "seek" THEN SeekElse(e, Exec(e.kids[2], s))
    ELSE Branch(Eval(e.kids[1], s), e.kids[2], IF Len(e.kids) > 2 THEN e.kids[3] ELSE None)

Guard(loop) == IF loop.op = "for" THEN loop.kids[2] ELSE loop.kids[1]
Body(loop) == loop.kids[Len(loop.kids)]

\* What remains of a loop after its body: the step and another round.
RECURSIVE Loop(_, _)
NextRound(loop, s) ==
    CASE s.go = "break" -> Leave(s, "")
      [] s.go \in {"", "continue"} ->
            Loop(loop, IF loop.op = "for" THEN Exec(loop.kids[3], Leave(s, "")) ELSE Leave(s, ""))
      [] OTHER -> s

\* The condition is tested, and the body is executed if it holds.
Enter(loop, holds, q) ==
    IF q.go = "halt" \/ ~holds THEN q ELSE NextRound(loop, Exec(Body(loop), q))
Round(loop, r) == Enter(loop, r.v # 0, After(Tested(r)))
Loop(loop, s) ==
    Round(loop, IF Guard(loop).op = "none" THEN V(1, FALSE, s) ELSE Eval(Guard(loop), s))

\* A jump into the body of a loop goes on with its next round.
Resume(loop, r) == IF r.go = "seek" THEN r ELSE NextRound(loop, r)
LoopFrom(loop, i) == IF i.go = "halt" THEN i ELSE Loop(loop, i)

ExecLoop(e, s) ==
    CASE s.go = "seek" \/ e.op = "do_while" -> Resume(e, Exec(Body(e), s))
      [] s.go # "seek" /\ e.op = "while"    -> Loop(e, s)
      [] s.go # "seek" /\ e.op = "for"      -> LoopFrom(e, Exec(e.kids[1], s))

\* The body is entered at the case of the value, else at default, else not.
LeaveSwitch(r) == IF r.go \in {"break", "seek"} THEN Leave(r, "") ELSE r
OrDefault(body, q, r) ==
    LeaveSwitch(IF r.go = "seek" THEN Exec(body, Seek(q, <<"default", 0>>)) ELSE r)
SwitchOn(body, v, q) ==
    IF q.go = "halt" THEN q ELSE OrDefault(body, q, Exec(body, Seek(q, <<"case", v>>)))
SwitchValue(body, r) == SwitchOn(body, r.v, After(Open(r.s, r.wide)))
ThroughSwitch(r) == IF r.go = "seek" THEN r ELSE LeaveSwitch(r)

ExecSwitch(e, s) ==
    CASE s.go # "seek" -> SwitchValue(e.kids[2], Eval(e.kids[1], s))
      [] s.go = "seek" /\ s.target[1] = "label" -> ThroughSwitch(Exec(e.kids[2], s))
      [] s.go = "seek" /\ s.target[1] # "label" -> s

ReturnState(s, v) == IF s.go = "halt" THEN s ELSE [Leave(s, "return") EXCEPT !.val = Word(v)]
ReturnOfValue(c) == ReturnState(After(c.s), c.v)

\* A simple statement, not executed while a jump looks for its target.
ExecSimple(e, s) ==
    CASE s.go = "seek" -> s
      [] e.op \in {"none", "empty"} -> s
      [] e.op \in {"break", "continue"} -> Leave(s, e.op)
      [] e.op = "goto" -> [Leave(s, "goto") EXCEPT !.target = <<"label", e.name>>]
      [] e.op = "expr" -> After(Eval(e.kids[1], s).s)
      [] e.op = "decl" -> IF e.kids = << >> THEN s
                          ELSE After(PutIn(e.name, ConvertTo(Eval(e.kids[1], s),
                                                             VarType[e.name])).s)
      [] e.op = "return" -> IF e.kids = << >> THEN Leave(s, "return")
                            ELSE ReturnOfValue(ConvertTo(Eval(e.kids[1], s), s.ret))

Exec(e, s) ==
    CASE e.op = "block"      -> ExecAll(e.kids, s)
      [] e.op = "label_stmt" -> Exec(e.kids[1], Found(s, <<"label", e.name>>))
      [] e.op = "case"       -> Found(s, <<"case", e.value>>)
      [] e.op = "default"    -> Found(s, <<"default", 0>>)
      [] e.op = "if"         -> ExecIf(e, s)
      [] e.op = "switch"     -> ExecSwitch(e, s)
      [] e.op \in {"while", "do_while", "for"} -> ExecLoop(e, s)
      [] OTHER               -> ExecSimple(e, s)

\* A goto starts its search at the beginning of the function.
RECURSIVE ExecBody(_, _)
ExecFrom(body, r) == IF r.go = "goto" THEN ExecBody(body, Seek(r, r.target)) ELSE r
ExecBody(body, s) == ExecFrom(body, Exec(body, s))

\* What function f does with these variables and inputs; ret is its type.
Meaning(f, env, ins, ret) ==
    ExecBody(f.body, [env |-> env, in |-> ins, out |-> << >>, stop |-> "", go |-> "",
                      target |-> <<"", 0>>, val |-> 0, ret |-> ret])
=============================================================================
