------------------------------ MODULE Lowering ------------------------------
(***************************************************************************)
(* lower_func of src/ir.c: from a typed tree to the instructions of a      *)
(* stack machine, for integer variables and control flow.  Both live       *)
(* targets have words of 8 bytes (get_target_scale), so the "64" variants  *)
(* of the instructions are never emitted.                                  *)
(*                                                                         *)
(* A function being lowered is [code, locals, label_id, has_call, loops]:  *)
(* locals is the sequence of the names that own a stack slot, and loops    *)
(* the stack of loop_contexts, of which the innermost is last.             *)
(***************************************************************************)
EXTENDS CParse

Inst(op, arg, v) == [op |-> op, arg |-> arg, value |-> v]
I(op, v)   == Inst(op, NoLabel, v)
J(op, lab) == Inst(op, lab, 0)
G(op, x)   == Inst(op, <<x, 0>>, 0)

Emit(fn, insts) == [fn EXCEPT !.code = @ \o insts]

\* The labels numbered from label_id on, and the function that has used k.
L(kind, fn, k) == <<kind, fn.label_id + k>>
Used(fn, k)    == [fn EXCEPT !.label_id = @ + k]

Slot(fn, x) == (CHOOSE k \in 1 .. Len(fn.locals) : fn.locals[k] = x) - 1
AddLocal(fn, x) == [fn EXCEPT !.locals = Append(@, x)]

CastToStorage(t) ==
    IF t.size < WordSize THEN <<I(IF t.uns THEN "ucast" ELSE "cast", t.size)>> ELSE << >>

-----------------------------------------------------------------------------
(* Variables                                                               *)

LoadVar(fn, x)  == IF x \in Globals THEN <<G("gload", x)>> ELSE <<I("load", Slot(fn, x))>>
StoreVar(fn, x) == IF x \in Globals THEN <<G("gstore", x)>> ELSE <<I("store", Slot(fn, x))>>

\* A local is cast to its type as it is loaded; a global by the instruction.
LowerVar(fn, n) ==
    LoadVar(fn, n.name) \o IF n.name \in Globals THEN << >> ELSE CastToStorage(n)

Step(op) == <<I("const", 1), I(IF op \in {"++x", "x++"} THEN "+" ELSE "-", 0)>>

LowerIncDec(fn, n) ==
    LET x == n.name
        loaded == LoadVar(fn, x)
        stored == CastToStorage(VarType[x]) \o StoreVar(fn, x)
    IN  IF n.op \in {"++x", "--x"}
        THEN loaded \o Step(n.op) \o stored \o loaded
        ELSE loaded \o loaded \o Step(n.op) \o stored

-----------------------------------------------------------------------------
(* Expressions                                                             *)

UnsignedOp(op) ==
    CASE op = "<" -> "u<" [] op = ">" -> "u>" [] op = "<=" -> "u<=" [] op = ">=" -> "u>="
      [] op = ">>" -> "u>>" [] op = "/" -> "u/" [] op = "%" -> "u%"
      [] OTHER -> op

\* unsigned_relational_compare_width: 4 if both operands are to be cut first.
CompareWidth(n) ==
    IF n.op \notin Compare \/ ~n.cmpu THEN 0
    ELSE IF PromotedSize(n.kids[1]) > 4 \/ PromotedSize(n.kids[2]) > 4 THEN 8 ELSE 4

OperandCast(n) == IF CompareWidth(n) = 4 THEN <<I("ucast", 4)>> ELSE << >>

BinaryOp(n) ==
    IF IF n.op \in {">>", "/", "%"} THEN n.uns ELSE n.cmpu
    THEN UnsignedOp(n.op) ELSE n.op

RECURSIVE LowerExpr(_, _)

RECURSIVE LowerArgs(_, _)
LowerArgs(fn, args) ==
    IF args = << >> THEN fn ELSE LowerArgs(LowerExpr(fn, Head(args)), Tail(args))

LowerCall(fn, n) ==
    IF n.name = "__builtin_trap" THEN Emit(fn, <<I("trap", 0)>>)
    ELSE LET called == Emit([LowerArgs(fn, n.kids) EXCEPT !.has_call = TRUE],
                            <<Inst("call", <<n.name, 0>>, Len(n.kids))>>)
         IN  Emit(called, CastToStorage(n))

\* The value of a true conjunction is not jumped over the false one.
LowerAnd_noJump(fn, n) ==
    LET no  == L("and_false", fn, 0)
        end == L("and_end", fn, 1)
        l == Emit(LowerExpr(Used(fn, 2), n.kids[1]), <<J("jz", no)>>)
        r == Emit(LowerExpr(l, n.kids[2]), <<J("jz", no)>>)
    IN  Emit(r, <<I("const", 1), J("label", no), I("const", 0), J("label", end)>>)

LowerAnd(fn, n) ==
    LET no  == L("and_false", fn, 0)
        end == L("and_end", fn, 1)
        l == Emit(LowerExpr(Used(fn, 2), n.kids[1]), <<J("jz", no)>>)
        r == Emit(LowerExpr(l, n.kids[2]), <<J("jz", no)>>)
    IN  Emit(r, <<I("const", 1), J("jmp", end), J("label", no), I("const", 0),
                  J("label", end)>>)

LowerOr(fn, n) ==
    LET next == L("or_false_or", fn, 0)
        no   == L("or_false", fn, 1)
        end  == L("or_end", fn, 2)
        l == Emit(LowerExpr(Used(fn, 3), n.kids[1]),
                  <<J("jz", next), I("const", 1), J("jmp", end), J("label", next)>>)
        r == Emit(LowerExpr(l, n.kids[2]), <<J("jz", no)>>)
    IN  Emit(r, <<I("const", 1), J("jmp", end), J("label", no), I("const", 0),
                  J("label", end)>>)

LowerTernary(fn, n) ==
    LET no  == L("ternary_false", fn, 0)
        end == L("ternary_end", fn, 1)
        c == Emit(LowerExpr(Used(fn, 2), n.kids[1]), <<J("jz", no)>>)
        a == Emit(LowerExpr(c, n.kids[2]), <<J("jmp", end), J("label", no)>>)
    IN  Emit(LowerExpr(a, n.kids[3]), <<J("label", end)>>)

LowerExpr(fn, n) ==
    CASE n.op = "num"  -> Emit(fn, <<I("const", n.value)>>)
      [] n.op = "var"  -> Emit(fn, LowerVar(fn, n))
      [] n.op = "cast" -> Emit(LowerExpr(fn, n.kids[1]), CastToStorage(n))
      [] n.op \in {"++x", "--x", "x++", "x--"} -> Emit(fn, LowerIncDec(fn, n))
      [] n.op \in {"~", "!", "neg"} -> Emit(LowerExpr(fn, n.kids[1]), <<I(n.op, 0)>>)
      [] n.op = ","    -> LowerExpr(Emit(LowerExpr(fn, n.kids[1]), <<I("pop", 0)>>), n.kids[2])
      [] n.op = "assign" ->
            Emit(LowerExpr(fn, n.kids[1]),
                 CastToStorage(VarType[n.name]) \o <<I("dup", 0)>> \o StoreVar(fn, n.name))
      [] n.op = "call" -> LowerCall(fn, n)
      [] n.op = "&&"   -> LowerAnd(fn, n)
      [] n.op = "||"   -> LowerOr(fn, n)
      [] n.op = "?"    -> LowerTernary(fn, n)
      [] n.op \in BinaryOps ->
            LET l == Emit(LowerExpr(fn, n.kids[1]), OperandCast(n))
                r == Emit(LowerExpr(l, n.kids[2]), OperandCast(n))
            IN  Emit(r, <<I(BinaryOp(n), 0)>>)

-----------------------------------------------------------------------------
(* The labels of a switch                                                  *)

\* collect_cases: acc is [node, id, cases, default]; a nested switch keeps
\* its own cases.
RECURSIVE CollectCases(_, _)

RECURSIVE CollectKids(_, _)
CollectKids(acc, k) ==
    IF k > Len(acc.node.kids) THEN acc
    ELSE LET sub == CollectCases([acc EXCEPT !.node = @.kids[k]], FALSE)
         IN  CollectKids([sub EXCEPT !.node = [acc.node EXCEPT !.kids[k] = sub.node]], k + 1)

CollectCases(acc, top) ==
    LET n == acc.node
        lab == <<n.op, acc.id>>
        named == [acc EXCEPT !.node.label = lab, !.id = @ + 1]
    IN  CASE n.op = "switch" /\ ~top -> acc
          [] n.op = "case"    -> [named EXCEPT !.cases = Append(@, <<n.value, lab>>)]
          [] n.op = "default" -> [named EXCEPT !.default = lab]
          [] OTHER            -> CollectKids(acc, 1)

RECURSIVE CaseTests(_, _)
CaseTests(cases, slot) ==
    IF cases = << >> THEN << >>
    ELSE <<I("load", slot), I("const", Head(cases)[1]), I("==", 0), I("!", 0),
           J("jz", Head(cases)[2])>> \o CaseTests(Tail(cases), slot)

-----------------------------------------------------------------------------
(* Statements                                                              *)

PushLoop(fn, break, continue) ==
    [fn EXCEPT !.loops = Append(@, [break |-> break, continue |-> continue])]
PopLoop(fn) == [fn EXCEPT !.loops = SubSeq(@, 1, Len(@) - 1)]

BreakLabel(fn) == fn.loops[Len(fn.loops)].break

\* The innermost context that has a label to continue at: a switch has none.
ContinueLabel(fn) ==
    LET able == {k \in 1 .. Len(fn.loops) : fn.loops[k].continue # NoLabel}
    IN  fn.loops[CHOOSE k \in able : \A j \in able : j <= k].continue

RECURSIVE LowerStmt(_, _)

RECURSIVE LowerBlock(_, _)
LowerBlock(fn, ss) ==
    IF ss = << >> THEN fn ELSE LowerBlock(LowerStmt(fn, Head(ss)), Tail(ss))

LowerDecl(fn, n) ==
    LET own == AddLocal(fn, n.name)
    IN  IF n.kids = << >> THEN own
        ELSE Emit(LowerExpr(own, n.kids[1]), CastToStorage(n) \o <<I("store", Len(fn.locals))>>)

LowerReturn(fn, n) ==
    Emit(IF n.kids = << >> THEN fn ELSE LowerExpr(fn, n.kids[1]),
         CastToStorage(fn.ret) \o <<I("ret", 0)>>)

LowerIf(fn, n) ==
    LET else  == L("else", fn, 0)
        endif == L("endif", fn, 1)
        c == Emit(LowerExpr(Used(fn, 2), n.kids[1]), <<J("jz", else)>>)
        t == Emit(LowerStmt(c, n.kids[2]), <<J("jmp", endif), J("label", else)>>)
        e == IF Len(n.kids) > 2 THEN LowerStmt(t, n.kids[3]) ELSE t
    IN  Emit(e, <<J("label", endif)>>)

LowerWhile(fn, n) ==
    LET start == L("while", fn, 0)
        end   == L("endwhile", fn, 1)
        c == Emit(LowerExpr(Emit(Used(fn, 2), <<J("label", start)>>), n.kids[1]),
                  <<J("jz", end)>>)
        b == PopLoop(LowerStmt(PushLoop(c, end, start), n.kids[2]))
    IN  Emit(b, <<J("jmp", start), J("label", end)>>)

\* The loop is left to its own condition.
LowerDo_noExit(fn, n) ==
    LET start == L("do", fn, 0)
        cond  == L("docond", fn, 1)
        end   == L("enddo", fn, 2)
        b == PopLoop(LowerStmt(PushLoop(Emit(Used(fn, 3), <<J("label", start)>>), end, cond),
                               n.kids[2]))
        c == LowerExpr(Emit(b, <<J("label", cond)>>), n.kids[1])
    IN  Emit(c, <<J("jz", cond), J("jmp", start), J("label", end)>>)

LowerDo(fn, n) ==
    LET start == L("do", fn, 0)
        cond  == L("docond", fn, 1)
        end   == L("enddo", fn, 2)
        b == PopLoop(LowerStmt(PushLoop(Emit(Used(fn, 3), <<J("label", start)>>), end, cond),
                               n.kids[2]))
        c == LowerExpr(Emit(b, <<J("label", cond)>>), n.kids[1])
    IN  Emit(c, <<J("jz", end), J("jmp", start), J("label", end)>>)

LowerOptional(fn, n) == IF n.op = "none" THEN fn ELSE LowerStmt(fn, n)

LowerFor(fn, n) ==
    LET start == L("for", fn, 0)
        step  == L("forstep", fn, 1)
        end   == L("endfor", fn, 2)
        i == Emit(LowerOptional(Used(fn, 3), n.kids[1]), <<J("label", start)>>)
        c == IF n.kids[2].op = "none" THEN i
             ELSE Emit(LowerExpr(i, n.kids[2]), <<J("jz", end)>>)
        b == PopLoop(LowerStmt(PushLoop(c, end, step), n.kids[4]))
        s == LowerOptional(Emit(b, <<J("label", step)>>), n.kids[3])
    IN  Emit(s, <<J("jmp", start), J("label", end)>>)

LowerSwitch(fn, n) ==
    LET end  == L("endswitch", fn, 0)
        acc  == CollectCases([node |-> n, id |-> fn.label_id + 1, cases |-> << >>,
                              default |-> NoLabel], TRUE)
        slot == Len(fn.locals)
        own  == AddLocal([fn EXCEPT !.label_id = acc.id], "$switch_temp")
        v == Emit(LowerExpr(own, acc.node.kids[1]), <<I("store", slot)>>)
        t == Emit(v, CaseTests(acc.cases, slot)
                       \o <<J("jmp", IF acc.default = NoLabel THEN end ELSE acc.default)>>)
        b == PopLoop(LowerStmt(PushLoop(t, end, NoLabel), acc.node.kids[2]))
    IN  Emit(b, <<J("label", end)>>)

LowerStmt(fn, n) ==
    CASE n.op = "block"      -> LowerBlock(fn, n.kids)
      [] n.op = "label_stmt" -> LowerStmt(Emit(fn, <<J("label", <<n.name, -1>>)>>), n.kids[1])
      [] n.op = "goto"       -> Emit(fn, <<J("jmp", <<n.name, -1>>)>>)
      [] n.op = "decl"       -> LowerDecl(fn, n)
      [] n.op = "return"     -> LowerReturn(fn, n)
      [] n.op = "expr"       -> Emit(LowerExpr(fn, n.kids[1]), <<I("pop", 0)>>)
      [] n.op = "if"         -> LowerIf(fn, n)
      [] n.op = "while"      -> LowerWhile(fn, n)
      [] n.op = "do_while"   -> LowerDo(fn, n)
      [] n.op = "for"        -> LowerFor(fn, n)
      [] n.op = "break"      -> Emit(fn, <<J("jmp", BreakLabel(fn))>>)
      [] n.op = "continue"   -> Emit(fn, <<J("jmp", ContinueLabel(fn))>>)
      [] n.op = "switch"     -> LowerSwitch(fn, n)
      [] n.op \in {"case", "default"} -> Emit(fn, <<J("label", n.label)>>)
      [] n.op = "empty"      -> fn

-----------------------------------------------------------------------------
\* A source function is [params, ret, body]; ret is the name of a type, or
\* "void", for which the parser has the size of a word.
ReturnType(f) == IF f.ret = "void" THEN TypeNamed.long ELSE TypeNamed[f.ret]

LowerFunc(f) ==
    LowerStmt([code |-> << >>, locals |-> f.params, label_id |-> 0, has_call |-> FALSE,
               loops |-> << >>, ret |-> ReturnType(f)], Parse(f.body))
=============================================================================
