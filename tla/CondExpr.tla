------------------------------ MODULE CondExpr ------------------------------
(***************************************************************************)
(* The expressions of #if and #elif.  eval_preproc_expr of                 *)
(* src/preprocessor.c replaces defined, expands macros with the engine in  *)
(* lex of src/lexer.c (not with pp_expand_tokens), makes every identifier  *)
(* left a number, and evaluates with one function per level of precedence. *)
(* CValue is what C defines, from the tokens alone.  A token is a sequence *)
(* of atoms, as in MacroExpand; character constants are numbers here.      *)
(***************************************************************************)
EXTENDS MacroProsser

Zero == <<"0">>
One == <<"1">>
DefinedOp == <<"defined">>
Digit == [a \in {"0", "1", "2", "3", "7"} |->
            CASE a = "0" -> 0 [] a = "1" -> 1 [] a = "2" -> 2 [] a = "3" -> 3 [] a = "7" -> 7]

\* The functions ep_eval_or to ep_mul, from the weakest operators on.
Levels == << {<<"||">>}, {<<"&&">>}, {<<"|">>}, {<<"^">>}, {<<"&">>},
             {<<"==">>, <<"!=">>}, {<<"<">>, <<">">>, <<"<=">>, <<">=">>},
             {<<"<<">>, <<">>">>}, {<<"+">>, <<"-">>}, {<<"*">>, <<"/">>, <<"%">>} >>
Unary == { <<"!">>, <<"~">>, <<"-">>, <<"+">> }
Operators == UNION Range(Levels) \cup Unary \cup {LP, RP, Comma, Hash, Paste, <<"\"">>}

IsNumber(t) == t[1] \in DOMAIN Digit
IsIdentifier(t) == ~IsNumber(t) /\ t \notin Operators

\* strtol with base 0
NumberValue(t) ==
    FoldLeft(LAMBDA v, a : v * (IF t[1] = "0" THEN 8 ELSE 10) + Digit[a], 0, t)

-----------------------------------------------------------------------------
\* Arithmetic on the values of conditions, which stay small.
CondBits == 12       \* bound: bits of the values that &, | and ^ meet
Truth(b) == IF b THEN 1 ELSE 0
Quot(a, b) == LET abs(x) == IF x < 0 THEN -x ELSE x
                  q == abs(a) \div abs(b)
              IN  IF (a < 0) = (b < 0) THEN q ELSE -q
BitOp(op, a, b) ==
    LET bit(x, k) == (x \div 2^k) % 2
        both(k) == CASE op = <<"&">> -> bit(a, k) * bit(b, k)
                     [] op = <<"^">> -> (bit(a, k) + bit(b, k)) % 2
                     [] op = <<"|">> -> Truth(bit(a, k) + bit(b, k) > 0)
        u == FoldLeft(LAMBDA v, k : v + both(k) * 2^k, 0, [k \in 1 .. CondBits |-> k - 1])
    IN  IF 2 * u < 2^CondBits THEN u ELSE u - 2^CondBits

ep_apply(op, a, b) ==
    CASE op = <<"||">> -> Truth(a # 0 \/ b # 0)
      [] op = <<"&&">> -> Truth(a # 0 /\ b # 0)
      [] op \in {<<"|">>, <<"^">>, <<"&">>} -> BitOp(op, a, b)
      [] op = <<"==">> -> Truth(a = b)
      [] op = <<"!=">> -> Truth(a # b)
      [] op = <<"<">> -> Truth(a < b)
      [] op = <<">">> -> Truth(a > b)
      [] op = <<"<=">> -> Truth(a <= b)
      [] op = <<">=">> -> Truth(a >= b)
      [] op = <<"<<">> -> a * 2^b
      [] op = <<">>">> -> a \div 2^b
      [] op = <<"+">> -> a + b
      [] op = <<"-">> -> a - b
      [] op = <<"*">> -> a * b
      [] op = <<"/">> -> IF b = 0 THEN 0 ELSE Quot(a, b)
      [] op = <<"%">> -> IF b = 0 THEN 0 ELSE a - b * Quot(a, b)
ep_unary(op, a) ==
    CASE op = <<"!">> -> Truth(a = 0) [] op = <<"~">> -> -a - 1
      [] op = <<"-">> -> -a [] op = <<"+">> -> a

-----------------------------------------------------------------------------
\* The parser: a value and the position after it.
At(v, pos) == [v |-> v, pos |-> pos]
ep_peek(toks, pos) == IF pos > Len(toks) THEN << >> ELSE toks[pos]

RECURSIVE ep_primary(_, _), ep_level(_, _, _), ep_loop(_, _, _)

\* What starts no operand is 0, and is not taken.
ep_primary(toks, pos) ==
    LET t == ep_peek(toks, pos)
    IN  IF t = LP
        THEN LET r == ep_level(1, toks, pos + 1) IN At(r.v, r.pos + 1)
        ELSE IF t \in Unary
        THEN LET r == ep_primary(toks, pos + 1) IN At(ep_unary(t, r.v), r.pos)
        ELSE IF t # << >> /\ IsNumber(t) THEN At(NumberValue(t), pos + 1)
        ELSE At(0, pos)

\* Operators of one level associate to the left.
ep_loop(n, toks, left) ==
    IF ep_peek(toks, left.pos) \notin Levels[n] THEN left
    ELSE LET right == ep_level(n + 1, toks, left.pos + 1)
         IN  ep_loop(n, toks, At(ep_apply(toks[left.pos], left.v, right.v), right.pos))

ep_level(n, toks, pos) ==
    IF n > Len(Levels) THEN ep_primary(toks, pos)
    ELSE ep_loop(n, toks, ep_level(n + 1, toks, pos))

-----------------------------------------------------------------------------
\* lex with a macro table: a replacement is expanded on its own, so a name
\* at its end never meets the arguments that follow the invocation.

\* ## over the whole replacement.  An empty token is a placemarker; ## at
\* either end is dropped.
PasteAll(toks) ==
    LET step(s, k) ==
            IF s.skip THEN [s EXCEPT !.skip = FALSE]
            ELSE IF toks[k] # Paste THEN [s EXCEPT !.acc = Append(@, toks[k])]
            ELSE IF s.acc = << >> \/ k = Len(toks) THEN s
            ELSE [acc |-> pp_paste_onto_last(s.acc, toks[k + 1]), skip |-> TRUE]
        all == FoldLeft(step, [acc |-> << >>, skip |-> FALSE], [k \in DOMAIN toks |-> k])
    IN  SelectSeq(all.acc, LAMBDA t : t # << >>)

macro_body_token_is_paste_operand(body, k) ==
    (k > 1 /\ body[k - 1] = Paste) \/ (k < Len(body) /\ body[k + 1] = Paste)
StringizedAt(m, k) ==
    m.body[k] = Hash /\ k < Len(m.body) /\ ParamIdx(m.params, m.body[k + 1]) # 0

RECURSIVE lex(_, _, _)

\* What stands for the k-th token of a function-like macro's body.
Substituted(d, m, args, active, k) ==
    LET i == ParamIdx(m.params, m.body[k])
        sub == Actual(m.params, args, i)
    IN  IF k > 1 /\ StringizedAt(m, k - 1) THEN << >>
        ELSE IF StringizedAt(m, k)
        THEN pp_stringize(Actual(m.params, args, ParamIdx(m.params, m.body[k + 1])))
        ELSE IF i = 0 THEN <<m.body[k]>>
        ELSE IF sub = << >> THEN << << >> >>
        ELSE IF macro_body_token_is_paste_operand(m.body, k) THEN sub
        ELSE lex(d, sub, active)

\* active_macros holds the macros around, and none twice.
lex(d, toks, active) ==
    IF toks = << >> THEN << >>
    ELSE
    LET t == toks[1]
        items == [j \in DOMAIN toks |-> [t |-> toks[j]]]
    IN  IF t \notin DOMAIN d \/ t \in active \/ (d[t].fn /\ ~IsCall(items))
        THEN <<t>> \o lex(d, Tail(toks), active)
        ELSE IF ~d[t].fn
        THEN lex(d, PasteAll(d[t].body), active \cup {t}) \o lex(d, Tail(toks), active)
        ELSE lex(d, PasteAll(FlattenSeq([k \in DOMAIN d[t].body |->
                                           Substituted(d, d[t], Args(items), active, k)])),
                 active \cup {t})
             \o lex(d, SubSeq(toks, ArgsEnd(items) + 1, Len(toks)), active)

-----------------------------------------------------------------------------
\* defined n and defined (n), replaced before anything is expanded.
RECURSIVE Defined(_, _)
Defined(d, toks) ==
    IF toks = << >> THEN << >>
    ELSE IF toks[1] # DefinedOp THEN <<toks[1]>> \o Defined(d, Tail(toks))
    ELSE LET paren == toks[2] = LP
             n == IF paren THEN toks[3] ELSE toks[2]
         IN  <<IF n \in DOMAIN d THEN One ELSE Zero>>
             \o Defined(d, SubSeq(toks, IF paren THEN 5 ELSE 3, Len(toks)))

\* Names the expansion has left: an object-like macro is its body as it
\* stands, true is 1 and everything else 0.
Replaced(d, toks) ==
    FlattenSeq([j \in DOMAIN toks |->
        IF ~IsIdentifier(toks[j]) THEN <<toks[j]>>
        ELSE IF toks[j] \in DOMAIN d /\ ~d[toks[j]].fn THEN d[toks[j]].body
        ELSE IF toks[j] = <<"true">> THEN <<One>> ELSE <<Zero>>])

\* Mutant of eval_preproc_expr: defined n is replaced after the expansion.
eval_preproc_expr_late(d, toks) ==
    ep_level(1, Replaced(d, Defined(d, lex(d, toks, {}))), 1).v

eval_preproc_expr(d, toks) == ep_level(1, Replaced(d, lex(d, Defined(d, toks), {})), 1).v

-----------------------------------------------------------------------------
\* The value of an expression in C: its weakest operator outside
\* parentheses, the rightmost of its level, is applied last, and && and ||
\* do not look at an operand they do not need.
Nesting(toks, j) ==
    Cardinality({m \in 1 .. j : toks[m] = LP}) - Cardinality({m \in 1 .. j : toks[m] = RP})
Binary(toks, n) ==
    {j \in 2 .. Len(toks) : /\ toks[j] \in Levels[n] /\ Nesting(toks, j) = 0
                            /\ toks[j - 1] \notin UNION Range(Levels) \cup Unary}
Split(toks) ==
    LET n == CHOOSE n \in DOMAIN Levels :
                Binary(toks, n) # {} /\ \A m \in 1 .. n - 1 : Binary(toks, m) = {}
    IN  CHOOSE j \in Binary(toks, n) : \A m \in Binary(toks, n) : m <= j

RECURSIVE CValue(_)
CValue(toks) ==
    IF \E n \in DOMAIN Levels : Binary(toks, n) # {}
    THEN LET j == Split(toks)
             op == toks[j]
             left == SubSeq(toks, 1, j - 1)
             right == SubSeq(toks, j + 1, Len(toks))
         IN  IF op = <<"&&">> THEN Truth(CValue(left) # 0 /\ CValue(right) # 0)
             ELSE IF op = <<"||">> THEN Truth(CValue(left) # 0 \/ CValue(right) # 0)
             ELSE ep_apply(op, CValue(left), CValue(right))
    ELSE IF toks[1] \in Unary THEN ep_unary(toks[1], CValue(Tail(toks)))
    ELSE IF toks[1] = LP THEN CValue(SubSeq(toks, 2, Len(toks) - 1))
    ELSE NumberValue(toks[1])

\* The condition holds in C: macros are expanded as in text, and a name
\* that is left is 0.
CCondition(d, toks) ==
    LET expanded == Reference(d, Defined(d, toks))
    IN  CValue([j \in DOMAIN expanded |->
                  IF ~IsIdentifier(expanded[j]) THEN expanded[j]
                  ELSE IF expanded[j] = <<"true">> THEN One ELSE Zero]) # 0
=============================================================================
