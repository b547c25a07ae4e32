---------------------------- MODULE MCPreprocess ----------------------------
(* Small file systems for Preprocess: every short main file over an        *)
(* alphabet of directives, longer ones with headers that guard themselves  *)
(* in different ways, conditions, and macro definitions before a line.     *)
EXTENDS Preprocess, CondExpr

I(x) == <<x>>
A == I("A")
B == I("B")
F == I("F")
G == I("G")
X == I("x")
Y == I("y")
Obj(body) == [fn |-> FALSE, params |-> << >>, body |-> body]
Fn(params, body) == [fn |-> TRUE, params |-> params, body |-> body]

Blank == [d |-> "text", n |-> << >>, def |-> Obj(<< >>),
          f |-> << >>, angled |-> FALSE, p |-> 0, toks |-> << >>]
D(d) == [Blank EXCEPT !.d = d]
Name(d, n) == [Blank EXCEPT !.d = d, !.n = n]
Def(n, def) == [Blank EXCEPT !.d = "define", !.n = n, !.def = def]
Ask(f) == [Blank EXCEPT !.d = "include", !.f = f]
Angled(f) == [Ask(f) EXCEPT !.angled = TRUE]
Inc(f) == Ask(<<f>>)
Cond(d, toks) == [Blank EXCEPT !.d = d, !.toks = toks]
T(toks) == [Blank EXCEPT !.toks = toks]
DefA == Def(A, Obj(<<One>>))

\* A header guarded by #pragma once, one by a macro, one that includes both
\* and marks itself only afterwards, and a pair that include each other.
Once_h == << D("once"), T(<<I("o"), A>>), Name("undef", A) >>
Guard_h == << Name("ifndef", I("G1")), Def(I("G1"), Obj(<< >>)), T(<<I("g"), A>>), DefA, D("endif") >>
Late_h == << Inc("guard"), Inc("once"), D("once"), T(<<I("l"), A>>) >>
Ping_h == << D("once"), Inc("pong"), T(<<I("pi")>>) >>
Pong_h == << Name("ifndef", I("P")), Def(I("P"), Obj(<< >>)), Inc("ping"), T(<<I("po")>>), D("endif") >>
\* In the directory inc, which -I names: a header that reaches once and
\* guard, and its own guarded header, by further paths.
Wrap_h == << Ask(<<"..", "once">>), Ask(<<"..", "guard">>), Inc("mark"), Ask(<<"..", "inc", "mark">>) >>
Mark_h == << D("once"), T(<<I("w")>>) >>
Headers == [once |-> Once_h, guard |-> Guard_h, late |-> Late_h, ping |-> Ping_h, pong |-> Pong_h]
Others_h == [wrap |-> Wrap_h, mark |-> Mark_h, host |-> << T(<<I("host")>>) >>]

\* Where the files are, and the file a path leads to.
Place(f) ==
    CASE f \in {"wrap", "mark"} -> <<"inc", f>>
      [] f = "host" -> <<"usr_include", f>>
      [] OTHER -> <<f>>
Walk(path) ==
    FoldLeft(LAMBDA at, c : IF c = "." THEN at
                            ELSE IF c = ".." /\ at # << >> THEN Front(at)
                            ELSE Append(at, c), << >>, path)
MCFileAt(path) ==
    LET there == {f \in DOMAIN Headers \cup DOMAIN Others_h \cup {"main"} : Place(f) = Walk(path)}
    IN  IF there = {} THEN "" ELSE CHOOSE f \in there : TRUE
MCMain == <<"main">>
MCHere == <<".">>
MCIncludeDirs == << <<"inc">>, <<"usr_include">> >>
MCHostDirs == {"usr_include"}

With(main) ==
    [f \in DOMAIN Headers \cup DOMAIN Others_h \cup {"main"} |->
        IF f = "main" THEN main ELSE IF f \in DOMAIN Headers THEN Headers[f] ELSE Others_h[f]]

\* Every main file of up to MaxLines lines.
CONSTANT MaxLines
Alphabet == { Name("ifdef", A), Cond("elif", <<I("!"), DefinedOp, A>>), D("else"), D("endif"),
              DefA, Inc("once"), T(<<I("m"), A>>) }
Short == UNION { [1 .. len -> Alphabet] : len \in 0 .. MaxLines }

\* A chain of #elif inside each branch of another group.
Nested(a, b) ==
    << a, Cond("elif", <<DefinedOp, A>>), T(<<I("1")>>), Name("ifndef", B), T(<<I("2")>>), b,
       T(<<I("3")>>), D("else"), T(<<I("4")>>), D("endif"), T(<<I("5")>>), D("else"),
       T(<<I("6")>>), D("endif"), T(<<I("7")>>) >>
Long ==
    { Nested(a, b) : a \in {Name("ifdef", B), Name("ifndef", A), Cond("if", <<I("!"), B>>)},
                     b \in {Cond("elif", <<A, I("<"), One>>), Def(B, Obj(<<Zero>>)), D("else"), D("endif")} }

\* Headers included twice and in different orders, in live and dead groups.
Incs == {Inc(f) : f \in DOMAIN Headers}
Includes ==
    { << x, y, Name("ifndef", A), z, D("else"), x, D("endif"), T(<<I("m"), A>>) >> :
          x \in Incs, y \in Incs, z \in Incs }
    \cup
    { << x, y, z, T(<<I("m"), A>>) >> :
          x, y, z \in {Inc("wrap"), Angled(<<"wrap">>), Ask(<<"inc", "wrap">>), Inc("once"), Inc("guard"),
                       Angled(<<"mark">>)} }

\* Lines that open parentheses, before text, a directive and the end, and
\* an invocation spread over lines.
Parens ==
    { << T(<<I("h"), LP, A>>), b, c, d >> : b, c, d \in
        {T(<<A>>), T(<<RP, B>>), T(<<I("h"), LP>>), T(<<RP, RP, LP>>), T(<<RP, LP, RP>>), DefA} }
    \cup { << DefA, Def(F, Fn(<<X, Y>>, <<Y, X, Y>>)), T(<<F, LP, A>>), b, c, T(<<I("z"), RP>>), T(<<A>>) >> :
            b, c \in {T(<<Comma, B>>), T(<<LP, Comma, RP>>), T(<<F, LP, One, Comma, A, RP>>)} }

\* The remaining ways out: errors, host headers, #line, dead directives.
Others ==
    { << Name("ifndef", A), x, D("else"), x, D("endif"), T(<<I("m")>>) >> :
        x \in {D("error"), Inc("nowhere"), Angled(<<"once">>), Inc("host"), D("once"), Name("undef", A),
               [D("line") EXCEPT !.p = 7], D("line"), Cond("elif", <<I("B")>>)} }

\* Conditions: all pairs of operators over small operands, but a shift by a
\* negative number, then unary operators, parentheses, and macros.
Ops == UNION Range(Levels)
Two == <<"2">>
Conditions ==
    { <<Two, o, One, q, Two>> : o \in Ops \ Levels[8], q \in Ops \ {<<"/">>, <<"%">>} }
    \cup { <<Two, o, One, q, Two>> : o \in Levels[8], q \in Ops \ {<<"/">>, <<"%">>, <<"-">>} }
    \cup { <<u, One, o, v, LP, Zero, q, Two, RP>> :
            u \in Unary, v \in Unary, o \in {<<"-">>, <<"<">>, <<"&&">>, <<"|">>},
            q \in {<<"^">>, <<"==">>, <<">">>, <<"*">>} }
    \cup { <<Zero, <<"&&">>, One, <<"/">>, Zero>>, <<One, <<"||">>, One, <<"%">>, Zero>>,
           << <<"0", "1", "7">>, <<"==">>, <<"1", "7">> >>, << <<"true">>, <<"&&">>, X, <<"==">>, Zero>> }
Macros(a, b, f, g) == << Def(A, Obj(a)), Def(B, Obj(b)), Def(F, f), Def(G, g) >>
Chosen(c) == << Name("ifdef", X), Cond("elif", c), T(<<One>>), D("else"), T(<<Zero>>), D("endif") >>
ConditionFiles ==
    { << Cond("if", c), D("else"), T(<<Zero>>), D("endif") >> : c \in Conditions }
    \cup
    { Macros(a, b, f, g) \o Chosen(c) :
        a \in {<<One>>, <<One, <<"+">>, One>>, <<One, Paste, Zero>>, <<B>>},
        b \in {<<Two>>, <<F, LP, Two, Comma, One, RP>>},
        f \in {Fn(<<X, Y>>, <<X, <<"+">>, Y>>), Fn(<<X, Dots>>, <<VaArgs, <<"*">>, X>>)},
        g \in {Fn(<<X>>, <<X, Paste, One>>), Fn(<<X>>, <<LP, X, RP>>),
               Fn(<<X>>, <<F, LP, One, Comma, One, RP>>)},
        c \in { <<A, <<"*">>, B>>, <<F, LP, One, Comma, LP, A, RP, RP, <<"==">>, Two>>,
                <<F, <<"+">>, One>>, <<DefinedOp, LP, F, RP, <<"&">>, DefinedOp, G>>,
                <<G, LP, A, RP, <<"-">>, B>>, <<F, LP, G, LP, B, RP, Comma, Two, RP>>,
                <<I("!"), DefinedOp, A, <<"||">>, A, <<">">>, B>> } }
    \cup
    { Macros(<<One>>, <<Two>>, Fn(<<X, Y>>, <<X, Paste, Y>>), Fn(<<X>>, <<X, Paste, One>>)) \o Chosen(c) :
        c \in { <<F, LP, One, Comma, Two, RP, <<"==">>, <<"1", "2">> >>, <<F, LP, Comma, Two, RP>>,
                <<F, LP, Zero, Comma, RP>>, <<G, LP, RP, <<"-">>, One>> } }

\* Object-like macros that name each other or themselves, or paste.
ObjBodies == { << >>, <<One>>, <<A>>, <<B>>, <<B, A>>, <<F>>,
               << <<"A">>, Paste, <<"B">> >> }
\* Function-like macros: calls, pastes, strings, prescans, variable arguments.
FnDefs == { Fn(<<X>>, <<X>>), Fn(<<X>>, <<G, LP, X, RP>>), Fn(<<X>>, <<X, X, One>>),
            Fn(<<X>>, <<Hash, X>>), Fn(<<X, Y>>, <<X, Paste, Y>>),
            Fn(<<X, Y>>, <<Y, I("+"), X>>),
            Fn(<<X, Dots>>, <<G, LP, X, Comma, Paste, VaArgs, RP>>) }
GDefs == { Fn(<<X>>, <<X, B>>), Fn(<<X, Dots>>, <<VaArgs, Hash, X>>), Fn(<< >>, EmptyWrapper),
           Fn(<<X>>, <<I("while"), LP, I("0"), RP>>) }

InputLines == {
    <<A, B>>, <<A, LP, One, RP, B>>,
    <<F, LP, One, Comma, I("z"), RP, Semi>>, <<F, LP, One, RP>>, <<F, LP, RP, A>>,
    <<F, LP, LP, One, Comma, One, RP, RP>>,
    <<I("while"), LP, I("0"), RP, A>>, <<I("while"), LP, I("0"), RP, Semi, A>>,
    <<F, LP, F, LP, One, RP, RP>>, <<G, F>>, <<F, LP, One, Comma, I("z"), Comma, A, RP>> }

\* Macros whose expansion leads back to themselves, and lines in which such
\* a macro is no argument.
Cyclic(a, b) == A \in Range(a) \/ B \in Range(b) \/ (B \in Range(a) /\ A \in Range(b))
NoMacroArgs(toks) == \A j \in 3 .. Len(toks) : toks[j] \notin {A, B, F}

Problems ==
    { Append(Macros(a, b, f, g), T(toks)) :
        a \in ObjBodies, b \in ObjBodies \ {<< >>}, f \in FnDefs, g \in GDefs, toks \in InputLines }
Modelled == { file \in Problems : Cyclic(file[1].def.body, file[2].def.body) => NoMacroArgs(file[5].toks) }

MCSources ==
    { With(main) : main \in Short \cup Long \cup Includes \cup Parens \cup Others
                            \cup ConditionFiles \cup Modelled }

MCPredefined == (B :> Obj(<<One>>))

(* The two macro engines, the expander of text lines and the one in lex    *)
(* that conditions go through, give the macros defined at a line the       *)
(* meaning they have in C, which is one for both.                          *)
MacrosAsInC == MatchesProsser /\ ConditionsAsInC
=============================================================================
