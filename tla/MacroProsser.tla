---------------------------- MODULE MacroProsser ----------------------------
(***************************************************************************)
(* Prosser's expansion algorithm, which the C standard's text was written  *)
(* from, as a reference for MacroExpand: every token keeps its hideset     *)
(* also as an argument, and an empty argument of ## is a placemarker.      *)
(* Where the standard leaves open whether an invocation that ends outside  *)
(* its macro's replacement is nested in it, it is.                         *)
(***************************************************************************)
EXTENDS MacroExpand

Item(t, hide) == [t |-> t, hide |-> hide]

\* The arguments as items, and with hidesets.
ItemArgs(items) ==
    LET seps == Seps(items)
        all == [a \in DOMAIN seps |->
                  SubSeq(items, IF a = 1 THEN 3 ELSE seps[a - 1] + 1, seps[a] - 1)]
    IN  IF Len(all) = 1 /\ all[1] = << >> THEN << >> ELSE all
ItemActual(params, args, i) ==
    IF i = VarargIdx(params)
    THEN FlattenSeq([a \in 1 .. Len(args) - i + 1 |->
                       (IF a = 1 THEN << >> ELSE <<Item(Comma, {})>>) \o args[a + i - 1]])
    ELSE IF i <= Len(args) THEN args[i] ELSE << >>

Glue(os, is) ==
    IF os = << >> \/ is = << >> THEN os \o is
    ELSE Front(os) \o <<Item(Last(os).t \o is[1].t, Last(os).hide \cap is[1].hide)>> \o Tail(is)
HsAdd(hs, os) == [j \in DOMAIN os |-> Item(os[j].t, os[j].hide \cup hs)]

RECURSIVE Expand(_, _), Subst(_, _, _, _, _, _)

\* Subst(d, is, params, args, hs, os): is is what is left of the body.
Subst(d, is, params, args, hs, os) ==
    IF is = << >> THEN HsAdd(hs, os)
    ELSE
    LET p == ParamIdx(params, is[1])
        next == IF Len(is) > 1 THEN is[2] ELSE << >>
        q == ParamIdx(params, next)
        Arg(i) == ItemActual(params, args, i)
    IN  IF is[1] = Hash /\ q # 0
        THEN Subst(d, SubSeq(is, 3, Len(is)), params, args, hs,
                   os \o <<Item(pp_stringize(Texts(Arg(q)))[1], {})>>)
        ELSE IF /\ is[1] = Paste /\ next = VaArgs /\ os # << >> /\ Last(os).t = Comma
        THEN Subst(d, SubSeq(is, 3, Len(is)), params, args, hs,
                   IF Len(args) < q THEN Front(os) ELSE os \o Expand(d, Arg(q)))
        ELSE IF is[1] = Paste /\ q # 0
        THEN Subst(d, SubSeq(is, 3, Len(is)), params, args, hs, Glue(os, Arg(q)))
        ELSE IF is[1] = Paste
        THEN Subst(d, SubSeq(is, 3, Len(is)), params, args, hs, Glue(os, <<Item(next, {})>>))
        ELSE IF p # 0 /\ next = Paste /\ Arg(p) = << >>
        THEN LET r == IF Len(is) > 2 THEN ParamIdx(params, is[3]) ELSE 0
             IN  IF r # 0
                 THEN Subst(d, SubSeq(is, 4, Len(is)), params, args, hs, os \o Arg(r))
                 ELSE Subst(d, SubSeq(is, 3, Len(is)), params, args, hs, os)
        ELSE IF p # 0 /\ next = Paste
        THEN Subst(d, Tail(is), params, args, hs, os \o Arg(p))
        ELSE IF p # 0
        THEN Subst(d, Tail(is), params, args, hs, os \o Expand(d, Arg(p)))
        ELSE Subst(d, Tail(is), params, args, hs, os \o <<Item(is[1], {})>>)

Expand(d, ts) ==
    IF ts = << >> THEN << >>
    ELSE
    LET t == ts[1].t
        hs == ts[1].hide
    IN  IF t \notin DOMAIN d \/ t \in hs THEN <<ts[1]>> \o Expand(d, Tail(ts))
        ELSE IF ~d[t].fn
        THEN Expand(d, Subst(d, d[t].body, << >>, << >>, hs \cup {t}, << >>) \o Tail(ts))
        ELSE IF IsCall(ts) /\ Closing(ts) # {}
        THEN Expand(d, Subst(d, d[t].body, d[t].params, ItemArgs(ts),
                             hs \cup {t}, << >>)
                       \o SubSeq(ts, Close(ts) + 1, Len(ts)))
        ELSE <<ts[1]>> \o Expand(d, Tail(ts))

Reference(d, toks) == Texts(Expand(d, [j \in DOMAIN toks |-> Item(toks[j], {})]))

\* Two rewrites of the code that C does not know: a call of a macro whose body
\* is do { } while (0) stands for 0 (pp_substitute), and a while (0) that no
\* semicolon follows is given one, from a macro or not (expand_active_line).
EndsWhile0(toks) ==
    {j \in 4 .. Len(toks) : SubSeq(toks, j - 3, j) = << <<"while">>, LP, <<"0">>, RP >>}
Rewritten(toks) ==
    \/ \E j \in EndsWhile0(toks) : j = Len(toks) \/ toks[j + 1] # Semi
    \/ \E j \in EndsWhile0(toks) : j > 6 /\ SubSeq(toks, j - 6, j) = EmptyWrapper

(* A line is expanded as Prosser's algorithm does, under the macros        *)
(* defined where it stands, except exactly where the code rewrites a       *)
(* while (0) of the expansion, or stands 0 in for an empty statement.      *)
MatchesProsser ==
    pc = "expanded" =>
        LET expansion == Reference(macros, line)
        IN  result = expansion <=> ~Rewritten(expansion)
=============================================================================
