---------------------------- MODULE MacroExpand ----------------------------
(***************************************************************************)
(* The macro expander of src/preprocessor.c: expand_active_line,           *)
(* pp_expand_tokens with its hidesets, and pp_substitute with #, ##,       *)
(* __VA_ARGS__ and the prescan of arguments, which is a recursive call.    *)
(* A token is the sequence of the atoms pasted into it; a macro is a       *)
(* record of fn (function-like), params and body.  Preprocess starts the   *)
(* expander on a line of text and takes its result.                        *)
(***************************************************************************)
EXTENDS Integers, Sequences, SequencesExt, FiniteSets

CONSTANT StepCap     \* step_cap of pp_expand_tokens

ASSUME CapAssumption == StepCap \in Nat \ {0}

LP == <<"(">>
RP == <<")">>
Comma == <<",">>
Hash == <<"#">>
Paste == <<"##">>
Dots == <<"...">>
VaArgs == <<"__VA_ARGS__">>
Semi == <<";">>
EmptyWrapper == << <<"do">>, <<"{">>, <<"}">>, <<"while">>, LP, <<"0">>, RP >>

\* What stands between two calls of pp_substitute.
NoCall == [body |-> << >>]

VARIABLES
    macros,          \* the macro table: a function from names to definitions
    line,            \* the tokens given to expand_active_line
    calls,           \* the calls of pp_expand_tokens, innermost last
    result,          \* what expand_active_line returns
    pc               \* "run", "expand", "expanded", "done", "error"

\* One call: what remains of the stream (tokens with their hidesets), its
\* output, the rounds of its loop, and the substitution it is in.
ExpandCall(tokens) ==
    [rem |-> [j \in DOMAIN tokens |-> [t |-> tokens[j], hide |-> {}]],
     out |-> << >>, steps |-> 0, call |-> NoCall]

Cur == calls[Len(calls)]
SetCur(f) == calls' = [calls EXCEPT ![Len(calls)] = f]
InCall == Cur.call # NoCall
InLoop == pc = "expand" /\ ~InCall /\ Cur.rem # << >> /\ Cur.steps < StepCap

Head1 == Cur.rem[1]
Texts(items) == [j \in DOMAIN items |-> items[j].t]

Expandable(item) == item.t \in DOMAIN macros /\ item.t \notin item.hide

\* pp_paste_onto_last
pp_paste_onto_last(toks, next) ==
    IF toks = << >> THEN <<next>> ELSE Append(Front(toks), Last(toks) \o next)

\* The replacement of an object-like macro: its body with ## applied.
Pasted(body) ==
    FoldLeft(LAMBDA acc, j :
                 IF body[j] = Paste /\ j > 1 /\ j < Len(body) THEN acc
                 ELSE IF j > 2 /\ body[j - 1] = Paste THEN pp_paste_onto_last(acc, body[j])
                 ELSE Append(acc, body[j]),
             << >>, [j \in DOMAIN body |-> j])

\* pp_hide_add and the splice: the replacement, hidden for the macro, in
\* front of what follows the invocation.
pp_hide_add(hide, name) == hide \cup {name}
Splice(repl, hide, tail) == [j \in DOMAIN repl |-> [t |-> repl[j], hide |-> hide]] \o tail

-----------------------------------------------------------------------------
\* The arguments of an invocation at the head of the stream.
ParenDepth(items, j) ==
    Cardinality({m \in 3 .. j : items[m].t = LP}) - Cardinality({m \in 3 .. j : items[m].t = RP})
Closing(items) == {j \in 3 .. Len(items) : items[j].t = RP /\ ParenDepth(items, j) = -1}
Close(items) == CHOOSE j \in Closing(items) : \A m \in Closing(items) : j <= m
ArgsEnd(items) == IF Closing(items) = {} THEN Len(items) + 1 ELSE Close(items)

\* The positions that end an argument.  An invocation that is not closed
\* loses its last argument.
Seps(items) ==
    SetToSortSeq({j \in 3 .. ArgsEnd(items) - 1 : items[j].t = Comma /\ ParenDepth(items, j) = 0}
                 \cup (Closing(items) \cap {ArgsEnd(items)}), <)
Args(items) ==
    LET seps == Seps(items)
        all == [a \in DOMAIN seps |->
                  Texts(SubSeq(items, IF a = 1 THEN 3 ELSE seps[a - 1] + 1, seps[a] - 1))]
    IN  IF Len(all) = 1 /\ all[1] = << >> THEN << >> ELSE all

-----------------------------------------------------------------------------
\* pp_substitute.
C == Cur.call
VarargIdx(params) == IF Dots \in Range(params)
                     THEN CHOOSE i \in DOMAIN params : params[i] = Dots ELSE 0
ParamIdx(params, t) ==
    IF t = VaArgs /\ VarargIdx(params) # 0 THEN VarargIdx(params)
    ELSE IF t \in Range(params)
    THEN CHOOSE i \in DOMAIN params : params[i] = t /\ \A j \in 1 .. i - 1 : params[j] # t
    ELSE 0

\* The tokens of parameter i: for ... every argument from there on, with
\* the commas put back.
Actual(params, args, i) ==
    IF i = VarargIdx(params)
    THEN FlattenSeq([a \in 1 .. Len(args) - i + 1 |->
                       (IF a = 1 THEN << >> ELSE <<Comma>>) \o args[a + i - 1]])
    ELSE IF i <= Len(args) THEN args[i] ELSE << >>

pp_stringize(toks) ==
    << <<"\"">> \o FlattenSeq([j \in DOMAIN toks |-> toks[j] \o <<" ">>]) >>

Add(acc, paste, sub) ==
    IF paste /\ sub # << >> THEN pp_paste_onto_last(acc, sub[1]) \o Tail(sub) ELSE acc \o sub

Bt == C.body[C.k]
NextIs(t) == C.k < Len(C.body) /\ C.body[C.k + 1] = t
InSubst == pc = "expand" /\ InCall /\ C.k <= Len(C.body)

\* The cases of the loop over the body, in the order the code tries them.
IsStringize == /\ Bt = Hash /\ C.k < Len(C.body)
               /\ ParamIdx(C.params, C.body[C.k + 1]) # 0
IsCommaPaste == /\ Bt = Paste /\ NextIs(VaArgs) /\ VarargIdx(C.params) # 0
                /\ C.acc # << >> /\ Last(C.acc) = Comma
IsParam == ~IsStringize /\ Bt # Paste /\ ParamIdx(C.params, Bt) # 0
IsOther == ~IsStringize /\ Bt # Paste /\ ParamIdx(C.params, Bt) = 0

\* Operands of ## are substituted as they are.
RawOperand == C.paste \/ NextIs(Paste)

\* A lone object-like macro whose body names itself is not expanded either.
Sub == Actual(C.params, C.args, ParamIdx(C.params, Bt))
RecursiveObject ==
    /\ Len(Sub) = 1 /\ Sub[1] \in DOMAIN macros
    /\ ~macros[Sub[1]].fn
    /\ \E j \in DOMAIN macros[Sub[1]].body : Sub[1][1] \in Range(macros[Sub[1]].body[j])

SetCall(c) == SetCur([Cur EXCEPT !.call = c])

Stringize ==
    /\ InSubst /\ IsStringize
    /\ LET sub == Actual(C.params, C.args, ParamIdx(C.params, C.body[C.k + 1]))
       IN  SetCall([C EXCEPT !.acc = @ \o pp_stringize(sub), !.k = @ + 2])
    /\ UNCHANGED <<macros, line, result, pc>>

\* , ##__VA_ARGS__ drops the comma when there are no such arguments.
CommaPaste ==
    /\ InSubst /\ IsCommaPaste
    /\ SetCall([C EXCEPT !.acc = IF Len(C.args) < VarargIdx(C.params) THEN Front(@) ELSE @,
                         !.k = @ + 1])
    /\ UNCHANGED <<macros, line, result, pc>>

PasteNext ==
    /\ InSubst /\ Bt = Paste /\ ~IsCommaPaste
    /\ SetCall([C EXCEPT !.paste = TRUE, !.k = @ + 1])
    /\ UNCHANGED <<macros, line, result, pc>>

CopyToken ==
    /\ InSubst /\ IsOther
    /\ SetCall([C EXCEPT !.acc = Add(@, C.paste, <<Bt>>), !.paste = FALSE, !.k = @ + 1])
    /\ UNCHANGED <<macros, line, result, pc>>

CopyRaw ==
    /\ InSubst /\ IsParam /\ (RawOperand \/ RecursiveObject)
    /\ SetCall([C EXCEPT !.acc = Add(@, C.paste, Sub), !.paste = FALSE, !.k = @ + 1])
    /\ UNCHANGED <<macros, line, result, pc>>

\* The prescan calls pp_expand_tokens with the argument, whose tokens
\* have lost their hidesets.
Prescan ==
    /\ InSubst /\ IsParam /\ ~RawOperand /\ ~RecursiveObject
    /\ calls' = Append(calls, ExpandCall(Sub))
    /\ UNCHANGED <<macros, line, result, pc>>

Finished == pc = "expand" /\ ~InCall /\ (Cur.rem = << >> \/ Cur.steps >= StepCap)

PrescanReturn ==
    /\ Finished /\ Len(calls) > 1
    /\ LET up == calls[Len(calls) - 1]
           c == up.call
       IN  calls' = [Front(calls) EXCEPT ![Len(calls) - 1] =
                       [up EXCEPT !.call =
                          [c EXCEPT !.acc = Add(@, c.paste, Cur.out), !.paste = FALSE, !.k = @ + 1]]]
    /\ UNCHANGED <<macros, line, result, pc>>

\* The replacement is spliced back and examined again.
SpliceCall ==
    /\ pc = "expand" /\ InCall /\ C.k > Len(C.body)
    /\ SetCur([Cur EXCEPT !.rem = Splice(C.acc, C.hide, C.tail), !.call = NoCall])
    /\ UNCHANGED <<macros, line, result, pc>>

-----------------------------------------------------------------------------
\* pp_expand_tokens, called for the tokens of a line.
BeginExpand(toks) ==
    /\ pc' = "expand"
    /\ line' = toks
    /\ calls' = <<ExpandCall(toks)>>
    /\ UNCHANGED <<macros, result>>

IsCall(rem) == Len(rem) > 1 /\ rem[2].t = LP

\* A token that is no macro, is hidden, or is a function-like macro without
\* arguments.
Emit ==
    /\ InLoop
    /\ Expandable(Head1) => macros[Head1.t].fn /\ ~IsCall(Cur.rem)
    /\ SetCur([Cur EXCEPT !.out = Append(@, Head1.t), !.rem = Tail(@), !.steps = @ + 1])
    /\ UNCHANGED <<macros, line, result, pc>>

\* Mutant of ExpandObject: the replacement is not hidden for its macro.
ExpandObject_unhidden ==
    /\ InLoop /\ Expandable(Head1) /\ ~macros[Head1.t].fn
    /\ SetCur([Cur EXCEPT !.rem = Splice(Pasted(macros[Head1.t].body), Head1.hide, Tail(Cur.rem)),
                          !.steps = @ + 1])
    /\ UNCHANGED <<macros, line, result, pc>>

ExpandObject ==
    /\ InLoop /\ Expandable(Head1) /\ ~macros[Head1.t].fn
    /\ SetCur([Cur EXCEPT !.rem = Splice(Pasted(macros[Head1.t].body),
                                         pp_hide_add(Head1.hide, Head1.t), Tail(Cur.rem)),
                          !.steps = @ + 1])
    /\ UNCHANGED <<macros, line, result, pc>>

BeginCall ==
    /\ InLoop /\ Expandable(Head1) /\ macros[Head1.t].fn /\ IsCall(Cur.rem)
    /\ LET m == macros[Head1.t]
           empty == m.body = EmptyWrapper
       IN  SetCur([Cur EXCEPT
                !.steps = @ + 1,
                !.call = [body |-> m.body, params |-> m.params, args |-> Args(Cur.rem),
                          k |-> IF empty THEN Len(m.body) + 1 ELSE 1,
                          acc |-> IF empty THEN << <<"0">> >> ELSE << >>, paste |-> FALSE,
                          hide |-> pp_hide_add(Head1.hide, Head1.t),
                          tail |-> SubSeq(Cur.rem, ArgsEnd(Cur.rem) + 1, Len(Cur.rem))]])
    /\ UNCHANGED <<macros, line, result, pc>>

\* expand_active_line ends a while (0) that no semicolon follows.
Terminated(toks) ==
    FlattenSeq([j \in DOMAIN toks |->
        IF /\ j > 3 /\ SubSeq(toks, j - 3, j) = << <<"while">>, LP, <<"0">>, RP >>
           /\ j = Len(toks) \/ toks[j + 1] # Semi
        THEN <<toks[j], Semi>> ELSE <<toks[j]>>])

EndExpand ==
    /\ Finished /\ Len(calls) = 1
    /\ result' = Terminated(Cur.out)
    /\ pc' = "expanded"
    /\ calls' = << >>
    /\ UNCHANGED <<macros, line>>

ExpandStep ==
    \/ Emit \/ ExpandObject \/ BeginCall
    \/ Stringize \/ CommaPaste \/ PasteNext \/ CopyToken \/ CopyRaw \/ Prescan
    \/ PrescanReturn \/ SpliceCall \/ EndExpand
=============================================================================
