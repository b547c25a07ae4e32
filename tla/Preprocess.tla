----------------------------- MODULE Preprocess -----------------------------
(***************************************************************************)
(* preprocessor_preprocess of src/preprocessor.c: the line loop with its   *)
(* stack of conditionals, its recursion into included files, the macro     *)
(* table and the table of files not to be included again.  A line is a     *)
(* record: d says what it is, n the macro and def the definition it names, *)
(* f the file it asks for and angled how, p a number, and toks are the     *)
(* tokens of a text or of a condition.  A path is the sequence of its      *)
(* components, as it is spelled; the code knows a file by its path alone.  *)
(* A condition is evaluated by eval_preproc_expr, which CondExpr models; a *)
(* text goes through the expander of MacroExpand, step by step.            *)
(***************************************************************************)
EXTENDS MacroExpand

CONSTANTS
    EvalCondition(_, _),   \* eval_preproc_expr: the value of tokens under a macro table
    TrueInC(_, _),         \* whether C takes the condition for true
    Sources,         \* file systems: functions from file names to sequences of lines
    FileAt(_),       \* the file a path leads to, if it is one of the system's
    Main,            \* the path of the file the driver compiles
    Here,            \* the path "."
    IncludeDirs,     \* include_dirs: the paths of -I, in their order
    HostDirs,        \* the directories of the build host
    Predefined,      \* the driver's macros, as a macro table
    MaxDepth         \* bound on nested includes; the code has none

Openers == {"if", "ifdef", "ifndef"}
Directives == Openers \cup
    {"elif", "else", "endif", "define", "undef", "include", "once", "line", "error"}

ASSUME DepthAssumption == MaxDepth \in Nat \ {0}
Path == Seq(STRING)
ASSUME PathsAssumption == Main \in Path /\ Here \in Path /\ IncludeDirs \in Seq(Path)
ASSUME FilesAssumption ==
    \A files \in Sources :
        /\ FileAt(Main) \in DOMAIN files
        /\ \A f \in DOMAIN files :
              /\ Len(files[f]) \in Nat /\ DOMAIN files[f] = 1 .. Len(files[f])
              /\ \A m \in DOMAIN files[f] : files[f][m].p \in Int /\ files[f][m].f \in Path

VARIABLES
    src,             \* the files of this run
    stack,           \* calls of preprocessor_preprocess, innermost last
    preprocessor_current_file, preprocessor_current_line,
    included_files,
    out,             \* the expansions appended to the output
    taken            \* history: the lines each of them stands for

lineVars == <<src, stack, preprocessor_current_file, preprocessor_current_line,
              included_files, out, taken>>
expandVars == <<line, calls, result>>
vars == <<lineVars, expandVars, macros, pc>>

\* One call: its path and the file there, the next line, its cond_stack,
\* what its caller had in the two globals, and (history) the lines whose
\* condition held.
Frame(path, parent_file, parent_line) ==
    [file |-> FileAt(path), path |-> path, i |-> 1, conds |-> << >>,
     parent_file |-> parent_file, parent_line |-> parent_line, held |-> {}]

Top == stack[Len(stack)]
Lines == src[Top.file]
AtEnd == Top.i > Len(Lines)
L == Lines[Top.i]
Holds(l) == \/ l.d = "ifdef" /\ l.n \in DOMAIN macros
            \/ l.d = "ifndef" /\ l.n \notin DOMAIN macros
            \/ l.d \in {"if", "elif"} /\ EvalCondition(macros, l.toks) # 0

\* IS_ACTIVE() and what #elif and #else compute for the groups around theirs.
is_active(conds) == \A c \in DOMAIN conds : conds[c].active
push_cond(conds, met, active) == Append(conds, [condition_met |-> met, active |-> active])
Active == is_active(Top.conds)
parent_active == is_active(Front(Top.conds))

\* find_include_file: the directory of the file that asks, unless the name
\* is in angle brackets, then each of include_dirs.
exists(path) == FileAt(path) \in DOMAIN src
current_file_dir == IF Len(Top.path) = 1 THEN Here ELSE Front(Top.path)
candidates ==
    [k \in (IF L.angled THEN 1 ELSE 0) .. Len(IncludeDirs) |->
        (IF k = 0 THEN current_file_dir ELSE IncludeDirs[k]) \o L.f]
Found == {k \in DOMAIN candidates : exists(candidates[k])}
inc_path == candidates[CHOOSE k \in Found : \A j \in Found : k <= j]
is_host_system == inc_path[1] \in HostDirs

\* The end of a line's turn in the loop.
Advance(lines, conds) ==
    /\ stack' = [stack EXCEPT ![Len(stack)] =
                    [Top EXCEPT !.i = Top.i + lines, !.conds = conds,
                                !.held = Top.held \cup {j \in {Top.i} : Holds(L)}]]
    /\ preprocessor_current_line' = preprocessor_current_line + 1
    /\ UNCHANGED <<src, preprocessor_current_file, expandVars>>

Running(d) == pc = "run" /\ ~AtEnd /\ L.d \in d

-----------------------------------------------------------------------------
Init ==
    /\ src \in Sources
    /\ stack = <<Frame(Main, << >>, 1)>>
    /\ preprocessor_current_file = Main /\ preprocessor_current_line = 1
    /\ macros = Predefined
    /\ included_files = {Main}
    /\ out = << >> /\ taken = << >>
    /\ line = << >> /\ calls = << >> /\ result = << >>
    /\ pc = "run"

\* #if, #ifdef, #ifndef
If ==
    /\ Running(Openers)
    /\ Advance(1, push_cond(Top.conds, Holds(L), Holds(L) /\ Active))
    /\ UNCHANGED <<macros, included_files, out, taken, pc>>

Elif ==
    /\ Running({"elif"}) /\ Top.conds # << >>
    /\ LET top == Last(Top.conds)
           new == IF top.condition_met
                  THEN [top EXCEPT !.active = FALSE]
                  ELSE [active |-> Holds(L) /\ parent_active, condition_met |-> Holds(L)]
       IN  Advance(1, Append(Front(Top.conds), new))
    /\ UNCHANGED <<macros, included_files, out, taken, pc>>

\* Mutant of Else: a branch already taken is forgotten.
Else_forgets ==
    /\ Running({"else"}) /\ Top.conds # << >>
    /\ LET new == [active |-> ~Last(Top.conds).active /\ parent_active,
                   condition_met |-> TRUE]
       IN  Advance(1, Append(Front(Top.conds), new))
    /\ UNCHANGED <<macros, included_files, out, taken, pc>>

Else ==
    /\ Running({"else"}) /\ Top.conds # << >>
    /\ LET new == [active |-> ~Last(Top.conds).condition_met /\ parent_active,
                   condition_met |-> TRUE]
       IN  Advance(1, Append(Front(Top.conds), new))
    /\ UNCHANGED <<macros, included_files, out, taken, pc>>

Endif ==
    /\ Running({"endif"}) /\ Top.conds # << >>
    /\ Advance(1, Front(Top.conds))
    /\ UNCHANGED <<macros, included_files, out, taken, pc>>

\* preprocessor_error exits: an unmatched #elif, #else or #endif, a live
\* #error, a file that is not found, an invalid number.
Unmatched == L.d \in {"elif", "else", "endif"} /\ Top.conds = << >>
NotFound == L.d = "include" /\ Found = {}
BadLine == L.d = "line" /\ L.p < 1
Error ==
    /\ Running(Directives)
    /\ Unmatched \/ (Active /\ (L.d = "error" \/ NotFound \/ BadLine))
    /\ pc' = "error"
    /\ UNCHANGED <<lineVars, expandVars, macros>>

Define ==
    /\ Running({"define"}) /\ Active
    /\ macros' = [n \in DOMAIN macros \cup {L.n} |-> IF n = L.n THEN L.def ELSE macros[n]]
    /\ Advance(1, Top.conds)
    /\ UNCHANGED <<included_files, out, taken, pc>>

Undef ==
    /\ Running({"undef"}) /\ Active
    /\ macros' = [n \in DOMAIN macros \ {L.n} |-> macros[n]]
    /\ Advance(1, Top.conds)
    /\ UNCHANGED <<included_files, out, taken, pc>>

\* Mutant of Include: the table of files is not asked.
Include_always ==
    /\ Running({"include"}) /\ Active
    /\ Found # {} /\ ~is_host_system
    /\ Len(stack) < MaxDepth
    /\ stack' = Append(stack, Frame(inc_path, preprocessor_current_file, preprocessor_current_line))
    /\ preprocessor_current_file' = inc_path /\ preprocessor_current_line' = 1
    /\ UNCHANGED <<src, macros, included_files, out, taken, expandVars, pc>>

\* The call for an included file, under the path it was found by; the line's
\* own turn ends when it returns.
Include ==
    /\ Running({"include"}) /\ Active
    /\ Found # {} /\ ~is_host_system /\ inc_path \notin included_files
    /\ Len(stack) < MaxDepth
    /\ stack' = Append(stack, Frame(inc_path, preprocessor_current_file, preprocessor_current_line))
    /\ preprocessor_current_file' = inc_path /\ preprocessor_current_line' = 1
    /\ UNCHANGED <<src, macros, included_files, out, taken, expandVars, pc>>

\* Headers of the build host and paths recorded are passed over.
IncludeSkipped ==
    /\ Running({"include"}) /\ Active
    /\ Found # {} /\ (is_host_system \/ inc_path \in included_files)
    /\ Advance(1, Top.conds)
    /\ UNCHANGED <<macros, included_files, out, taken, pc>>

\* #pragma once, which is obeyed in groups that are skipped, too: it records
\* the path by which this file was found.
Once ==
    /\ Running({"once"})
    /\ included_files' = included_files \cup {preprocessor_current_file}
    /\ Advance(1, Top.conds)
    /\ UNCHANGED <<macros, out, taken, pc>>

\* #line names the number of the next line.
Line ==
    /\ Running({"line"}) /\ Active /\ L.p >= 1
    /\ stack' = [stack EXCEPT ![Len(stack)] = [Top EXCEPT !.i = Top.i + 1]]
    /\ preprocessor_current_line' = (L.p - 1) + 1
    /\ UNCHANGED <<src, preprocessor_current_file, macros, included_files, out, taken, expandVars, pc>>

\* Everything else in a group that is not active.
Skip ==
    /\ Running({"define", "undef", "include", "line", "error", "text"}) /\ ~Active
    /\ Advance(1, Top.conds)
    /\ UNCHANGED <<macros, included_files, out, taken, pc>>

\* A line that leaves parentheses open takes the lines that follow, up to
\* the one that closes them, a directive or the end of the file.
Logical(j) == FlattenSeq([m \in 1 .. j - Top.i + 1 |-> Lines[Top.i + m - 1].toks])
Depth(j) == FoldLeft(LAMBDA d, t : IF t = LP THEN d + 1
                                   ELSE IF t = RP /\ d > 0 THEN d - 1 ELSE d, 0, Logical(j))
LastTaken ==
    CHOOSE j \in Top.i .. Len(Lines) :
        /\ \A m \in Top.i .. j : Lines[m].d = "text"
        /\ \A m \in Top.i .. j - 1 : Depth(m) # 0
        /\ Depth(j) = 0 \/ j = Len(Lines) \/ Lines[j + 1].d # "text"

\* expand_active_line is called for the logical line and its result
\* appended to the output.
Text ==
    /\ Running({"text"}) /\ Active
    /\ BeginExpand(Logical(LastTaken))
    /\ preprocessor_current_line' = preprocessor_current_line + (LastTaken - Top.i)
    /\ UNCHANGED <<src, stack, preprocessor_current_file, included_files, out, taken>>

ExpandText == ExpandStep /\ UNCHANGED lineVars

AppendText ==
    /\ pc = "expanded"
    /\ out' = Append(out, result)
    /\ taken' = Append(taken, [file |-> Top.file, path |-> Top.path,
                              from |-> Top.i, to |-> LastTaken])
    /\ Advance(LastTaken - Top.i + 1, Top.conds)
    /\ pc' = "run"
    /\ UNCHANGED <<macros, included_files>>

\* Mutant of Return: the caller stays at its #include.
Return_again ==
    /\ pc = "run" /\ AtEnd /\ Len(stack) > 1
    /\ stack' = Front(stack)
    /\ preprocessor_current_file' = Top.parent_file
    /\ preprocessor_current_line' = Top.parent_line
    /\ UNCHANGED <<src, macros, included_files, out, taken, expandVars, pc>>

\* The end of an included file: its cond_stack is dropped, the globals are
\* the caller's again, and the caller's line is done.
Return ==
    /\ pc = "run" /\ AtEnd /\ Len(stack) > 1
    /\ LET caller == stack[Len(stack) - 1]
       IN  stack' = Append(SubSeq(stack, 1, Len(stack) - 2), [caller EXCEPT !.i = caller.i + 1])
    /\ preprocessor_current_file' = Top.parent_file
    /\ preprocessor_current_line' = Top.parent_line + 1
    /\ UNCHANGED <<src, macros, included_files, out, taken, expandVars, pc>>

Finish ==
    /\ pc = "run" /\ AtEnd /\ Len(stack) = 1
    /\ pc' = "done"
    /\ UNCHANGED <<lineVars, expandVars, macros>>

Step ==
    \/ If \/ Elif \/ Else \/ Endif \/ Error \/ Define \/ Undef
    \/ Include \/ IncludeSkipped \/ Once \/ Line \/ Skip \/ Text
    \/ ExpandText \/ AppendText \/ Return \/ Finish

Done == pc \in {"done", "error"} /\ UNCHANGED vars

Next == Step \/ Done

\* Weak fairness of Step, which is enabled until the end: nothing in the
\* preprocessor waits.
Fairness == <>[](pc \notin {"done", "error"}) => []<><<Step>>_vars

Spec == Init /\ [][Next]_vars /\ Fairness

-----------------------------------------------------------------------------
\* Conditional inclusion, from the lines of a file alone.  Level(lines, j)
\* counts the groups open before line j; the directives of the group that p
\* opens, up to j, are those at its level with no #endif in between.
Count(lines, j, ds) == Cardinality({m \in 1 .. j - 1 : lines[m].d \in ds})
Level(lines, j) == Count(lines, j, Openers) - Count(lines, j, {"endif"})
Encloses(lines, p, j) ==
    /\ p < j /\ lines[p].d \in Openers
    /\ \A m \in p + 1 .. j : Level(lines, m) > Level(lines, p)
Branches(lines, p, j) ==
    {p} \cup {m \in p + 1 .. j - 1 : /\ lines[m].d \in {"elif", "else"}
                                     /\ Level(lines, m) = Level(lines, p) + 1}

\* A line is live if in every group around it the branch it is in is the
\* first whose condition held when it was read.
BranchHolds(lines, held, m) == lines[m].d = "else" \/ m \in held
InFirstTrue(lines, held, p, j) ==
    \E here \in Branches(lines, p, j) :
        /\ BranchHolds(lines, held, here)
        /\ \A m \in Branches(lines, p, j) \ {here} : m < here /\ ~BranchHolds(lines, held, m)
Live(lines, held, j) ==
    \A p \in 1 .. j - 1 : Encloses(lines, p, j) => InFirstTrue(lines, held, p, j)

(* The two flags per open conditional decide as C does: a line is taken    *)
(* exactly when it is in the first true branch of every group around it,   *)
(* whatever was defined or undefined, in this file or an included one,     *)
(* since the conditions were read.                                         *)
ActiveIsLive == pc = "run" /\ ~AtEnd => (Active <=> Live(Lines, Top.held, Top.i))

(* A condition that is read, in a live group or not, is true for the       *)
(* evaluator and its macro engine exactly when it is true in C, where      *)
(* macros are expanded as in text.                                         *)
ConditionsAsInC ==
    Running({"if", "elif"}) => (Holds(L) <=> TrueInC(macros, L.toks))

(* A file that begins with #pragma once is read once by each path, and one *)
(* that guards itself with a macro nobody undefines is read once: its      *)
(* lines come out at most once, in their order in the file, through cycles *)
(* of includes as well.                                                    *)
PragmaGuarded(f) == src[f] # << >> /\ src[f][1].d = "once"
MacroGuarded(f) ==
    /\ Len(src[f]) > 2
    /\ src[f][1].d = "ifndef" /\ src[f][2].d = "define" /\ src[f][1].n = src[f][2].n
    /\ src[f][Len(src[f])].d = "endif"
    /\ \A m \in 3 .. Len(src[f]) - 1 :
          src[f][m].d \notin Openers \cup {"elif", "else", "endif"}
    /\ \A g \in DOMAIN src : \A m \in DOMAIN src[g] :
          ~(src[g][m].d = "undef" /\ src[g][m].n = src[f][1].n)
ReadOnce(x, y) ==
    /\ x.file = y.file
    /\ MacroGuarded(x.file) \/ (PragmaGuarded(x.file) /\ x.path = y.path)
IncludedOnce ==
    \A x, y \in DOMAIN taken :
        x < y /\ ReadOnce(taken[x], taken[y]) => taken[x].to < taken[y].from

(* The preprocessor ends when every file is guarded: the line loop, its    *)
(* includes, the expansion of every line and the substitutions and         *)
(* prescans nested in it.                                                  *)
Termination == <>(pc \in {"done", "error"})
=============================================================================
