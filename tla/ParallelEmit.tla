---------------------------- MODULE ParallelEmit ----------------------------
(***************************************************************************)
(* backend_compile_asm of src/backend.c from the IR functions to their     *)
(* assembly: a host build emits every function on a thread of its own,     *)
(* joins them all and appends their results in program order; the          *)
(* self-hosted build emits them one after the other.  Of what              *)
(* x86_64_emit_function does, the model keeps the state that the threads   *)
(* share: the counters that make the local labels of an instruction        *)
(* unique, which are plain static ints.                                    *)
(***************************************************************************)
EXTENDS Integers, Sequences, FiniteSets

CONSTANTS
    Programs,        \* sequences of functions, each a sequence of Ops
    Builds,          \* subset of {"pthreads", "serial"}
    MaxFunctions,    \* bound on the length of a program
    MaxFailures      \* bound on the calls of pthread_create that fail

\* An instruction whose expansion jumps within itself needs a label.
Counters == {"atomic_cas", "clz", "ctz"}
Ops == Counters \cup {"plain"}

ASSUME EmitAssumption ==
    /\ Programs \subseteq Seq(Seq(Ops) \ {<< >>})
    /\ MaxFunctions \in Nat /\ \A p \in Programs : Len(p) <= MaxFunctions
    /\ Builds \subseteq {"pthreads", "serial"} /\ MaxFailures \in Nat

VARIABLES
    ir_functions, build,
    pc,              \* "spawn", "join", "append", "done"; "serial"
    k,               \* the loop index
    thread,          \* "none", "running", "returned", "failed"
    failures,        \* history: calls of pthread_create that failed
    count,           \* x86_64_atomic_label_id, clz_id, ctz_id
    at,              \* where emit_function stands: "fetch", "store", "args"
    reg,             \* the value it loaded from a counter
    args,            \* the arguments of sb_appendf evaluated so far
    text,            \* what it has emitted into its StringBuilder
    result_asm,      \* << >> for nullptr: no function is without code
    out              \* the functions appended, as their texts

backendVars == <<ir_functions, build, pc, k, thread, failures, count, at, reg, args,
                 text, result_asm, out>>
emitVars == <<count, at, reg, args, text>>

Funs == DOMAIN ir_functions
Code(f) == ir_functions[f]
Op(f) == Code(f)[Len(text[f]) + 1]

\* The names an expansion uses: where its jumps go and what it defines.  A
\* compare-and-swap has one label, a clz or ctz two, and reads the counter
\* for each use.
Uses(op) == CASE op = "atomic_cas" -> 2 [] op \in {"clz", "ctz"} -> 4 [] OTHER -> 0
Item(op, ids) == [op |-> op, ids |-> ids]

-----------------------------------------------------------------------------
EmitInit(program) ==
    /\ ir_functions = program /\ build \in Builds
    /\ pc = IF build = "serial" THEN "serial" ELSE "spawn"
    /\ k = 1
    /\ thread = [f \in Funs |-> "none"]
    /\ failures = 0
    /\ count = [c \in Counters |-> 0]
    /\ at = [f \in Funs |-> "fetch"]
    /\ reg = [f \in Funs |-> 0]
    /\ args = [f \in Funs |-> << >>]
    /\ text = [f \in Funs |-> << >>]
    /\ result_asm = [f \in Funs |-> << >>]
    /\ out = << >>

\* backend_compile_asm is called for another file: the counters are static.
Begin(program) ==
    /\ ir_functions' = program
    /\ pc' = IF build = "serial" THEN "serial" ELSE "spawn"
    /\ k' = 1
    /\ thread' = [f \in DOMAIN program |-> "none"]
    /\ at' = [f \in DOMAIN program |-> "fetch"]
    /\ reg' = [f \in DOMAIN program |-> 0]
    /\ args' = [f \in DOMAIN program |-> << >>]
    /\ text' = [f \in DOMAIN program |-> << >>]
    /\ result_asm' = [f \in DOMAIN program |-> << >>]
    /\ out' = << >>
    /\ UNCHANGED <<build, failures, count>>

\* pthread_create, whose result nobody looks at.
Spawn ==
    /\ pc = "spawn" /\ k <= Len(ir_functions)
    /\ \/ /\ thread' = [thread EXCEPT ![k] = "running"]
          /\ UNCHANGED failures
       \/ /\ failures < MaxFailures
          /\ thread' = [thread EXCEPT ![k] = "failed"]
          /\ failures' = failures + 1
    /\ k' = k + 1
    /\ UNCHANGED <<ir_functions, build, pc, emitVars, result_asm, out>>

StartJoin ==
    /\ pc = "spawn" /\ k > Len(ir_functions)
    /\ pc' = "join" /\ k' = 1
    /\ UNCHANGED <<ir_functions, build, thread, failures, emitVars, result_asm, out>>

\* Mutant of Join: the join does not wait.
Join_early ==
    /\ pc = "join" /\ k <= Len(ir_functions)
    /\ k' = k + 1
    /\ UNCHANGED <<ir_functions, build, pc, thread, failures, emitVars, result_asm, out>>

\* pthread_join waits for the thread; of a handle that pthread_create never
\* wrote it returns at once with an error, which nobody looks at either.
Join ==
    /\ pc = "join" /\ k <= Len(ir_functions)
    /\ thread[k] \in {"returned", "failed"}
    /\ k' = k + 1
    /\ UNCHANGED <<ir_functions, build, pc, thread, failures, emitVars, result_asm, out>>

StartAppend ==
    /\ pc = "join" /\ k > Len(ir_functions)
    /\ pc' = "append" /\ k' = 1
    /\ UNCHANGED <<ir_functions, build, thread, failures, emitVars, result_asm, out>>

\* if (thread_args[k].result_asm) sb_append(...): a function without a
\* result is passed over.
AppendResult ==
    /\ pc = "append" /\ k <= Len(ir_functions)
    /\ out' = IF result_asm[k] # << >> THEN Append(out, result_asm[k]) ELSE out
    /\ k' = k + 1
    /\ UNCHANGED <<ir_functions, build, pc, thread, failures, emitVars, result_asm>>

\* The self-hosted build calls emit_function itself.
SerialCall ==
    /\ pc = "serial" /\ k <= Len(ir_functions) /\ thread[k] = "none"
    /\ thread' = [thread EXCEPT ![k] = "running"]
    /\ UNCHANGED <<ir_functions, build, pc, k, failures, emitVars, result_asm, out>>

SerialAppend ==
    /\ pc = "serial" /\ k <= Len(ir_functions) /\ thread[k] = "returned"
    /\ out' = Append(out, result_asm[k])
    /\ k' = k + 1
    /\ UNCHANGED <<ir_functions, build, pc, thread, failures, emitVars, result_asm>>

Finish ==
    /\ pc \in {"append", "serial"} /\ k > Len(ir_functions)
    /\ pc' = "done"
    /\ UNCHANGED <<ir_functions, build, k, thread, failures, emitVars, result_asm, out>>

-----------------------------------------------------------------------------
\* x86_64_emit_function for one instruction after the other.
Emitting(f) == thread[f] = "running" /\ Len(text[f]) < Len(Code(f))

EmitPlain(f) ==
    /\ Emitting(f) /\ Op(f) = "plain"
    /\ text' = [text EXCEPT ![f] = Append(@, Item("plain", << >>))]
    /\ UNCHANGED <<ir_functions, build, pc, k, thread, failures, count, at, reg, args,
                   result_asm, out>>

\* The increment of a static int is a load and a store.
Load(f) ==
    /\ Emitting(f) /\ Op(f) \in Counters /\ at[f] = "fetch"
    /\ reg' = [reg EXCEPT ![f] = count[Op(f)]]
    /\ at' = [at EXCEPT ![f] = "store"]
    /\ UNCHANGED <<ir_functions, build, pc, k, thread, failures, count, args, text,
                   result_asm, out>>

Store(f) ==
    /\ Emitting(f) /\ at[f] = "store"
    /\ count' = [count EXCEPT ![Op(f)] = reg[f] + 1]
    /\ at' = [at EXCEPT ![f] = "args"]
    /\ UNCHANGED <<ir_functions, build, pc, k, thread, failures, reg, args, text,
                   result_asm, out>>

\* atomic_id is a local variable; clz_id and ctz_id are named four times
\* among the arguments, and the build may load each of them anew or keep
\* the value it stored.
ArgValues(f) ==
    IF Op(f) = "atomic_cas" THEN {reg[f]} ELSE {count[Op(f)], reg[f] + 1}

EvalArg(f) ==
    /\ Emitting(f) /\ at[f] = "args" /\ Len(args[f]) < Uses(Op(f))
    /\ \E id \in ArgValues(f) : args' = [args EXCEPT ![f] = Append(@, id)]
    /\ UNCHANGED <<ir_functions, build, pc, k, thread, failures, count, at, reg, text,
                   result_asm, out>>

EmitLabelled(f) ==
    /\ Emitting(f) /\ at[f] = "args" /\ Len(args[f]) = Uses(Op(f))
    /\ text' = [text EXCEPT ![f] = Append(@, Item(Op(f), args[f]))]
    /\ at' = [at EXCEPT ![f] = "fetch"]
    /\ args' = [args EXCEPT ![f] = << >>]
    /\ reg' = [reg EXCEPT ![f] = 0]
    /\ UNCHANGED <<ir_functions, build, pc, k, thread, failures, count, result_asm, out>>

\* The text leaves the private arena through strdup before that is freed.
Return(f) ==
    /\ thread[f] = "running" /\ Len(text[f]) = Len(Code(f))
    /\ result_asm' = [result_asm EXCEPT ![f] = text[f]]
    /\ thread' = [thread EXCEPT ![f] = "returned"]
    /\ UNCHANGED <<ir_functions, build, pc, k, failures, emitVars, out>>

Main == Spawn \/ StartJoin \/ Join \/ StartAppend \/ AppendResult
        \/ SerialCall \/ SerialAppend \/ Finish
Emit(f) == EmitPlain(f) \/ Load(f) \/ Store(f) \/ EvalArg(f) \/ EmitLabelled(f) \/ Return(f)

EmitStep == Main \/ \E f \in Funs : Emit(f)
Done == pc = "done" /\ UNCHANGED backendVars

\* The operating system runs every thread that is ready.
Fairness ==
    /\ WF_backendVars(Main)
    /\ \A f \in 1 .. MaxFunctions : WF_backendVars(f \in Funs /\ Emit(f))
EmitSpec == (\E p \in Programs : EmitInit(p)) /\ [][EmitStep \/ Done]_backendVars /\ Fairness

-----------------------------------------------------------------------------
\* The jumps of an emitted function, as the assembler of src/elf_writer.c
\* resolves them: labels are kept per function, a jump to a name already
\* defined goes to its first definition, and every definition patches every
\* jump before it that asks for its name.

\* Names used and defined by the expansion of item t, in order: one pair for
\* a compare-and-swap, two (zero and done) for clz and ctz.
Jumps(t) == IF t.op = "atomic_cas" THEN {<<"ok", t.ids[1]>>}
            ELSE {<<"zero", t.ids[1]>>, <<"done", t.ids[2]>>}
Labels(t) == IF t.op = "atomic_cas" THEN {<<"ok", t.ids[2]>>}
             ELSE {<<"zero", t.ids[3]>>, <<"done", t.ids[4]>>}

Defines(body, i, op, name) == body[i].op = op /\ name \in Labels(body[i])

\* The items that define the target of a jump to name in item i of body; a
\* jump that nothing defines goes nowhere (0).
Target(body, i, name) ==
    LET op == body[i].op
        earlier == {j \in 1 .. i - 1 : Defines(body, j, op, name)}
        later == {j \in i .. Len(body) : Defines(body, j, op, name)}
    IN  IF earlier # {} THEN CHOOSE j \in earlier : \A m \in earlier : j <= m
        ELSE IF later # {} THEN CHOOSE j \in later : \A m \in later : j >= m
        ELSE 0

Lands(body) ==
    \A i \in DOMAIN body : body[i].op \in Counters =>
        \A name \in Jumps(body[i]) : Target(body, i, name) = i

-----------------------------------------------------------------------------
\* The functions whose threads ran, and the place of one among them.
Returned == {f \in Funs : thread[f] = "returned"}
Place(f) == Cardinality({g \in Returned : g <= f})

(* However the threads are scheduled, the assembly is the functions whose  *)
(* threads ran, whole and in program order: nothing is appended before its *)
(* thread has returned.                                                    *)
InProgramOrder ==
    pc = "done" =>
        /\ Len(out) = Cardinality(Returned)
        /\ \A f \in Returned : [j \in DOMAIN out[Place(f)] |-> out[Place(f)][j].op] = Code(f)

(* The code emitted does not depend on the schedule: every jump within an  *)
(* expansion lands at the label of that expansion.                         *)
LabelsLand == \A f \in Funs : Lands(result_asm[f])
=============================================================================
