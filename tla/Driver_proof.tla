---------------------------- MODULE Driver_proof ----------------------------
(* Theorems about Driver, for every set of command lines, every contents   *)
(* of the C files, any number of faults and any schedule of the threads,   *)
(* and about the emission of a file that it extends (ParallelEmit), for    *)
(* any number of functions of any length and any failing pthread_create.   *)
EXTENDS Driver, FiniteSetTheorems, TLAPS

-----------------------------------------------------------------------------
(* The emission of one file: the inductive invariant                       *)

Items == [op : Ops, ids : Seq(Nat)]
EmitPrograms == Seq(Seq(Ops) \ {<< >>})

EmitTypeOK ==
    /\ ir_functions \in EmitPrograms
    /\ build \in {"pthreads", "serial"}
    /\ pc \in {"spawn", "join", "append", "serial", "done"}
    /\ k \in 1 .. Len(ir_functions) + 1
    /\ thread \in [Funs -> {"none", "running", "returned", "failed"}]
    /\ failures \in Nat
    /\ count \in [Counters -> Nat]
    /\ at \in [Funs -> {"fetch", "store", "args"}]
    /\ reg \in [Funs -> Nat]
    /\ args \in [Funs -> Seq(Nat)]
    /\ text \in [Funs -> Seq(Items)]
    /\ result_asm \in [Funs -> Seq(Items)]
    /\ out \in Seq(Seq(Items))

\* A thread between the increment and the end of an expansion stands at an
\* instruction that needs a label.
Expanding ==
    \A f \in Funs : at[f] # "fetch" => Len(text[f]) < Len(Code(f)) /\ Op(f) \in Counters

\* What a thread has emitted are the first instructions of its function.
Prefix ==
    \A f \in Funs : /\ Len(text[f]) <= Len(Code(f))
                    /\ \A j \in 1 .. Len(text[f]) : text[f][j].op = Code(f)[j]

\* A thread that has returned left its whole function, the others nothing.
Results ==
    \A f \in Funs : /\ thread[f] = "returned" =>
                         result_asm[f] = text[f] /\ Len(text[f]) = Len(Code(f))
                    /\ thread[f] # "returned" => result_asm[f] = << >>

\* What the main thread knows of the others at its index.
Joined(f) == thread[f] \in {"returned", "failed"}
Schedule ==
    /\ pc = "spawn" => \A f \in Funs : thread[f] = "none" <=> f >= k
    /\ pc = "join" => \A f \in Funs : thread[f] # "none" /\ (f < k => Joined(f))
    /\ pc = "append" => \A f \in Funs : Joined(f)
    /\ pc = "serial" => \A f \in Funs : /\ f < k => thread[f] = "returned"
                                        /\ f > k => thread[f] = "none"
                                        /\ thread[f] # "failed"
    /\ pc = "done" => k = Len(ir_functions) + 1 /\ \A f \in Funs : Joined(f)

\* The results appended so far, each at its place.
Below(R, i) == {g \in R : g < i}
UpTo(R, i)  == {g \in R : g <= i}
Before(i) == Below(Returned, i)
Appended ==
    /\ pc \in {"spawn", "join"} => out = << >>
    /\ pc \in {"append", "serial", "done"} =>
         /\ Len(out) = Cardinality(Before(k))
         /\ \A f \in Before(k) : Place(f) \in 1 .. Len(out) /\ out[Place(f)] = result_asm[f]

EmitInv == EmitTypeOK /\ Expanding /\ Prefix /\ Results /\ Schedule /\ Appended

-----------------------------------------------------------------------------
(* Facts about indices                                                     *)

\* Going past index i of a set R of indices: what was before i + 1 is what
\* was before i, and i itself if it is in R.
LEMMA PastIndex ==
    ASSUME NEW n \in Nat, NEW R \in SUBSET (1 .. n), NEW i \in 1 .. n
    PROVE  /\ i \notin R => Below(R, i + 1) = Below(R, i)
           /\ i \in R => /\ UpTo(R, i) = Below(R, i + 1)
                         /\ Cardinality(Below(R, i + 1)) = Cardinality(Below(R, i)) + 1
           /\ Below(R, i + 1) \subseteq Below(R, i) \cup {i}
<1> DEFINE B == {g \in R : g < i}
           C == {g \in R : g < i + 1}
<1>0. \A g \in R : /\ g < i + 1 <=> g < i \/ g = i
                   /\ g <= i <=> g < i + 1
                   /\ ~ i < i
  <2>1. \A g \in 1 .. n : /\ g < i + 1 <=> g < i \/ g = i
                          /\ g <= i <=> g < i + 1
                          /\ ~ i < i
    OBVIOUS
  <2> QED BY <2>1
<1>1. IsFiniteSet(1 .. n)
  BY FS_Interval
<1>2. B \subseteq 1 .. n
  OBVIOUS
<1>3. IsFiniteSet(B)
  BY <1>1, <1>2, FS_Subset
<1>4. C \subseteq B \cup {i}
  BY <1>0
<1>5. i \notin R => C = B
  <2>1. C \subseteq B \cup {i}
    BY <1>0
  <2>2. B \subseteq C
    BY <1>0
  <2> QED BY <2>1, <2>2
<1>6. ASSUME i \in R
      PROVE  {g \in R : g <= i} = C /\ Cardinality(C) = Cardinality(B) + 1
  <2>1. C = B \cup {i}
    <3>1. C \subseteq B \cup {i}
      BY <1>0
    <3>2. B \cup {i} \subseteq C
      BY <1>0, <1>6
    <3> QED BY <3>1, <3>2
  <2>2. i \notin B
    BY <1>0
  <2>3. Cardinality(C) = Cardinality(B) + 1
    BY <1>3, <2>1, <2>2, FS_AddElement
  <2> QED BY <1>0, <2>3
<1> QED BY <1>4, <1>5, <1>6 DEF Below, UpTo

\* Nothing is before the first index.
LEMMA BeforeFirst ==
    ASSUME NEW n \in Nat, NEW R \in SUBSET (1 .. n)
    PROVE  Below(R, 1) = {} /\ Cardinality(Below(R, 1)) = 0
<1>1. \A g \in 1 .. n : ~ g < 1
  OBVIOUS
<1>2. {g \in R : g < 1} = {}
  BY <1>1
<1> QED BY <1>2, FS_EmptySet DEF Below

LEMMA ReturnedIndices ==
    ASSUME EmitTypeOK
    PROVE  Returned \in SUBSET (1 .. Len(ir_functions)) /\ Len(ir_functions) \in Nat
           /\ Funs = 1 .. Len(ir_functions)
BY DEF EmitTypeOK, EmitPrograms, Returned, Funs

\* While nothing has been appended there is nothing to say of the places.
LEMMA NothingAppended == EmitTypeOK /\ out = << >> /\ k = 1 => Appended
<1> SUFFICES ASSUME EmitTypeOK, out = << >>, k = 1
             PROVE  Appended
  OBVIOUS
<1>1. Before(k) = {} /\ Cardinality(Before(k)) = 0
  BY ReturnedIndices, BeforeFirst DEF Before
<1> QED BY <1>1 DEF Appended

-----------------------------------------------------------------------------
(* The invariant at the beginning                                          *)

\* backend_compile_asm starts on a program with nothing emitted.
Started ==
    /\ ir_functions \in EmitPrograms
    /\ build \in {"pthreads", "serial"} /\ failures \in Nat /\ count \in [Counters -> Nat]
    /\ pc = IF build = "serial" THEN "serial" ELSE "spawn"
    /\ k = 1 /\ out = << >>
    /\ thread = [f \in Funs |-> "none"]
    /\ at = [f \in Funs |-> "fetch"]
    /\ reg = [f \in Funs |-> 0]
    /\ args = [f \in Funs |-> << >>]
    /\ text = [f \in Funs |-> << >>]
    /\ result_asm = [f \in Funs |-> << >>]

LEMMA Beginning == Started => EmitInv
<1> SUFFICES ASSUME Started
             PROVE  EmitInv
  OBVIOUS
<1>1. Len(ir_functions) \in Nat /\ Funs = 1 .. Len(ir_functions)
  BY DEF Started, EmitPrograms, Funs
<1>2. EmitTypeOK
  BY <1>1 DEF Started, EmitTypeOK, Funs, Items
<1>3. Expanding /\ Results
  BY DEF Started, Expanding, Results, Funs
<1>4. Prefix
  BY DEF Started, Prefix, Funs, Code, EmitPrograms
<1>5. Schedule
  BY <1>1 DEF Started, Schedule, Funs
<1>6. Appended
  BY <1>2, NothingAppended DEF Started
<1> QED BY <1>2, <1>3, <1>4, <1>5, <1>6 DEF EmitInv

LEMMA EmitInitInv ==
    ASSUME NEW program \in EmitPrograms, EmitInit(program)
    PROVE  EmitInv
<1>1. build \in {"pthreads", "serial"}
  BY EmitAssumption DEF EmitInit
<1>2. Started
  BY <1>1 DEF EmitInit, Started, Funs
<1> QED BY <1>2, Beginning

LEMMA BeginInv ==
    ASSUME EmitInv, NEW program \in EmitPrograms, Begin(program)
    PROVE  EmitInv'
<1>1. Started'
  BY DEF EmitInv, EmitTypeOK, Begin, Started, Funs
<1> QED BY <1>1, Beginning, PTL

-----------------------------------------------------------------------------
(* The main thread                                                         *)

LEMMA SpawnInv ==
    ASSUME EmitInv, Spawn
    PROVE  EmitInv'
<1>1. k \in Funs /\ Funs' = Funs /\ Funs = 1 .. Len(ir_functions) /\ Len(ir_functions) \in Nat
  BY ReturnedIndices DEF EmitInv, EmitTypeOK, Spawn, Funs
<1>2. /\ thread' \in [Funs -> {"none", "running", "returned", "failed"}]
      /\ \A f \in Funs : f # k => thread'[f] = thread[f]
      /\ thread'[k] \in {"running", "failed"}
  BY <1>1 DEF EmitInv, EmitTypeOK, Spawn
<1>3. EmitTypeOK'
  BY <1>1, <1>2 DEF EmitInv, EmitTypeOK, Spawn, emitVars
<1>4. (Expanding /\ Prefix)'
  BY DEF EmitInv, Expanding, Prefix, Spawn, emitVars, Funs, Code, Op
<1>5. Results'
  BY <1>1, <1>2 DEF EmitInv, Schedule, Results, Spawn, emitVars, Code
<1>6. Schedule'
  BY <1>1, <1>2 DEF EmitInv, Schedule, Spawn
<1>7. Appended'
  BY DEF EmitInv, Appended, Spawn
<1> QED BY <1>3, <1>4, <1>5, <1>6, <1>7 DEF EmitInv

LEMMA StartJoinInv ==
    ASSUME EmitInv, StartJoin
    PROVE  EmitInv'
<1>1. EmitTypeOK'
  BY DEF EmitInv, EmitTypeOK, StartJoin, emitVars, Funs, EmitPrograms
<1>2. (Expanding /\ Prefix)'
  BY DEF EmitInv, Expanding, Prefix, StartJoin, emitVars, Funs, Code, Op
<1>3. Results'
  BY DEF EmitInv, Results, StartJoin, emitVars, Funs, Code
<1>4. Schedule'
  BY DEF EmitInv, EmitTypeOK, Schedule, Joined, StartJoin, emitVars, Funs, EmitPrograms
<1>5. Appended'
  BY DEF EmitInv, Appended, StartJoin
<1> QED BY <1>1, <1>2, <1>3, <1>4, <1>5 DEF EmitInv

LEMMA JoinInv ==
    ASSUME EmitInv, Join
    PROVE  EmitInv'
<1>1. EmitTypeOK'
  BY DEF EmitInv, EmitTypeOK, Join, emitVars, Funs, EmitPrograms
<1>2. (Expanding /\ Prefix)'
  BY DEF EmitInv, Expanding, Prefix, Join, emitVars, Funs, Code, Op
<1>3. Results'
  BY DEF EmitInv, Results, Join, emitVars, Funs, Code
<1>4. Schedule'
  BY DEF EmitInv, EmitTypeOK, Schedule, Joined, Join, emitVars, Funs, EmitPrograms
<1>5. Appended'
  BY DEF EmitInv, Appended, Join
<1> QED BY <1>1, <1>2, <1>3, <1>4, <1>5 DEF EmitInv

LEMMA StartAppendInv ==
    ASSUME EmitInv, StartAppend
    PROVE  EmitInv'
<1>1. EmitTypeOK'
  BY DEF EmitInv, EmitTypeOK, StartAppend, emitVars, Funs, EmitPrograms
<1>2. (Expanding /\ Prefix)'
  BY DEF EmitInv, Expanding, Prefix, StartAppend, emitVars, Funs, Code, Op
<1>3. Results'
  BY DEF EmitInv, Results, StartAppend, emitVars, Funs, Code
<1>4. Schedule'
  BY DEF EmitInv, EmitTypeOK, Schedule, Joined, StartAppend, emitVars, Funs, EmitPrograms
<1>5. Appended'
  <2>1. (out = << >> /\ k = 1)'
    BY DEF EmitInv, Appended, StartAppend
  <2> QED BY <1>1, <2>1, NothingAppended, PTL
<1> QED BY <1>1, <1>2, <1>3, <1>4, <1>5 DEF EmitInv

\* The step that both builds take past index k: what has come back from k
\* goes to the end of out, and out holds the results up to k, each at its
\* place.
LEMMA Advance ==
    ASSUME EmitInv, pc \in {"append", "serial"}, k \in Funs,
           pc' = pc, k' = k + 1, ir_functions' = ir_functions, thread' = thread,
           result_asm' = result_asm,
           out' = IF k \in Returned THEN Append(out, result_asm[k]) ELSE out
    PROVE  Appended' /\ out' \in Seq(Seq(Items))
<1>1. /\ Funs = 1 .. Len(ir_functions) /\ Len(ir_functions) \in Nat
      /\ Returned \in SUBSET (1 .. Len(ir_functions))
  BY ReturnedIndices DEF EmitInv
<1>2. /\ Returned' = Returned
      /\ \A f : Place(f)' = Place(f)
      /\ Before(k)' = Before(k + 1)
  BY DEF Returned, Funs, Place, Before
<1>7. /\ k \notin Returned => Before(k + 1) = Before(k)
      /\ k \in Returned => /\ Cardinality(Before(k + 1)) = Cardinality(Before(k)) + 1
                           /\ Place(k) = Cardinality(Before(k + 1))
      /\ Before(k + 1) \subseteq Before(k) \cup {k}
  <2>1. Place(k) = Cardinality(UpTo(Returned, k))
    BY DEF Place, UpTo
  <2>2. k \in 1 .. Len(ir_functions)
    BY <1>1
  <2>3. /\ k \notin Returned => Below(Returned, k + 1) = Below(Returned, k)
        /\ k \in Returned => /\ UpTo(Returned, k) = Below(Returned, k + 1)
                             /\ Cardinality(Below(Returned, k + 1))
                                  = Cardinality(Below(Returned, k)) + 1
        /\ Below(Returned, k + 1) \subseteq Below(Returned, k) \cup {k}
    BY <1>1, <2>2, PastIndex
  <2> QED BY <2>1, <2>3 DEF Before
<1>3. /\ out \in Seq(Seq(Items)) /\ result_asm[k] \in Seq(Items)
      /\ Len(out) = Cardinality(Before(k))
      /\ \A f \in Before(k) : Place(f) \in 1 .. Len(out) /\ out[Place(f)] = result_asm[f]
  BY DEF EmitInv, EmitTypeOK, Appended
<1>4. CASE k \notin Returned
  <2>1. Before(k)' = Before(k)
    BY <1>2, <1>4, <1>7
  <2> QED BY <1>2, <1>3, <1>4, <2>1 DEF Appended
<1>5. CASE k \in Returned
  <2>1. /\ Cardinality(Before(k)') = Cardinality(Before(k)) + 1
        /\ Place(k) = Cardinality(Before(k)')
    BY <1>2, <1>5, <1>7
  <2>2. Before(k)' \subseteq Before(k) \cup {k}
    BY <1>2, <1>7
  <2>3. /\ out' \in Seq(Seq(Items)) /\ Len(out') = Len(out) + 1 /\ Len(out) \in Nat
        /\ \A i \in 1 .. Len(out) : out'[i] = out[i]
        /\ out'[Len(out) + 1] = result_asm[k]
    BY <1>3, <1>5
  <2>4. Place(k) = Len(out) + 1 /\ Len(out') = Cardinality(Before(k)')
    BY <1>3, <2>1, <2>3
  <2>5. ASSUME NEW f \in Before(k)'
        PROVE  Place(f) \in 1 .. Len(out') /\ out'[Place(f)] = result_asm[f]
    <3>1. CASE f \in Before(k)
      BY <1>3, <2>3, <3>1
    <3>2. CASE f = k
      BY <2>3, <2>4, <3>2
    <3> QED BY <2>2, <3>1, <3>2
  <2> QED BY <1>2, <2>3, <2>4, <2>5 DEF Appended
<1> QED BY <1>4, <1>5

\* What changes neither the functions nor their threads and results.
LEMMA ThreadsLeftAlone ==
    ASSUME EmitInv, UNCHANGED <<ir_functions, build, thread, failures, emitVars, result_asm>>,
           pc' \in {"append", "serial", "done"}, k' \in 1 .. Len(ir_functions) + 1,
           out' \in Seq(Seq(Items))
    PROVE  EmitTypeOK' /\ Expanding' /\ Prefix' /\ Results'
<1>1. EmitTypeOK'
  BY DEF EmitInv, EmitTypeOK, emitVars, Funs
<1>2. (Expanding /\ Prefix)'
  BY DEF EmitInv, Expanding, Prefix, emitVars, Funs, Code, Op
<1>3. Results'
  BY DEF EmitInv, Results, emitVars, Funs, Code
<1> QED BY <1>1, <1>2, <1>3

LEMMA AppendResultInv ==
    ASSUME EmitInv, AppendResult
    PROVE  EmitInv'
<1>1. k \in Funs /\ k + 1 \in 1 .. Len(ir_functions) + 1
  BY ReturnedIndices DEF EmitInv, EmitTypeOK, AppendResult, Funs
<1>2. result_asm[k] # << >> <=> k \in Returned
  BY <1>1 DEF EmitInv, EmitTypeOK, EmitPrograms, Results, Returned, Code, Funs
<1>3. Appended' /\ out' \in Seq(Seq(Items))
  BY <1>1, <1>2, Advance DEF AppendResult
<1>4. (EmitTypeOK /\ Expanding /\ Prefix /\ Results)'
  BY <1>1, <1>3, ThreadsLeftAlone DEF AppendResult
<1>5. Schedule'
  BY DEF EmitInv, Schedule, Joined, AppendResult, Funs
<1> QED BY <1>3, <1>4, <1>5 DEF EmitInv

LEMMA SerialAppendInv ==
    ASSUME EmitInv, SerialAppend
    PROVE  EmitInv'
<1>1. k \in Funs /\ k + 1 \in 1 .. Len(ir_functions) + 1 /\ k \in Returned
  BY ReturnedIndices DEF EmitInv, EmitTypeOK, SerialAppend, Funs, Returned
<1>2. Appended' /\ out' \in Seq(Seq(Items))
  BY <1>1, Advance DEF SerialAppend
<1>3. (EmitTypeOK /\ Expanding /\ Prefix /\ Results)'
  BY <1>1, <1>2, ThreadsLeftAlone DEF SerialAppend
<1>4. Schedule'
  BY <1>1, ReturnedIndices DEF EmitInv, Schedule, Returned, SerialAppend, Funs
<1> QED BY <1>2, <1>3, <1>4 DEF EmitInv

LEMMA SerialCallInv ==
    ASSUME EmitInv, SerialCall
    PROVE  EmitInv'
<1>1. k \in Funs /\ Funs' = Funs /\ Funs = 1 .. Len(ir_functions) /\ Len(ir_functions) \in Nat
  BY ReturnedIndices DEF EmitInv, EmitTypeOK, SerialCall, Funs
<1>2. /\ thread' \in [Funs -> {"none", "running", "returned", "failed"}]
      /\ \A f \in Funs : f # k => thread'[f] = thread[f]
      /\ thread'[k] = "running" /\ thread[k] = "none"
  BY <1>1 DEF EmitInv, EmitTypeOK, SerialCall
<1>3. EmitTypeOK'
  BY <1>1, <1>2 DEF EmitInv, EmitTypeOK, SerialCall, emitVars
<1>4. (Expanding /\ Prefix)'
  BY DEF EmitInv, Expanding, Prefix, SerialCall, emitVars, Funs, Code, Op
<1>5. Results'
  BY <1>1, <1>2 DEF EmitInv, Results, SerialCall, emitVars, Code
<1>6. Schedule'
  BY <1>1, <1>2 DEF EmitInv, Schedule, SerialCall
<1>7. Appended'
  <2>1. Returned' = Returned
    BY <1>1, <1>2 DEF Returned
  <2> QED BY <2>1 DEF EmitInv, Appended, Before, Place, SerialCall
<1> QED BY <1>3, <1>4, <1>5, <1>6, <1>7 DEF EmitInv

LEMMA FinishInv ==
    ASSUME EmitInv, Finish
    PROVE  EmitInv'
<1>1. /\ k = Len(ir_functions) + 1 /\ Funs = 1 .. Len(ir_functions)
      /\ Len(ir_functions) \in Nat
  <2>1. Funs = 1 .. Len(ir_functions) /\ Len(ir_functions) \in Nat
    BY ReturnedIndices DEF EmitInv
  <2>2. k \in 1 .. Len(ir_functions) + 1 /\ k > Len(ir_functions)
    BY DEF EmitInv, EmitTypeOK, Finish
  <2> QED BY <2>1, <2>2
<1>2. (EmitTypeOK /\ Expanding /\ Prefix /\ Results)'
  BY <1>1, ThreadsLeftAlone DEF EmitInv, EmitTypeOK, Finish
<1>3. Schedule'
  BY <1>1 DEF EmitInv, Schedule, Joined, Finish, Funs
<1>4. Appended'
  <2>1. Returned' = Returned
    BY DEF Returned, Finish, Funs
  <2> QED BY <2>1 DEF EmitInv, Appended, Before, Place, Finish
<1> QED BY <1>2, <1>3, <1>4 DEF EmitInv

-----------------------------------------------------------------------------
(* The threads                                                             *)

\* A step of emit_function short of its return leaves the main thread and
\* every result alone.
LEMMA MainLeftAlone ==
    ASSUME EmitInv,
           UNCHANGED <<ir_functions, build, pc, k, thread, failures, result_asm, out>>
    PROVE  /\ Schedule' /\ Appended'
           /\ (\A f \in Funs : thread[f] = "returned" => text'[f] = text[f]) => Results'
<1>1. Schedule'
  BY DEF EmitInv, Schedule, Joined, Funs
<1>2. Returned' = Returned
  BY DEF Returned, Funs
<1>3. Appended'
  BY <1>2 DEF EmitInv, Appended, Before, Place
<1>4. (\A f \in Funs : thread[f] = "returned" => text'[f] = text[f]) => Results'
  BY DEF EmitInv, Results, Funs, Code
<1> QED BY <1>1, <1>3, <1>4

\* Where a running thread stands: its next instruction is one of Ops.
LEMMA NextOp ==
    ASSUME EmitInv, NEW f \in Funs, Emitting(f)
    PROVE  /\ Len(text[f]) \in Nat /\ Len(Code(f)) \in Nat /\ Len(text[f]) < Len(Code(f))
           /\ Op(f) \in Ops /\ text[f] \in Seq(Items) /\ thread[f] = "running"
<1>1. Code(f) \in Seq(Ops) /\ text[f] \in Seq(Items)
  BY DEF EmitInv, EmitTypeOK, EmitPrograms, Funs, Code
<1>2. Len(text[f]) \in Nat /\ Len(Code(f)) \in Nat /\ Len(text[f]) < Len(Code(f))
  BY <1>1 DEF Emitting
<1> QED BY <1>1, <1>2 DEF Op, Emitting

\* Appending the instruction at hand.
LEMMA EmitOne ==
    ASSUME EmitInv, NEW f \in Funs, Emitting(f), NEW ids \in Seq(Nat),
           text' = [text EXCEPT ![f] = Append(@, Item(Op(f), ids))],
           ir_functions' = ir_functions
    PROVE  /\ text' \in [Funs -> Seq(Items)]
           /\ Prefix'
           /\ \A g \in Funs : g # f => text'[g] = text[g]
<1>1. /\ Len(text[f]) \in Nat /\ Len(Code(f)) \in Nat /\ Len(text[f]) < Len(Code(f))
      /\ Op(f) \in Ops /\ text[f] \in Seq(Items)
  BY NextOp
<1>2. Item(Op(f), ids) \in Items /\ Item(Op(f), ids).op = Op(f)
  BY <1>1 DEF Item, Items
<1>3. text \in [Funs -> Seq(Items)]
  BY DEF EmitInv, EmitTypeOK
<1>4. /\ text'[f] = Append(text[f], Item(Op(f), ids))
      /\ \A g \in Funs : g # f => text'[g] = text[g]
  BY <1>3
<1>5. text' \in [Funs -> Seq(Items)]
  BY <1>1, <1>2, <1>3
<1>6. /\ Len(text'[f]) = Len(text[f]) + 1
      /\ \A j \in 1 .. Len(text[f]) : text'[f][j] = text[f][j]
      /\ text'[f][Len(text[f]) + 1].op = Op(f)
  BY <1>1, <1>2, <1>4
<1>7. /\ Len(text'[f]) <= Len(Code(f))
      /\ \A j \in 1 .. Len(text'[f]) : text'[f][j].op = Code(f)[j]
  <2>1. \A j \in 1 .. Len(text[f]) : text[f][j].op = Code(f)[j]
    BY DEF EmitInv, Prefix
  <2> QED BY <1>1, <1>6, <2>1 DEF Op
<1>8. Prefix'
  <2>1. Funs' = Funs /\ \A g : Code(g)' = Code(g)
    BY DEF Funs, Code
  <2> QED BY <1>4, <1>7, <2>1 DEF EmitInv, Prefix
<1> QED BY <1>4, <1>5, <1>8

LEMMA EmitPlainInv ==
    ASSUME EmitInv, NEW f \in Funs, EmitPlain(f)
    PROVE  EmitInv'
<1>1. Emitting(f) /\ Op(f) = "plain" /\ << >> \in Seq(Nat) /\ thread[f] = "running"
  BY DEF EmitPlain, Emitting
<1>2. /\ text' \in [Funs -> Seq(Items)] /\ Prefix'
      /\ \A g \in Funs : g # f => text'[g] = text[g]
  BY <1>1, EmitOne DEF EmitPlain
<1>3. at[f] = "fetch"
  BY <1>1 DEF EmitInv, Expanding, Counters
<1>4. EmitTypeOK'
  BY <1>2 DEF EmitInv, EmitTypeOK, EmitPlain, Funs
<1>5. Expanding'
  BY <1>2, <1>3 DEF EmitInv, Expanding, EmitPlain, Funs, Code, Op
<1>6. (Results /\ Schedule /\ Appended)'
  BY <1>1, <1>2, MainLeftAlone DEF EmitPlain
<1> QED BY <1>2, <1>4, <1>5, <1>6 DEF EmitInv

LEMMA LoadInv ==
    ASSUME EmitInv, NEW f \in Funs, Load(f)
    PROVE  EmitInv'
<1>1. count[Op(f)] \in Nat
  BY DEF Load, EmitInv, EmitTypeOK
<1>2. EmitTypeOK'
  BY <1>1 DEF EmitInv, EmitTypeOK, Load, Funs
<1>3. Expanding'
  BY DEF EmitInv, EmitTypeOK, Expanding, Load, Emitting, Funs, Code, Op
<1>4. Prefix'
  BY DEF EmitInv, Prefix, Load, Funs, Code
<1>5. (Results /\ Schedule /\ Appended)'
  BY MainLeftAlone DEF Load
<1> QED BY <1>2, <1>3, <1>4, <1>5 DEF EmitInv

LEMMA StoreInv ==
    ASSUME EmitInv, NEW f \in Funs, Store(f)
    PROVE  EmitInv'
<1>1. reg[f] + 1 \in Nat /\ Op(f) \in Counters
  BY DEF Store, EmitInv, EmitTypeOK, Expanding
<1>2. EmitTypeOK'
  BY <1>1 DEF EmitInv, EmitTypeOK, Store, Funs
<1>3. Expanding'
  BY DEF EmitInv, EmitTypeOK, Expanding, Store, Funs, Code, Op
<1>4. Prefix'
  BY DEF EmitInv, Prefix, Store, Funs, Code
<1>5. (Results /\ Schedule /\ Appended)'
  BY MainLeftAlone DEF Store
<1> QED BY <1>2, <1>3, <1>4, <1>5 DEF EmitInv

LEMMA EvalArgInv ==
    ASSUME EmitInv, NEW f \in Funs, EvalArg(f)
    PROVE  EmitInv'
<1>1. Op(f) \in Counters
  BY DEF EvalArg, EmitInv, Expanding
<1>2. PICK id \in ArgValues(f) : args' = [args EXCEPT ![f] = Append(@, id)]
  BY DEF EvalArg
<1>3. id \in Nat
  BY <1>1, <1>2 DEF ArgValues, EmitInv, EmitTypeOK
<1>4. args' \in [Funs -> Seq(Nat)]
  BY <1>2, <1>3 DEF EmitInv, EmitTypeOK
<1>5. EmitTypeOK'
  BY <1>4 DEF EmitInv, EmitTypeOK, EvalArg, Funs
<1>6. (Expanding /\ Prefix)'
  BY DEF EmitInv, Expanding, Prefix, EvalArg, Funs, Code, Op
<1>7. (Results /\ Schedule /\ Appended)'
  BY MainLeftAlone DEF EvalArg
<1> QED BY <1>5, <1>6, <1>7 DEF EmitInv

LEMMA EmitLabelledInv ==
    ASSUME EmitInv, NEW f \in Funs, EmitLabelled(f)
    PROVE  EmitInv'
<1>1. Emitting(f) /\ args[f] \in Seq(Nat) /\ thread[f] = "running"
  BY DEF EmitLabelled, Emitting, EmitInv, EmitTypeOK
<1>2. /\ text' \in [Funs -> Seq(Items)] /\ Prefix'
      /\ \A g \in Funs : g # f => text'[g] = text[g]
  BY <1>1, EmitOne DEF EmitLabelled
<1>3. EmitTypeOK'
  BY <1>2 DEF EmitInv, EmitTypeOK, EmitLabelled, Funs
<1>4. Expanding'
  BY <1>2 DEF EmitInv, EmitTypeOK, Expanding, EmitLabelled, Funs, Code, Op
<1>5. (Results /\ Schedule /\ Appended)'
  BY <1>1, <1>2, MainLeftAlone DEF EmitLabelled
<1> QED BY <1>2, <1>3, <1>4, <1>5 DEF EmitInv

\* A thread returns while the main thread has not begun to append, or, in
\* the self-hosted build, at the index the main thread waits at: no place
\* that has been taken moves.
LEMMA ReturnInv ==
    ASSUME EmitInv, NEW f \in Funs, Return(f)
    PROVE  EmitInv'
<1>1. /\ Funs' = Funs /\ Funs = 1 .. Len(ir_functions) /\ Len(ir_functions) \in Nat
      /\ Returned \in SUBSET (1 .. Len(ir_functions))
  BY ReturnedIndices DEF EmitInv, Return, Funs
<1>2. /\ thread' \in [Funs -> {"none", "running", "returned", "failed"}]
      /\ \A g \in Funs : g # f => thread'[g] = thread[g]
      /\ thread'[f] = "returned" /\ thread[f] = "running"
  BY DEF EmitInv, EmitTypeOK, Return
<1>3. /\ result_asm' \in [Funs -> Seq(Items)]
      /\ result_asm'[f] = text[f]
      /\ \A g \in Funs : g # f => result_asm'[g] = result_asm[g]
  BY DEF EmitInv, EmitTypeOK, Return
<1>4. EmitTypeOK'
  BY <1>1, <1>2, <1>3 DEF EmitInv, EmitTypeOK, Return, emitVars
<1>5. (Expanding /\ Prefix)'
  BY DEF EmitInv, Expanding, Prefix, Return, emitVars, Funs, Code, Op
<1>6. Results'
  BY <1>1, <1>2, <1>3 DEF EmitInv, Results, Return, emitVars, Code
<1>7. pc \in {"spawn", "join", "serial"} /\ (pc = "serial" => f = k)
  <2>1. f < k \/ f = k \/ f > k
    BY <1>1 DEF EmitInv, EmitTypeOK
  <2>2. ~Joined(f) /\ thread[f] # "none"
    BY <1>2 DEF Joined
  <2>3. pc \notin {"append", "done"} /\ (pc = "serial" => f = k)
    BY <1>2, <2>1, <2>2 DEF EmitInv, Schedule
  <2> QED BY <2>3 DEF EmitInv, EmitTypeOK
<1>8. Schedule'
  BY <1>1, <1>2, <1>7 DEF EmitInv, EmitTypeOK, Schedule, Joined, Return
<1>9. Appended'
  <2>1. CASE pc \in {"spawn", "join"}
    BY <2>1 DEF EmitInv, Appended, Return
  <2>2. CASE pc = "serial"
    <3>1. Returned' = Returned \cup {k}
      BY <1>1, <1>2, <1>7, <2>2 DEF Returned
    <3>2. k \in Nat /\ Returned \subseteq Nat /\ k' = k /\ pc' = pc /\ out' = out
      BY <1>1 DEF EmitInv, EmitTypeOK, Return
    <3>3. \A i \in Nat : i <= k => Below(Returned \cup {k}, i) = Below(Returned, i)
      BY <3>2 DEF Below
    <3>4. \A i \in Nat : i < k => UpTo(Returned \cup {k}, i) = UpTo(Returned, i)
      BY <3>2 DEF UpTo
    <3>5. Before(k)' = Before(k)
      BY <3>1, <3>2, <3>3 DEF Before
    <3>6. \A g \in Before(k) : Place(g)' = Place(g) /\ result_asm'[g] = result_asm[g]
      <4>1. \A g \in Before(k) : g \in Nat /\ g < k /\ g \in Funs /\ g # k
        BY <1>1, <3>2 DEF Before, Below
      <4>2. \A g : Place(g) = Cardinality(UpTo(Returned, g))
        BY DEF Place, UpTo
      <4>3. \A g : Place(g)' = Cardinality(UpTo(Returned', g))
        BY DEF Place, UpTo
      <4> QED BY <1>3, <1>7, <2>2, <3>1, <3>4, <4>1, <4>2, <4>3
    <3> QED BY <2>2, <3>2, <3>5, <3>6 DEF EmitInv, Appended
  <2> QED BY <1>7, <2>1, <2>2
<1> QED BY <1>4, <1>5, <1>6, <1>8, <1>9 DEF EmitInv

-----------------------------------------------------------------------------
(* The theorems                                                            *)

LEMMA EmitStepInv ==
    ASSUME EmitInv, EmitStep
    PROVE  EmitInv'
<1>1. CASE Main
  BY <1>1, SpawnInv, StartJoinInv, JoinInv, StartAppendInv, AppendResultInv, SerialCallInv,
     SerialAppendInv, FinishInv DEF Main
<1>2. CASE \E f \in Funs : Emit(f)
  BY <1>2, EmitPlainInv, LoadInv, StoreInv, EvalArgInv, EmitLabelledInv, ReturnInv DEF Emit
<1> QED BY <1>1, <1>2 DEF EmitStep

LEMMA EmitStutterInv ==
    ASSUME EmitInv, UNCHANGED backendVars
    PROVE  EmitInv'
<1>1. (EmitTypeOK /\ Expanding /\ Prefix /\ Results /\ Schedule)'
  BY DEF EmitInv, EmitTypeOK, Expanding, Prefix, Results, Schedule, Joined, Op, Code, Funs,
         backendVars
<1>2. Appended'
  BY DEF EmitInv, Appended, Before, Below, Place, Returned, Funs, backendVars
<1> QED BY <1>1, <1>2 DEF EmitInv

\* What the invariant says when the main thread is done.
LEMMA EmitInvOrder == EmitInv => InProgramOrder
<1> SUFFICES ASSUME EmitInv, pc = "done"
             PROVE  /\ Len(out) = Cardinality(Returned)
                    /\ \A f \in Returned :
                          [j \in DOMAIN out[Place(f)] |-> out[Place(f)][j].op] = Code(f)
  BY DEF InProgramOrder
<1>1. /\ Funs = 1 .. Len(ir_functions) /\ Len(ir_functions) \in Nat
      /\ Returned \in SUBSET (1 .. Len(ir_functions)) /\ k = Len(ir_functions) + 1
  BY ReturnedIndices DEF EmitInv, Schedule
<1>2. Before(k) = Returned
  <2>1. \A g \in 1 .. Len(ir_functions) : g < k
    BY <1>1
  <2> QED BY <1>1, <2>1 DEF Before, Below
<1>3. ASSUME NEW f \in Returned
      PROVE  [j \in DOMAIN out[Place(f)] |-> out[Place(f)][j].op] = Code(f)
  <2>1. out[Place(f)] = text[f] /\ Len(text[f]) = Len(Code(f))
    BY <1>2 DEF EmitInv, Appended, Results, Returned
  <2>2. text[f] \in Seq(Items) /\ Code(f) \in Seq(Ops)
    BY DEF Returned, EmitInv, EmitTypeOK, EmitPrograms, Code, Funs
  <2>3. \A j \in 1 .. Len(text[f]) : text[f][j].op = Code(f)[j]
    BY DEF EmitInv, Prefix, Returned
  <2> QED BY <2>1, <2>2, <2>3
<1> QED BY <1>2, <1>3 DEF EmitInv, Appended

LEMMA EmitInvariant == EmitSpec => []EmitInv
<1>1. (\E p \in Programs : EmitInit(p)) => EmitInv
  <2>1. Programs \subseteq EmitPrograms
    BY EmitAssumption DEF EmitPrograms
  <2> QED BY <2>1, EmitInitInv
<1>2. EmitInv /\ [EmitStep \/ Done]_backendVars => EmitInv'
  BY EmitStepInv, EmitStutterInv DEF Done
<1> QED BY <1>1, <1>2, PTL DEF EmitSpec

(* backend_compile_asm appends the functions whose threads ran, whole and  *)
(* in program order, for every program and every schedule of its threads:  *)
(* it reads no result before the thread that makes it has been joined.     *)
THEOREM EmittedInOrder == EmitSpec => []InProgramOrder
BY EmitInvariant, EmitInvOrder, PTL

(* The state of backend_compile_asm keeps its types: the loop index stays  *)
(* within the program, and every thread emits instructions of its own      *)
(* function only.                                                          *)
THEOREM EmitTypeCorrect == EmitSpec => [](EmitTypeOK /\ Prefix)
<1>1. EmitInv => EmitTypeOK /\ Prefix
  BY DEF EmitInv
<1> QED BY <1>1, EmitInvariant, PTL

-----------------------------------------------------------------------------
(* The driver: the inductive invariant                                     *)

Arguments == UNION {Range(c) : c \in Commands}
Parts == Arguments \cup {NoPath} \cup {RtObject(n) : n \in 1 .. 2}
TempFiles == {Temp(n) : n \in Nat}
Paths == Parts \cup TempFiles
Kinds == {"empty", "tokens", "asm", "obj", "image", ".c", ".S", ".s", ".o", ".a"}
Files == [kind : Kinds, of : Seq(Parts)]
Runs == [tool : {"as", "cc", "ld.lld", "elf_link", "b1cc"}, ins : Seq(Paths)]
OptionSet == [emit_asm : BOOLEAN, compile_only : BOOLEAN, preprocess_only : BOOLEAN,
              internal_link : BOOLEAN, shared : BOOLEAN, pie : BOOLEAN, pic_mode : BOOLEAN,
              freestanding : BOOLEAN, nostdlib : BOOLEAN,
              output : Arguments \cup {NoPath},
              target : {a[2] : a \in Arguments} \cup {"arm64-darwin"}]

\* The phases by the ways that go through them.
ObjectPhases == {"o_write", "o_assemble", "o_done"}
InputPhases == {"emit", "asm_write", "object_write", "assembled", "s_temp", "s_write", "o_temp"}
               \cup ObjectPhases
StartPhases == {"preprocess", "asm", "compile", "single", "loop"}
LinkPhases == {"runtime", "runtime_file", "link"}
Phases == {"options", "printed", "linked", "tidy", "exit"}
          \cup InputPhases \cup StartPhases \cup LinkPhases

ConfigTypeOK ==
    /\ argv \in Commands
    /\ internal_ld \in BOOLEAN
    /\ opt \in OptionSet
    /\ inputs \in Seq(Arguments)
StateTypeOK ==
    /\ phase \in Phases
    /\ idx \in Nat \ {0}
    /\ fs \in [DOMAIN fs -> Files]
    /\ temps \in Nat
    /\ temp_objects \in Seq(TempFiles) /\ link_cmd_args \in Seq(Paths)
    /\ runtime_objs \in Seq({RtObject(n) : n \in 1 .. 2})
    /\ ran \in Seq(Runs)
    /\ rc \in {0, 1, NoReturn} /\ status \in {-1, 0, 1}

\* What the command line left in the options.
FromArguments ==
    /\ opt.emit_asm => \E a \in Range(argv) : a[1] = "-S"
    /\ \A n \in DOMAIN inputs : inputs[n] \in Range(argv) /\ IsUserFile(inputs[n])

\* Each way keeps to its phases, and each phase to an input that is there.
OnItsWay ==
    /\ phase \in {"preprocess", "printed"} => Way = "preprocess"
    /\ phase \in {"asm", "asm_write"} => Way = "asm"
    /\ phase \in {"compile", "assembled", "object_write"} => Way = "compile"
    /\ phase = "single" => Way = "single"
    /\ phase \in {"loop", "o_assemble", "o_done", "tidy"} => Way = "loop"
    /\ phase = "emit" => Way # "preprocess"
    /\ phase \in {"s_temp", "s_write", "o_temp", "o_write", "linked"} \cup LinkPhases
         => Way \in {"single", "loop"}
AtItsInput ==
    /\ phase \in InputPhases \cup {"single"} => idx \in DOMAIN inputs
    /\ phase \in StartPhases => idx <= Len(inputs) + 1
    /\ phase \in {"emit", "s_temp", "s_write"} /\ Way \in {"single", "loop"} => IsC(In)

\* The exit status is set at the exit; a failure is dealt with before
\* anything else can go wrong.
Outcome ==
    /\ phase # "exit" => status = -1
    /\ phase = "tidy" => rc = 1
    /\ rc = 1 => phase \in {"assembled", "o_done", "tidy", "runtime_file", "link", "linked", "exit"}
    /\ rc = NoReturn => phase = "exit"

\* The temporary files made for the input at hand: the assembly text of a C
\* file and the object, or the one file of a single input.
HasText == Way = "loop" /\ IsC(In)
Made ==
    CASE phase = "s_write" -> 1
      [] phase = "o_temp" -> IF HasText THEN 1 ELSE 0
      [] phase \in ObjectPhases -> IF HasText THEN 2 ELSE 1
      [] phase \in LinkPhases \cup {"linked"} ->
            IF Way = "single" /\ IsC(inputs[1]) THEN 1 ELSE 0
      [] OTHER -> 0
InUse == {Temp(j) : j \in temps - Made + 1 .. temps}

\* Which lists are in use.
ListsInUse ==
    /\ phase = "options" => temps = 0
    /\ phase = "options" \/ Way # "loop" => temp_objects = << >> /\ link_cmd_args = << >>
    /\ phase \notin {"runtime_file", "link", "linked", "exit"} => runtime_objs = << >>
    /\ Made <= temps

\* The runtime is compiled only where it is linked.
RuntimeAsked ==
    phase \in {"runtime", "runtime_file"} \/ runtime_objs # << >> => RuntimeWanted

\* Every temporary file is one that the cleanup knows of.
Accounted ==
    phase # "exit" =>
        LeftOver \subseteq {IncDir, RtDir} \cup Range(temp_objects) \cup Range(runtime_objs)
                              \cup InUse

\* What is read is what was on the command line.
Source(p) == Holds(p, <<p>>)
SourcesKept ==
    /\ phase = "options" => \A p \in Range(argv) : IsUserFile(p) => Source(p)
    /\ phase \notin {"options", "linked", "exit"} /\ Way \in {"single", "loop"} =>
         \A n \in DOMAIN inputs : Source(inputs[n])
    /\ phase \notin {"options", "exit"} /\ Way = "compile" =>
         \A n \in DOMAIN inputs :
            (n > idx \/ (n = idx /\ phase = "compile")) /\ IsAssembly(inputs[n])
               => Source(inputs[n])

\* The inputs taken so far, each in its file; the files of the input at hand
\* are not among them.
InPlace(n) ==
    /\ Holds(link_cmd_args[n], <<inputs[n]>>)
    /\ \/ link_cmd_args[n] = inputs[n]
       \/ \E j \in 1 .. temps - Made : link_cmd_args[n] = Temp(j)
Taken == IF phase \in LinkPhases THEN Len(inputs) ELSE idx - 1
ListedInOrder ==
    phase \notin {"options", "linked", "tidy", "exit"} /\ Way = "loop" =>
        /\ Len(link_cmd_args) = IF phase \in {"o_assemble", "o_done"} THEN idx ELSE Taken
        /\ phase \in {"o_assemble", "o_done"} =>
              /\ Temp(temps) \in Range(temp_objects)
              /\ link_cmd_args[idx] = Temp(temps)
        /\ \A n \in 1 .. Taken : InPlace(n)

\* What the temporary files in use hold.
TextWritten ==
    /\ phase = "o_temp" /\ HasText => Holds(Temp(temps), <<In>>)
    /\ phase \in {"o_write", "o_assemble"} /\ HasText => Holds(Temp(temps - 1), <<In>>)
    /\ phase = "o_done" /\ rc = 0 => Holds(Temp(temps), <<In>>)
    /\ phase \in LinkPhases /\ Way = "single" =>
         IsC(inputs[1]) /\ Holds(Temp(temps), <<inputs[1]>>)
    /\ phase \in {"runtime_file", "link"} =>
         \A n \in DOMAIN runtime_objs : Source(runtime_objs[n])

\* The outputs written so far.
Suffix == IF Way = "asm" THEN ".s" ELSE ".o"
DestOf(n) ==
    IF opt.output = NoPath \/ Len(inputs) > 1 THEN <<inputs[n][1], Suffix>> ELSE opt.output
Written(n) ==
    /\ \A m \in DOMAIN inputs : inputs[m][1] = inputs[n][1] => m = n
    /\ ~(Way = "compile" /\ IsObject(inputs[n]))
    => Holds(DestOf(n), <<inputs[n]>>)
TokensWritten == Holds(IF opt.output = NoPath THEN Stdout ELSE opt.output, inputs)
ImageWritten == Holds(OutName, inputs \o runtime_objs)
OutputsWritten ==
    /\ phase = "printed" => TokensWritten
    /\ phase \notin {"options", "exit"} /\ Way \in {"asm", "compile"} =>
         \A n \in DOMAIN inputs :
            n < idx \/ (n = idx /\ phase = "assembled" /\ rc = 0) => Written(n)
    /\ phase = "linked" /\ rc = 0 => ImageWritten

DriverInv ==
    /\ EmitInv
    /\ ConfigTypeOK /\ StateTypeOK /\ FromArguments /\ OnItsWay /\ AtItsInput /\ Outcome
    /\ ListsInUse /\ Accounted /\ SourcesKept /\ ListedInOrder /\ TextWritten /\ OutputsWritten
    /\ NothingLeftBehind /\ SuccessIsComplete

-----------------------------------------------------------------------------
(* Files                                                                   *)

LEMMA FileType ==
    ASSUME NEW kind \in Kinds, NEW of \in Seq(Parts)
    PROVE  File(kind, of) \in Files /\ File(kind, of).of = of
BY DEF File, Files

LEMMA EmptyType == Empty \in Files /\ Empty.of = << >>
BY DEF Empty, File, Files, Kinds

LEMMA CodeType ==
    ASSUME NEW files, files \in [DOMAIN files -> Files], NEW ps \in Seq(Paths)
    PROVE  CodeIn(files, ps) \in Seq(Parts) /\ Len(CodeIn(files, ps)) = Len(ps)
<1>1. NoPath \in Parts
  BY DEF Parts
<1>2. \A p : PartIn(files, p) \in Parts
  BY <1>1 DEF PartIn, Files
<1> QED BY <1>2 DEF CodeIn

\* The names of the compiler's own files.
LEMMA TempNames ==
    /\ \A i, j \in Int : Temp(i) = Temp(j) => i = j
    /\ \A i \in Int : Temporary(Temp(i)) /\ Temp(i) \notin {IncDir, RtDir, NoPath}
    /\ \A i \in Nat : Temp(i) \in Paths
BY DEF Temp, Temporary, IncDir, RtDir, NoPath, Paths, TempFiles

LEMMA RuntimeNames ==
    /\ \A n \in 1 .. 2 : /\ RtObject(n) \in Parts /\ Temporary(RtObject(n))
                         /\ RtObject(n) \notin {IncDir, RtDir, NoPath}
                         /\ \A i \in Int : Temp(i) # RtObject(n)
<1>1. \A n : RtObject(n)[2] = ".rt.o"
  BY DEF RtObject
<1>2. \A i \in Int : Temp(i)[2] = "temporary"
  BY DEF Temp
<1>3. IncDir[2] = "/" /\ RtDir[2] = "/" /\ NoPath[2] = ""
  BY DEF IncDir, RtDir, NoPath
<1> QED BY <1>1, <1>2, <1>3 DEF Temporary, Parts

LEMMA DirNames == Temporary(IncDir) /\ Temporary(RtDir) /\ IncDir # RtDir
BY DEF Temporary, IncDir, RtDir

\* No output is one of them.
LEMMA UserNames ==
    /\ \A x : ~Temporary(<<x, ".s">>) /\ ~Temporary(<<x, ".o">>) /\ ~Temporary(<<x, ".out">>)
    /\ ~Temporary(NoPath) /\ ~Temporary(Stdout)
BY DEF Temporary, IncDir, RtDir, NoPath, Stdout

LEMMA ArgumentNames ==
    ASSUME argv \in Commands
    PROVE  /\ argv \in Seq(Arguments) /\ Range(argv) \subseteq Arguments
           /\ Arguments \subseteq Parts /\ Parts \subseteq Paths
           /\ \A a \in Arguments : ~Temporary(a)
<1>1. argv \in Seq(STRING \X STRING)
  BY CommandAssumption
<1>2. Range(argv) \subseteq Arguments
  BY DEF Arguments
<1>3. argv \in Seq(Arguments)
  BY <1>1, <1>2 DEF Range
<1>4. \A a \in Arguments : ~Temporary(a)
  BY CommandAssumption DEF Arguments
<1> QED BY <1>2, <1>3, <1>4 DEF Parts, Paths

-----------------------------------------------------------------------------
(* Options                                                                 *)

LEMMA InitConfig ==
    ASSUME Init
    PROVE  ConfigTypeOK /\ FromArguments
<1>1. opt \in OptionSet /\ ~opt.emit_asm
  BY DEF Init, Options, OptionSet
<1> QED BY <1>1 DEF Init, ConfigTypeOK, FromArguments

LEMMA SetOption ==
    ASSUME NEW o \in OptionSet, NEW a \in Arguments
    PROVE  /\ Set(o, a) \in OptionSet
           /\ Set(o, a).emit_asm => o.emit_asm \/ a[1] = "-S"
<1>1. \/ a[1] = "-S" /\ Set(o, a) = [o EXCEPT !.emit_asm = TRUE]
      \/ Set(o, a) = o
      \/ Set(o, a) = [o EXCEPT !.compile_only = TRUE]
      \/ Set(o, a) = [o EXCEPT !.preprocess_only = TRUE]
      \/ Set(o, a) = [o EXCEPT !.pic_mode = TRUE]
      \/ Set(o, a) = [o EXCEPT !.pic_mode = FALSE]
      \/ Set(o, a) = [o EXCEPT !.freestanding = TRUE]
      \/ Set(o, a) = [o EXCEPT !.nostdlib = TRUE]
      \/ Set(o, a) = [o EXCEPT !.internal_link = TRUE]
      \/ Set(o, a) = [o EXCEPT !.shared = TRUE]
      \/ Set(o, a) = [o EXCEPT !.pie = TRUE]
      \/ Set(o, a) = [o EXCEPT !.target = a[2]]
  BY DEF Set
<1>2. CASE a[1] = "-S" /\ Set(o, a) = [o EXCEPT !.emit_asm = TRUE]
  BY <1>2 DEF OptionSet
<1>3. CASE Set(o, a) = [o EXCEPT !.compile_only = TRUE]
  BY <1>3 DEF OptionSet
<1>4. CASE Set(o, a) = [o EXCEPT !.preprocess_only = TRUE]
  BY <1>4 DEF OptionSet
<1>5. CASE Set(o, a) = [o EXCEPT !.pic_mode = TRUE]
  BY <1>5 DEF OptionSet
<1>6. CASE Set(o, a) = [o EXCEPT !.pic_mode = FALSE]
  BY <1>6 DEF OptionSet
<1>7. CASE Set(o, a) = [o EXCEPT !.freestanding = TRUE]
  BY <1>7 DEF OptionSet
<1>8. CASE Set(o, a) = [o EXCEPT !.nostdlib = TRUE]
  BY <1>8 DEF OptionSet
<1>9. CASE Set(o, a) = [o EXCEPT !.internal_link = TRUE]
  BY <1>9 DEF OptionSet
<1>10. CASE Set(o, a) = [o EXCEPT !.shared = TRUE]
  BY <1>10 DEF OptionSet
<1>11. CASE Set(o, a) = [o EXCEPT !.pie = TRUE]
  BY <1>11 DEF OptionSet
<1>12. CASE Set(o, a) = [o EXCEPT !.target = a[2]]
  BY <1>12 DEF OptionSet
<1>13. CASE Set(o, a) = o
  BY <1>13
<1> QED BY <1>1, <1>2, <1>3, <1>4, <1>5, <1>6, <1>7, <1>8, <1>9, <1>10, <1>11, <1>12, <1>13

LEMMA OptionStep ==
    ASSUME DriverInv, FlagOption \/ OperandOption \/ InputArgument
    PROVE  ConfigTypeOK' /\ FromArguments'
<1>1. /\ argv \in Commands /\ argv \in Seq(Arguments) /\ inputs \in Seq(Arguments)
      /\ opt \in OptionSet
      /\ idx \in Nat \ {0} /\ argv' = argv /\ internal_ld' = internal_ld
  BY ArgumentNames DEF DriverInv, ConfigTypeOK, StateTypeOK, FlagOption, OperandOption,
     InputArgument, NextOption, configVars
<1>2. \A i \in 1 .. Len(argv) : argv[i] \in Arguments /\ argv[i] \in Range(argv)
  BY <1>1 DEF Range
<1>3. CASE FlagOption
  <2>1. idx \in 1 .. Len(argv) /\ opt' = Set(opt, argv[idx]) /\ inputs' = inputs
    BY <1>1, <1>3 DEF FlagOption, AtOption, Arg
  <2>2. /\ Set(opt, argv[idx]) \in OptionSet
        /\ Set(opt, argv[idx]).emit_asm => opt.emit_asm \/ argv[idx][1] = "-S"
    BY <1>1, <1>2, <2>1, SetOption
  <2> QED BY <1>1, <1>2, <2>1, <2>2 DEF DriverInv, ConfigTypeOK, FromArguments
<1>4. CASE OperandOption
  <2>1. /\ opt' = opt \/ opt' = [opt EXCEPT !.output = argv[idx + 1]]
        /\ idx + 1 \in 1 .. Len(argv) /\ inputs' = inputs
    BY <1>1, <1>4 DEF OperandOption, AtOption
  <2>2. opt' \in OptionSet /\ opt'.emit_asm = opt.emit_asm
    BY <1>1, <1>2, <2>1 DEF OptionSet
  <2> QED BY <1>1, <2>1, <2>2 DEF DriverInv, ConfigTypeOK, FromArguments
<1>5. CASE InputArgument
  <2>1. /\ idx \in 1 .. Len(argv) /\ opt' = opt /\ inputs' = Append(inputs, argv[idx])
        /\ IsUserFile(argv[idx])
    BY <1>1, <1>5 DEF InputArgument, AtOption, Arg
  <2>2. inputs' \in Seq(Arguments)
    BY <1>1, <1>2, <2>1
  <2>3. \A n \in DOMAIN inputs' : \/ n \in DOMAIN inputs /\ inputs'[n] = inputs[n]
                                  \/ inputs'[n] = argv[idx]
    BY <1>1, <1>2, <2>1
  <2> QED BY <1>1, <1>2, <2>1, <2>2, <2>3 DEF DriverInv, ConfigTypeOK, FromArguments
<1> QED BY <1>3, <1>4, <1>5

-----------------------------------------------------------------------------
(* What every step after the options leaves alone                          *)

Steady == UNCHANGED <<configVars, opt, inputs>>

LEMMA WayChosen ==
    ASSUME opt \in OptionSet
    PROVE  /\ Way \in {"preprocess", "asm", "compile", "single", "loop"}
           /\ Way = "asm" => opt.emit_asm
           /\ Way = "compile" => opt.compile_only
           /\ Way = "single" => Len(inputs) = 1
BY DEF Way, FastPath

LEMMA SteadyStep ==
    ASSUME DriverInv, Steady
    PROVE  /\ ConfigTypeOK' /\ FromArguments'
           /\ Way' = Way /\ OutName' = OutName /\ \A n : DestOf(n)' = DestOf(n)
           /\ \A n : inputs'[n] = inputs[n]
           /\ Len(inputs') = Len(inputs) /\ DOMAIN inputs' = DOMAIN inputs
<1>1. Way' = Way
  BY DEF Steady, Way, FastPath, OnElf
<1>2. ConfigTypeOK' /\ FromArguments'
  BY DEF DriverInv, Steady, ConfigTypeOK, FromArguments, configVars
<1>3. OutName' = OutName /\ \A n : DestOf(n)' = DestOf(n)
  BY <1>1 DEF Steady, OutName, DestOf, Suffix
<1> QED BY <1>1, <1>2, <1>3 DEF Steady

LEMMA Basics ==
    ASSUME DriverInv
    PROVE  /\ Way \in {"preprocess", "asm", "compile", "single", "loop"}
           /\ Way = "single" => Len(inputs) = 1
           /\ Len(inputs) \in Nat /\ DOMAIN inputs = 1 .. Len(inputs)
           /\ \A n \in DOMAIN inputs : inputs[n] \in Arguments
           /\ Arguments \subseteq Parts /\ Parts \subseteq Paths
           /\ \A a \in Arguments : ~Temporary(a) /\ \A j \in Int : a # Temp(j)
           /\ fs \in [DOMAIN fs -> Files]
           /\ temps \in Nat /\ idx \in Nat \ {0}
<1>1. argv \in Commands /\ inputs \in Seq(Arguments) /\ opt \in OptionSet
  BY DEF DriverInv, ConfigTypeOK
<1>2. \A a \in Arguments : ~Temporary(a) /\ \A j \in Int : a # Temp(j)
  BY <1>1, ArgumentNames, TempNames
<1> QED BY <1>1, <1>2, WayChosen, ArgumentNames DEF DriverInv, StateTypeOK

\* Short of the exit nothing is claimed of the outcome.
LEMMA NotAtExit ==
    ASSUME phase' # "exit", status' = -1
    PROVE  NothingLeftBehind' /\ SuccessIsComplete'
BY DEF NothingLeftBehind, SuccessIsComplete

LEMMA FileWritten ==
    ASSUME fs \in [DOMAIN fs -> Files], NEW p, NEW f \in Files, fs' = Write(fs, p, f)
    PROVE  /\ fs' \in [DOMAIN fs' -> Files] /\ DOMAIN fs' = DOMAIN fs \cup {p}
           /\ \A q, of : q = p /\ of = f.of => Holds(q, of)'
           /\ \A q, of : q # p => (Holds(q, of)' <=> Holds(q, of))
<1>1. DOMAIN fs' = DOMAIN fs \cup {p} /\ fs'[p] = f
  BY DEF Write
<1>2. \A q \in DOMAIN fs : q # p => fs'[q] = fs[q]
  BY DEF Write
<1>3. fs' \in [DOMAIN fs' -> Files]
  BY DEF Write
<1> QED BY <1>1, <1>2, <1>3 DEF Holds

LEMMA FilesRemoved ==
    ASSUME fs \in [DOMAIN fs -> Files], NEW ps, fs' = Without(fs, ps)
    PROVE  /\ fs' \in [DOMAIN fs' -> Files] /\ DOMAIN fs' = DOMAIN fs \ ps
           /\ \A q, of : q \notin ps => (Holds(q, of)' <=> Holds(q, of))
<1>1. DOMAIN fs' = DOMAIN fs \ ps /\ \A q \in DOMAIN fs' : fs'[q] = fs[q]
  BY DEF Without, Restrict
<1>2. fs' \in [DOMAIN fs' -> Files]
  BY DEF Without, Restrict
<1> QED BY <1>1, <1>2 DEF Holds

\* What the loop has read or listed is kept: the inputs, and the temporary
\* files made for the inputs before the one at hand.
Kept == \A q, of : /\ Holds(q, of)
                   /\ q \in Arguments \/ \E j \in 1 .. temps - Made : q = Temp(j)
                   => Holds(q, of)'

LEMMA SourcesStay ==
    ASSUME DriverInv, Steady, Kept, Way \in {"single", "loop"},
           phase \notin {"options", "linked", "exit"}, phase' # "options"
    PROVE  SourcesKept'
<1>1. \A n \in DOMAIN inputs : Source(inputs[n])
  BY DEF DriverInv, SourcesKept
<1>2. \A n \in DOMAIN inputs : Source(inputs[n])'
  BY <1>1, Basics, SteadyStep DEF Kept, Source
<1> QED BY <1>2, SteadyStep DEF SourcesKept

LEMMA InPlaceStays ==
    ASSUME DriverInv, Steady, Kept, NEW n \in DOMAIN inputs, InPlace(n),
           link_cmd_args'[n] = link_cmd_args[n],
           NEW low, NEW high, low = temps - Made, high = temps' - Made',
           low \in Int, high \in Int, low <= high
    PROVE  InPlace(n)'
<1>1. \/ link_cmd_args[n] = inputs[n]
      \/ \E j \in 1 .. low : link_cmd_args[n] = Temp(j)
  BY DEF InPlace
<1>2. \A q, of : q = link_cmd_args[n] /\ of = <<inputs[n]>> => Holds(q, of)'
  <2>1. Holds(link_cmd_args[n], <<inputs[n]>>)
    BY DEF InPlace
  <2>2. link_cmd_args[n] \in Arguments \/ \E j \in 1 .. low : link_cmd_args[n] = Temp(j)
    BY <1>1, Basics
  <2> QED BY <2>1, <2>2 DEF Kept
<1>3. \A j \in 1 .. low : j \in 1 .. high
  OBVIOUS
<1>4. \/ link_cmd_args'[n] = inputs'[n]
      \/ \E j \in 1 .. high : link_cmd_args'[n] = Temp(j)
  BY <1>1, <1>3, SteadyStep
<1>5. Holds(link_cmd_args[n], <<inputs[n]>>)'
  BY <1>2, SteadyStep
<1> QED BY <1>4, <1>5 DEF InPlace

\* What is listed in the loop, and how many inputs it stands for.
LEMMA ListedHere ==
    ASSUME DriverInv, Way = "loop", phase \notin {"options", "linked", "tidy", "exit"}
    PROVE  /\ Taken \in Nat /\ Taken <= Len(inputs)
           /\ link_cmd_args \in Seq(Paths)
           /\ Len(link_cmd_args) = IF phase \in {"o_assemble", "o_done"} THEN idx ELSE Taken
           /\ \A n \in 1 .. Taken : n \in DOMAIN inputs /\ InPlace(n)
<1>1. Taken \in Nat /\ Taken <= Len(inputs)
  BY Basics DEF DriverInv, AtItsInput, Taken, InputPhases, StartPhases, ObjectPhases, StateTypeOK,
     Phases, LinkPhases, OnItsWay
<1>2. \A n \in 1 .. Taken : n \in DOMAIN inputs
  BY <1>1, Basics
<1> QED BY <1>1, <1>2 DEF DriverInv, ListedInOrder, StateTypeOK

LEMMA MadeType ==
    ASSUME DriverInv
    PROVE  Made \in {0, 1, 2} /\ Made <= temps /\ temps - Made \in Nat
<1>1. Made \in {0, 1, 2}
  BY DEF Made
<1> QED BY <1>1, Basics DEF DriverInv, ListsInUse

LEMMA ListStays ==
    ASSUME DriverInv, Steady, Kept, Way = "loop" => Taken' = Taken,
           phase \notin {"options", "linked", "tidy", "exit", "o_assemble", "o_done"},
           phase' \notin {"o_assemble", "o_done"},
           link_cmd_args' = link_cmd_args, temps' - Made' = temps - Made
    PROVE  ListedInOrder'
<1> SUFFICES ASSUME Way = "loop"
             PROVE  ListedInOrder'
  BY SteadyStep DEF ListedInOrder
<1>1. /\ Len(link_cmd_args) = Taken
      /\ \A n \in 1 .. Taken : n \in DOMAIN inputs /\ InPlace(n)
  BY ListedHere
<1>2. temps - Made \in Int /\ temps - Made <= temps' - Made'
  BY MadeType
<1>3. \A n \in 1 .. Taken : InPlace(n)'
  BY <1>1, <1>2, InPlaceStays
<1> QED BY <1>1, <1>3, SteadyStep DEF ListedInOrder

\* One more input is listed.
LEMMA ListGrows ==
    ASSUME DriverInv, Steady, Kept, Way = "loop", phase \in {"loop", "o_write", "o_done"},
           phase' = "loop", idx' = idx + 1, idx \in DOMAIN inputs,
           temps' = temps,
           link_cmd_args' \in Seq(Paths), Len(link_cmd_args') = idx,
           \A m : m = idx => InPlace(m)',
           \A n \in 1 .. idx - 1 : link_cmd_args'[n] = link_cmd_args[n]
    PROVE  ListedInOrder'
<1>1. /\ Taken = idx - 1 /\ Taken' = idx
      /\ \A n \in 1 .. idx - 1 : n \in DOMAIN inputs /\ InPlace(n)
  <2>1. Taken = idx - 1 /\ Taken' = idx
    BY Basics DEF Taken, LinkPhases
  <2> QED BY <2>1, ListedHere
<1>2. Made' = 0 /\ Made \in {0, 1, 2} /\ temps \in Nat
  BY Basics, MadeType DEF Made, ObjectPhases, LinkPhases
<1>3. \A n \in 1 .. idx - 1 : InPlace(n)'
  <2>1. temps - Made \in Int /\ temps' - Made' \in Int /\ temps - Made <= temps' - Made'
    BY <1>2
  <2> QED BY <1>1, <2>1, InPlaceStays
<1>4. \A n \in 1 .. idx : n \in 1 .. idx - 1 \/ n = idx
  BY Basics
<1>5. \A n \in 1 .. idx : InPlace(n)'
  BY <1>3, <1>4
<1> QED BY <1>1, <1>5 DEF ListedInOrder

-----------------------------------------------------------------------------
(* Steps                                                                   *)

LEMMA MakeTempInv ==
    ASSUME DriverInv, MakeTemp
    PROVE  DriverInv'
<1>1. /\ Steady /\ status' = status /\ idx' = idx /\ temps' = temps + 1 /\ rc' = rc
      /\ UNCHANGED <<backendVars, listVars, ran>>
      /\ fs' = Write(fs, Temp(temps + 1), Empty)
      /\ \/ phase = "s_temp" /\ phase' = "s_write"
         \/ phase = "o_temp" /\ phase' = "o_write"
  BY DEF MakeTemp, Steady, Step
<1>2. /\ Way \in {"single", "loop"} /\ idx \in DOMAIN inputs
      /\ Made' = Made + 1 /\ Made \in {0, 1} /\ Made <= temps /\ status = -1 /\ rc = 0
  BY SMTT(30), <1>1, SteadyStep DEF DriverInv, OnItsWay, AtItsInput, Made, InputPhases, ObjectPhases,
     HasText, In, LinkPhases, ListsInUse, Outcome, StateTypeOK
<1>3. /\ fs' \in [DOMAIN fs' -> Files] /\ DOMAIN fs' = DOMAIN fs \cup {Temp(temps + 1)}
      /\ \A q, of : q # Temp(temps + 1) => (Holds(q, of)' <=> Holds(q, of))
  BY <1>1, Basics, FileWritten, EmptyType
<1>4. EmitInv' /\ ConfigTypeOK' /\ FromArguments'
  BY <1>1, EmitStutterInv, SteadyStep DEF DriverInv
<1>5. StateTypeOK'
  BY <1>1, <1>3, Basics DEF DriverInv, StateTypeOK, Phases, InputPhases, ObjectPhases, listVars
<1>11. OnItsWay' /\ AtItsInput' /\ Outcome' /\ ListsInUse'
  BY <1>1, <1>2, Basics, SteadyStep DEF DriverInv, OnItsWay, AtItsInput, Outcome, ListsInUse,
     InputPhases, ObjectPhases, StartPhases, LinkPhases, listVars, In
<1>6. Accounted'
  BY <1>1, <1>2, <1>3, Basics DEF DriverInv, Accounted, LeftOver, InUse, listVars
<1>7. Kept
  BY <1>2, <1>3, Basics, TempNames DEF Kept
<1>8. SourcesKept' /\ ListedInOrder'
  BY <1>1, <1>2, <1>7, Basics, SourcesStay, ListStays DEF listVars, Taken, LinkPhases
<1>9. TextWritten'
  <2>1. HasText' = HasText /\ In' = In
    BY <1>1, SteadyStep DEF HasText, In
  <2>2. phase' = "o_write" => phase = "o_temp" /\ temps' - 1 = temps
    BY <1>1, Basics
  <2>3. ASSUME NEW q, NEW of, q = Temp(temps), of = <<In>>, phase = "o_temp", HasText
        PROVE  Holds(q, of)'
    <3>1. q # Temp(temps + 1)
      BY <2>3, Basics, TempNames
    <3>2. Holds(q, of)
      BY <2>3 DEF DriverInv, TextWritten
    <3> QED BY <1>3, <3>1, <3>2
  <2>4. ASSUME NEW q, NEW of, q = Temp(temps' - 1), of = <<In'>>, phase' = "o_write", HasText'
        PROVE  Holds(q, of)'
    BY <2>1, <2>2, <2>3, <2>4
  <2>5. phase' \in {"s_write", "o_write"}
    BY <1>1
  <2> QED BY <2>4, <2>5 DEF TextWritten, LinkPhases
<1>10. OutputsWritten'
  BY <1>1, <1>2, Basics, SteadyStep DEF OutputsWritten
<1> QED BY <1>1, <1>2, <1>4, <1>5, <1>11, <1>6, <1>8, <1>9, <1>10, NotAtExit DEF DriverInv

-----------------------------------------------------------------------------
(* The ways out                                                            *)

LEMMA LeavingInv ==
    ASSUME DriverInv, Steady, UNCHANGED <<backendVars, idx, temps, listVars>>,
           phase' = "exit", status' \in {0, 1}, fs' \in [DOMAIN fs' -> Files],
           ran' \in Seq(Runs), rc' \in {0, 1, NoReturn},
           NothingLeftBehind', SuccessIsComplete'
    PROVE  DriverInv'
<1>1. EmitInv' /\ ConfigTypeOK' /\ FromArguments' /\ Way' = Way
  BY EmitStutterInv, SteadyStep DEF DriverInv
<1>2. StateTypeOK'
  BY DEF DriverInv, StateTypeOK, Phases, listVars
<1>3. OnItsWay' /\ AtItsInput' /\ Outcome'
  BY DEF OnItsWay, AtItsInput, Outcome, InputPhases, ObjectPhases, StartPhases, LinkPhases
<1>4. Made' = 0
  BY DEF Made, ObjectPhases, LinkPhases
<1>5. ListsInUse'
  BY <1>1, <1>4, Basics DEF DriverInv, ListsInUse, listVars
<1>6. Accounted' /\ SourcesKept' /\ ListedInOrder' /\ TextWritten' /\ OutputsWritten'
  BY DEF Accounted, SourcesKept, ListedInOrder, TextWritten, OutputsWritten, LinkPhases
<1> QED BY <1>1, <1>2, <1>3, <1>5, <1>6 DEF DriverInv

LEMMA ExitInv ==
    ASSUME DriverInv, Steady, UNCHANGED <<backendVars, idx, temps, listVars, ran, rc>>,
           phase' = "exit", status' \in {0, 1}, fs' \in [DOMAIN fs' -> Files],
           NothingLeftBehind', SuccessIsComplete'
    PROVE  DriverInv'
<1>1. ran' \in Seq(Runs) /\ rc' \in {0, 1, NoReturn}
  BY DEF DriverInv, StateTypeOK
<1> QED BY <1>1, LeavingInv

\* Nothing is promised of a run that ends in a fatal error; no tool has
\* failed before.
LEMMA FatalInv ==
    ASSUME DriverInv, Fatal, rc = 0
    PROVE  DriverInv'
<1>1. /\ Steady /\ UNCHANGED <<backendVars, idx, temps, listVars, ran, rc, fs>>
      /\ phase' = "exit" /\ status' = 1
  BY DEF Fatal, Leave, Steady
<1>2. NothingLeftBehind' /\ SuccessIsComplete'
  BY <1>1 DEF NothingLeftBehind, SuccessIsComplete, NoReturn
<1> QED BY <1>1, <1>2, ExitInv, Basics

LEMMA OperandMissingInv ==
    ASSUME DriverInv, OperandMissing
    PROVE  DriverInv'
<1>1. Fatal /\ rc = 0
  BY DEF OperandMissing, AtOption, DriverInv, Outcome, StateTypeOK
<1> QED BY <1>1, FatalInv

LEMMA DieInv ==
    ASSUME DriverInv, Die
    PROVE  DriverInv'
<1>1. Fatal /\ rc = 0
  BY DEF Die, Dying, DriverInv, Outcome, StateTypeOK
<1> QED BY <1>1, FatalInv

LEMMA AssembledFailInv ==
    ASSUME DriverInv, AssembledInput, rc # 0
    PROVE  DriverInv'
<1>1. /\ Steady /\ UNCHANGED <<backendVars, idx, temps, listVars, ran, rc, fs>>
      /\ phase = "assembled" /\ phase' = "exit" /\ status' = 1
  BY DEF AssembledInput, Leave, Steady, Quiet
<1>2. opt'.compile_only
  BY <1>1, WayChosen DEF DriverInv, ConfigTypeOK, OnItsWay, Steady
<1>4. rc # NoReturn
  BY <1>1 DEF DriverInv, Outcome
<1>3. NothingLeftBehind' /\ SuccessIsComplete'
  BY <1>1, <1>2, <1>4 DEF NothingLeftBehind, SuccessIsComplete
<1> QED BY <1>1, <1>3, ExitInv, Basics

\* Where the output of a way goes is no temporary file.
LEMMA OutputNames ==
    ASSUME DriverInv
    PROVE  /\ ~Temporary(IF opt.output = NoPath THEN Stdout ELSE opt.output)
           /\ ~Temporary(OutName) /\ \A n : ~Temporary(DestOf(n))
<1>1. opt.output = NoPath \/ opt.output \in Arguments
  BY DEF DriverInv, ConfigTypeOK, OptionSet
<1>2. opt.output # NoPath => ~Temporary(opt.output)
  BY <1>1, Basics
<1> QED BY <1>2, UserNames DEF OutName, DestOf, Suffix

\* What makes a run that succeeds complete, way by way.
AllWritten == \A n \in DOMAIN inputs : Written(n)
LEMMA Complete ==
    \/ status # 0
    \/ Way = "preprocess" /\ TokensWritten
    \/ Way \in {"asm", "compile"} /\ AllWritten
    \/ Way \in {"single", "loop"} /\ ImageWritten
    => SuccessIsComplete
<1>1. Way = "preprocess" /\ TokensWritten => SuccessIsComplete
  BY DEF SuccessIsComplete, TokensWritten
<1>2. Way \in {"single", "loop"} /\ ImageWritten => SuccessIsComplete
  BY DEF SuccessIsComplete, ImageWritten
<1>3. ASSUME Way \in {"asm", "compile"}, AllWritten
      PROVE  SuccessIsComplete
  <2>1. ASSUME NEW n \in DOMAIN inputs,
               \A m \in DOMAIN inputs : inputs[m][1] = inputs[n][1] => m = n,
               ~(Way = "compile" /\ IsObject(inputs[n]))
        PROVE  Holds(IF opt.output = NoPath \/ Len(inputs) > 1
                     THEN <<inputs[n][1], IF Way = "asm" THEN ".s" ELSE ".o">> ELSE opt.output,
                     <<inputs[n]>>)
    BY <1>3, <2>1 DEF AllWritten, Written, DestOf, Suffix
  <2> QED BY <1>3, <2>1 DEF SuccessIsComplete
<1>4. status # 0 => SuccessIsComplete
  BY DEF SuccessIsComplete
<1> QED BY <1>1, <1>2, <1>3, <1>4

LEMMA ConcludeInv ==
    ASSUME DriverInv, FinishPreprocess \/ FinishAsm \/ FinishCompile
    PROVE  DriverInv'
<1>1. /\ Steady /\ UNCHANGED <<backendVars, idx, temps, listVars, ran, rc>>
      /\ phase \in {"printed", "asm", "compile"} /\ idx > Len(inputs)
      /\ phase' = "exit" /\ status' = 0 /\ fs' = Without(fs, {IncDir})
  BY DEF FinishPreprocess, FinishAsm, FinishCompile, Conclude, AtEnd, Leave, Steady, Quiet
<1>2. /\ Way \in {"preprocess", "asm", "compile"}
      /\ temp_objects = << >> /\ runtime_objs = << >> /\ Made = 0
      /\ phase = "printed" <=> Way = "preprocess"
  BY <1>1 DEF DriverInv, OnItsWay, ListsInUse, Made, ObjectPhases, LinkPhases
<1>3. /\ fs' \in [DOMAIN fs' -> Files] /\ DOMAIN fs' = DOMAIN fs \ {IncDir}
      /\ \A q, of : q \notin {IncDir} => (Holds(q, of)' <=> Holds(q, of))
  BY <1>1, Basics, FilesRemoved
<1>4. NothingLeftBehind'
  <2>1. LeftOver \subseteq {IncDir, RtDir}
    BY <1>1, <1>2, Basics DEF DriverInv, Accounted, InUse, Range
  <2>2. rc' # NoReturn
    BY <1>1 DEF DriverInv, Outcome
  <2> QED BY <1>3, <2>1, <2>2 DEF NothingLeftBehind, LeftOver
<1>5. \A q, of : Holds(q, of) /\ ~Temporary(q) => Holds(q, of)'
  BY <1>3, DirNames
<1>6. CASE Way = "preprocess"
  <2>1. TokensWritten'
    BY <1>1, <1>2, <1>5, <1>6, OutputNames DEF DriverInv, OutputsWritten, TokensWritten, Steady
  <2>3. (Way = "preprocess")'
    BY <1>1, <1>6, SteadyStep
  <2>2. SuccessIsComplete'
    BY <2>1, <2>3, Complete, PTL
  <2> QED BY <1>1, <1>3, <1>4, <2>2, ExitInv
<1>7. CASE Way \in {"asm", "compile"}
  <2>1. \A n \in DOMAIN inputs : Written(n)
    BY <1>1, <1>7, Basics DEF DriverInv, OutputsWritten
  <2>2. ASSUME NEW n \in DOMAIN inputs
        PROVE  Written(n)'
    <3> SUFFICES ASSUME \A m \in DOMAIN inputs : inputs[m][1] = inputs[n][1] => m = n,
                        ~(Way = "compile" /\ IsObject(inputs[n]))
                 PROVE  Holds(DestOf(n), <<inputs[n]>>)'
      BY <1>1, SteadyStep DEF Written
    <3>1. Holds(DestOf(n), <<inputs[n]>>)
      BY <2>1 DEF Written
    <3> QED BY <1>1, <1>5, <3>1, SteadyStep, OutputNames
  <2>3. AllWritten'
    BY <1>1, <2>2, SteadyStep DEF AllWritten
  <2>4. (Way \in {"asm", "compile"})'
    BY <1>1, <1>7, SteadyStep
  <2>5. SuccessIsComplete'
    BY <2>3, <2>4, Complete, PTL
  <2> QED BY <1>1, <1>3, <1>4, <2>5, ExitInv
<1> QED BY <1>2, <1>6, <1>7

LEMMA CleanUpInv ==
    ASSUME DriverInv, CleanUp
    PROVE  DriverInv'
<1>1. /\ Steady /\ UNCHANGED <<backendVars, idx, temps, listVars, ran, rc>>
      /\ phase \in {"linked", "tidy"} /\ phase' = "exit" /\ status' = rc
      /\ fs' = Tidied(fs)
  BY DEF CleanUp, Leave, Steady, Quiet
<1> DEFINE gone == Range(temp_objects) \cup Range(runtime_objs) \cup {IncDir}
                     \cup IF Way = "single" THEN {Temp(temps)} ELSE {}
<1>2. /\ fs' \in [DOMAIN fs' -> Files] /\ DOMAIN fs' = DOMAIN fs \ gone
      /\ \A q, of : q \notin gone => (Holds(q, of)' <=> Holds(q, of))
  BY <1>1, Basics, FilesRemoved DEF Tidied
<1>3. LeftOver \subseteq gone \cup {RtDir}
  <2>1. Made = 0 \/ (Made = 1 /\ Way = "single")
    BY <1>1 DEF Made, ObjectPhases, LinkPhases
  <2>2. InUse \subseteq IF Way = "single" THEN {Temp(temps)} ELSE {}
    BY <2>1, Basics DEF InUse
  <2> QED BY <1>1, <2>2 DEF DriverInv, Accounted
<1>7. rc \in {0, 1} /\ rc # NoReturn
  BY <1>1 DEF DriverInv, StateTypeOK, Outcome
<1>4. NothingLeftBehind'
  <2>1. LeftOver' \subseteq {RtDir}
    BY <1>2, <1>3 DEF LeftOver
  <2> QED BY <1>1, <1>7, <2>1 DEF NothingLeftBehind
<1>5. \A q \in gone : Temporary(q)
  <2>1. Range(temp_objects) \subseteq TempFiles /\ Range(runtime_objs) \subseteq {RtObject(n) : n \in 1 .. 2}
    BY DEF DriverInv, StateTypeOK, Range
  <2> QED BY <2>1, Basics, TempNames, RuntimeNames, DirNames DEF TempFiles
<1>6. SuccessIsComplete'
  <2> SUFFICES ASSUME rc = 0
               PROVE  SuccessIsComplete'
    BY <1>1 DEF SuccessIsComplete
  <2>1. phase = "linked" /\ Way \in {"single", "loop"} /\ ImageWritten
    BY <1>1 DEF DriverInv, Outcome, OnItsWay, OutputsWritten
  <2>2. ImageWritten'
    <3>1. /\ (inputs \o runtime_objs)' = inputs \o runtime_objs
          /\ OutName' = OutName /\ OutName \notin gone
      BY <1>1, <1>5, SteadyStep, OutputNames DEF Steady, listVars
    <3> HIDE DEF gone
    <3> QED BY <1>2, <2>1, <3>1 DEF ImageWritten
  <2>3. (Way \in {"single", "loop"})'
    BY <1>1, <2>1, SteadyStep
  <2> QED BY <2>2, <2>3, Complete, PTL
<1> QED BY <1>1, <1>2, <1>4, <1>6, <1>7, ExitInv

-----------------------------------------------------------------------------
(* From the command line to the way                                        *)

LEMMA InitInv ==
    ASSUME Init
    PROVE  DriverInv
<1>1. EmitInv
  <2>1. << >> \in EmitPrograms
    BY DEF EmitPrograms
  <2>2. EmitInit(<< >>)
    BY DEF Init
  <2> QED BY <2>1, <2>2, EmitInitInv
<1>2. ConfigTypeOK /\ FromArguments
  BY InitConfig
<1>3. /\ fs \in [DOMAIN fs -> Files]
      /\ DOMAIN fs = {q \in Range(argv) : IsUserFile(q)}
      /\ \A p \in DOMAIN fs : Source(p)
  <2>1. \A p \in Range(argv) : IsUserFile(p) => p[2] \in Kinds /\ <<p>> \in Seq(Parts)
    BY <1>2, ArgumentNames DEF ConfigTypeOK, IsUserFile, Kinds
  <2>2. \A p \in Range(argv) : IsUserFile(p) => File(p[2], <<p>>) \in Files
                                                /\ File(p[2], <<p>>).of = <<p>>
    BY <2>1, FileType
  <2> QED BY <2>2 DEF Init, Source, Holds
<1>4. StateTypeOK
  BY <1>3 DEF Init, StateTypeOK, Phases
<1>5. OnItsWay /\ AtItsInput /\ Outcome
  BY DEF Init, OnItsWay, AtItsInput, Outcome, InputPhases, ObjectPhases, StartPhases, LinkPhases,
     NoReturn
<1>6. ListsInUse
  <2>1. Made = 0
    BY DEF Init, Made, ObjectPhases, LinkPhases
  <2> QED BY <2>1 DEF Init, ListsInUse
<1>7. Accounted
  BY <1>2, <1>3, ArgumentNames DEF ConfigTypeOK, Accounted, LeftOver
<1>8. SourcesKept /\ ListedInOrder /\ TextWritten /\ OutputsWritten
  BY <1>3 DEF Init, SourcesKept, ListedInOrder, TextWritten, OutputsWritten, LinkPhases
<1>9. NothingLeftBehind /\ SuccessIsComplete
  BY DEF Init, NothingLeftBehind, SuccessIsComplete
<1> QED BY <1>1, <1>2, <1>4, <1>5, <1>6, <1>7, <1>8, <1>9 DEF DriverInv

LEMMA OptionInv ==
    ASSUME DriverInv, FlagOption \/ OperandOption \/ InputArgument
    PROVE  DriverInv'
<1>1. /\ phase = "options" /\ phase' = "options" /\ idx' \in {idx + 1, idx + 2}
      /\ UNCHANGED <<backendVars, configVars, fs, temps, listVars, ran, rc, status>>
  BY DEF FlagOption, OperandOption, InputArgument, AtOption, NextOption, Quiet
<1>2. EmitInv' /\ ConfigTypeOK' /\ FromArguments'
  BY <1>1, OptionStep, EmitStutterInv DEF DriverInv
<1>3. StateTypeOK'
  BY <1>1, Basics DEF DriverInv, StateTypeOK, listVars
<1>4. OnItsWay' /\ AtItsInput' /\ Outcome'
  BY <1>1 DEF DriverInv, OnItsWay, AtItsInput, Outcome, InputPhases, ObjectPhases, StartPhases,
     LinkPhases
<1>5. Made = 0 /\ Made' = 0
  BY <1>1 DEF Made, ObjectPhases, LinkPhases
<1>6. ListsInUse'
  BY <1>1, <1>5, Basics DEF DriverInv, ListsInUse, listVars
<1>7. Accounted'
  BY <1>1, <1>5 DEF DriverInv, Accounted, LeftOver, InUse, listVars
<1>8. SourcesKept'
  BY <1>1 DEF DriverInv, SourcesKept, Source, Holds, configVars
<1>9. ListedInOrder' /\ TextWritten' /\ OutputsWritten'
  BY <1>1 DEF ListedInOrder, TextWritten, OutputsWritten, LinkPhases
<1>10. NothingLeftBehind' /\ SuccessIsComplete'
  BY <1>1, NotAtExit DEF DriverInv, Outcome
<1> QED BY <1>2, <1>3, <1>4, <1>6, <1>7, <1>8, <1>9, <1>10 DEF DriverInv

LEMMA StartUpInv ==
    ASSUME DriverInv, StartUp
    PROVE  DriverInv'
<1>1. /\ Steady /\ UNCHANGED <<backendVars, temps, listVars, ran, rc>>
      /\ phase = "options"
      /\ fs' = fs \/ fs' = Write(fs, IncDir, Empty)
      /\ \/ phase' = Way /\ idx' = 1 /\ status' = status
         \/ phase' = "exit" /\ idx' = idx /\ status' = 1
  BY DEF StartUp, Steady, Step, Leave
<1>2. /\ fs' \in [DOMAIN fs' -> Files] /\ DOMAIN fs' \subseteq DOMAIN fs \cup {IncDir}
      /\ \A q, of : q # IncDir => (Holds(q, of)' <=> Holds(q, of))
  <2>1. CASE fs' = fs
    BY <2>1, Basics DEF Holds
  <2>2. CASE fs' = Write(fs, IncDir, Empty)
    BY <2>2, Basics, FileWritten, EmptyType
  <2> QED BY <1>1, <2>1, <2>2
<1>3. /\ status = -1 /\ rc = 0 /\ temps = 0 /\ temp_objects = << >> /\ runtime_objs = << >>
      /\ link_cmd_args = << >>
  BY <1>1 DEF DriverInv, Outcome, StateTypeOK, ListsInUse
<1>4. CASE phase' = "exit"
  <2>1. status' = 1 /\ idx' = idx
    BY <1>1, <1>4, Basics
  <2>2. NothingLeftBehind' /\ SuccessIsComplete'
    BY <1>1, <1>3, <2>1 DEF NothingLeftBehind, SuccessIsComplete, NoReturn
  <2> QED BY <1>1, <1>2, <1>4, <2>1, <2>2, ExitInv
<1>5. CASE phase' = Way /\ idx' = 1 /\ status' = status
  <2>1. EmitInv' /\ ConfigTypeOK' /\ FromArguments' /\ Way' = Way
    BY <1>1, EmitStutterInv, SteadyStep DEF DriverInv
  <2>2. StateTypeOK'
    BY <1>1, <1>2, <1>5, Basics DEF DriverInv, StateTypeOK, Phases, StartPhases, listVars
  <2>3. OnItsWay' /\ AtItsInput' /\ Outcome'
    BY <1>1, <1>3, <1>5, <2>1, Basics, SteadyStep DEF OnItsWay, AtItsInput, Outcome,
       InputPhases, ObjectPhases, StartPhases, LinkPhases, NoReturn
  <2>4. Made' = 0 /\ Made = 0
    BY <1>1, <1>5, Basics DEF Made, ObjectPhases, LinkPhases
  <2>5. ListsInUse'
    BY <1>1, <1>3, <1>5, <2>4, Basics DEF ListsInUse, listVars
  <2>6. Accounted'
    BY <1>1, <1>2, <1>3, <2>4, DirNames DEF DriverInv, Accounted, LeftOver, InUse, listVars
  <2>7. SourcesKept'
    <3>1. \A n \in DOMAIN inputs : Source(inputs[n])
      BY <1>1 DEF DriverInv, SourcesKept, FromArguments
    <3>2. \A n \in DOMAIN inputs : Source(inputs[n])'
      BY <1>1, <1>2, <3>1, Basics, SteadyStep, DirNames DEF Source
    <3> QED BY <1>1, <1>5, <3>2, Basics, SteadyStep DEF SourcesKept
  <2>8. ListedInOrder' /\ TextWritten'
    BY <1>1, <1>3, <1>5, <2>1, Basics DEF ListedInOrder, TextWritten, Taken, LinkPhases, listVars
  <2>9. OutputsWritten'
    BY <1>1, <1>5, <2>1, Basics, SteadyStep DEF OutputsWritten
  <2>10. NothingLeftBehind' /\ SuccessIsComplete'
    BY <1>3, <1>5, Basics, NotAtExit
  <2> QED BY <2>1, <2>2, <2>3, <2>5, <2>6, <2>7, <2>8, <2>9, <2>10 DEF DriverInv
<1> QED BY <1>1, <1>4, <1>5

-----------------------------------------------------------------------------
(* From phase to phase                                                     *)

\* The steps that touch no file.
Moves ==
    \/ /\ phase = "preprocess" /\ phase' = "preprocess"
       /\ idx \in DOMAIN inputs /\ idx' = idx + 1
    \/ /\ phase = "compile" /\ phase' = "compile"
       /\ idx \in DOMAIN inputs /\ IsObject(In) /\ idx' = idx + 1
    \/ phase = "assembled" /\ phase' = "compile" /\ rc = 0 /\ idx' = idx + 1
    \/ /\ phase \in {"asm", "compile", "single", "loop"} /\ phase' = "emit"
       /\ idx \in DOMAIN inputs /\ idx' = idx
       /\ phase # "asm" => IsC(In)
    \/ phase = "emit" /\ Way = "asm" /\ phase' = "asm_write" /\ idx' = idx
    \/ phase = "emit" /\ Way = "compile" /\ phase' = "object_write" /\ idx' = idx
    \/ phase = "emit" /\ Way \in {"single", "loop"} /\ phase' = "s_temp" /\ idx' = idx
    \/ phase = "emit" /\ Way = "single" /\ phase' = "o_temp" /\ idx' = idx
    \/ /\ phase = "loop" /\ phase' = "o_temp"
       /\ idx \in DOMAIN inputs /\ ~IsC(In) /\ idx' = idx
    \/ /\ phase = "loop" /\ phase' \in {"runtime", "link"}
       /\ idx = Len(inputs) + 1 /\ idx' = 1
    \/ phase = "runtime_file" /\ phase' = "link" /\ idx' = 1

LEMMA MoveInv ==
    ASSUME DriverInv, EmitInv', Steady, Moves,
           UNCHANGED <<fs, temps, listVars, ran, rc, status>>
    PROVE  DriverInv'
<1>1. /\ \A q, of : Holds(q, of)' <=> Holds(q, of)
      /\ Way' = Way /\ ConfigTypeOK' /\ FromArguments'
      /\ In' = inputs[idx'] /\ OutName' = OutName
  BY SteadyStep DEF Holds, Steady, In
<1>2. phase \notin {"options", "linked", "tidy", "exit", "printed"} \cup ObjectPhases
      /\ phase' \notin {"options", "linked", "tidy", "exit", "printed"} \cup ObjectPhases
      /\ status = -1
  BY DEF Moves, ObjectPhases, DriverInv, Outcome
<1>3. StateTypeOK'
  BY <1>1, Basics DEF DriverInv, StateTypeOK, Moves, listVars, Phases, StartPhases,
     InputPhases, LinkPhases
<1>4. OnItsWay'
  BY <1>1, Basics DEF DriverInv, OnItsWay, Moves, LinkPhases
<1>5. AtItsInput'
  <2>1. phase' \in {"emit", "s_temp"} => In' = In /\ (Way = "asm" \/ IsC(In) \/ Way = "compile")
    BY <1>1, Basics DEF DriverInv, AtItsInput, OnItsWay, Moves, In
  <2>2. (phase \in {"emit", "s_temp", "s_write"} /\ Way \in {"single", "loop"} => IsC(In))'
    BY <1>1, <2>1 DEF Moves
  <2> QED BY <1>1, <2>2, Basics, SteadyStep DEF DriverInv, AtItsInput, Moves, InputPhases,
             ObjectPhases, StartPhases
<1>6. Outcome'
  BY DEF DriverInv, Outcome, Moves
<1>7. Made' = Made
  <2>1. CASE phase = "runtime_file"
    BY <1>1, <2>1, SteadyStep DEF Moves, Made, ObjectPhases, LinkPhases
  <2>2. CASE phase # "runtime_file"
    <3>1. Made = 0
      BY <2>2 DEF Moves, Made, ObjectPhases, LinkPhases
    <3>2. phase' = "o_temp" => ~HasText'
      BY <1>1, <2>2, SteadyStep DEF DriverInv, OnItsWay, Moves, HasText, In
    <3>3. phase' \in LinkPhases => Way' = "loop"
      BY <1>1, <2>2 DEF DriverInv, OnItsWay, Moves, LinkPhases
    <3>4. phase' # "s_write"
      BY DEF Moves
    <3> QED BY <1>2, <3>1, <3>2, <3>3, <3>4 DEF Made, LinkPhases
  <2> QED BY <2>1, <2>2
<1>8. ListsInUse'
  BY <1>1, <1>2, <1>7 DEF DriverInv, ListsInUse, Moves, listVars
<1>9. Accounted'
  BY <1>2, <1>7 DEF DriverInv, Accounted, LeftOver, InUse, listVars
<1>10. SourcesKept'
  <2>1. CASE Way \in {"single", "loop"}
    BY <1>1, <1>2, <2>1, SourcesStay DEF Kept
  <2>2. CASE Way = "compile"
    <3>1. ASSUME NEW n \in DOMAIN inputs, IsAssembly(inputs[n]),
                 n > idx' \/ (n = idx' /\ phase' = "compile")
          PROVE  Source(inputs[n])
      <4>1. n > idx \/ (n = idx /\ phase = "compile")
        BY <2>2, <3>1, Basics DEF DriverInv, OnItsWay, Moves, LinkPhases
      <4> QED BY <1>2, <2>2, <3>1, <4>1 DEF DriverInv, SourcesKept
    <3> QED BY <1>1, <1>2, <2>2, <3>1, SteadyStep DEF SourcesKept, Source
  <2> QED BY <1>1, <1>2, <2>1, <2>2 DEF SourcesKept
<1>11. Way = "loop" => Taken' = Taken
  BY <1>1, Basics, SteadyStep DEF DriverInv, OnItsWay, Moves, Taken, LinkPhases
<1>12. ListedInOrder'
  BY <1>1, <1>2, <1>7, <1>11, ListStays DEF Kept, ObjectPhases, listVars
<1>13. TextWritten'
  <2>1. CASE phase = "runtime_file"
    BY <1>1, <2>1, SteadyStep DEF DriverInv, TextWritten, Moves, LinkPhases, listVars, Source
  <2>2. CASE phase # "runtime_file"
    <3>1. ~(phase' = "o_temp" /\ HasText')
      BY <1>1, <2>2, SteadyStep DEF DriverInv, OnItsWay, Moves, HasText, In
    <3>2. phase' \in LinkPhases => Way' = "loop" /\ phase' # "runtime_file" /\ runtime_objs' = << >>
      BY <1>1, <2>2 DEF DriverInv, OnItsWay, ListsInUse, Moves, LinkPhases, listVars
    <3> QED BY <1>2, <3>1, <3>2 DEF TextWritten, LinkPhases, ObjectPhases
  <2> QED BY <2>1, <2>2
<1>14. OutputsWritten'
  <2>1. \A n : Written(n)' <=> Written(n)
    BY <1>1, SteadyStep DEF Written
  <2>2. ASSUME Way \in {"asm", "compile"}, NEW n \in DOMAIN inputs, n < idx'
        PROVE  Written(n)
    <3>1. CASE n < idx \/ (n = idx /\ phase = "assembled" /\ rc = 0)
      BY <1>2, <2>2, <3>1 DEF DriverInv, OutputsWritten
    <3>2. CASE n = idx /\ phase = "compile" /\ IsObject(In)
      BY <3>2 DEF DriverInv, OnItsWay, Written, In
    <3> QED BY <2>2, <3>1, <3>2, Basics DEF Moves, DriverInv, OnItsWay
  <2>3. phase' # "assembled"
    BY DEF Moves
  <2> QED BY <1>1, <1>2, <2>1, <2>2, <2>3, SteadyStep DEF OutputsWritten
<1>15. NothingLeftBehind' /\ SuccessIsComplete'
  BY <1>2, NotAtExit
<1> QED BY <1>1, <1>3, <1>4, <1>5, <1>6, <1>8, <1>9, <1>10, <1>12, <1>13, <1>14, <1>15
        DEF DriverInv

\* Compiling a file hands its functions to the backend.
LEMMA CompileInv ==
    ASSUME DriverInv, CompileToAsm \/ CompileToObject \/ CompileSingle \/ CompileInLoop
    PROVE  DriverInv'
<1>1. /\ phase \in {"asm", "compile", "single", "loop"}
      /\ phase # "asm" => IsC(In)
      /\ idx <= Len(inputs) /\ phase' = "emit" /\ idx' = idx
      /\ Steady /\ UNCHANGED <<fs, temps, listVars, ran, rc, status>>
      /\ Begin(Program[In])
  BY DEF CompileToAsm, CompileToObject, CompileSingle, CompileInLoop, Compile, AtInput, Step, Steady
<1>2. idx \in DOMAIN inputs
  BY <1>1, Basics
<1>3. In \in CompiledAsC(argv)
  <2>1. phase = "asm" => \E a \in Range(argv) : a[1] = "-S"
    BY WayChosen DEF DriverInv, ConfigTypeOK, OnItsWay, FromArguments
  <2> QED BY <1>1, <1>2, <2>1 DEF DriverInv, FromArguments, CompiledAsC, In
<1>4. Program[In] \in EmitPrograms
  BY <1>3, ProgramAssumption DEF DriverInv, ConfigTypeOK, EmitPrograms
<1>5. EmitInv'
  BY <1>1, <1>4, BeginInv DEF DriverInv
<1>6. Moves
  BY <1>1, <1>2 DEF Moves
<1> QED BY <1>1, <1>5, <1>6, MoveInv

LEMMA QuietInv ==
    ASSUME DriverInv,
           \/ Compiled \/ PreprocessInput \/ SkipObject \/ (AssembledInput /\ rc = 0)
           \/ PrepareAssembly \/ LoopDone \/ RuntimeDone
    PROVE  DriverInv'
<1>1. /\ Steady /\ UNCHANGED <<backendVars, fs, temps, listVars, ran, rc, status>>
  BY DEF Compiled, PreprocessInput, SkipObject, AssembledInput, PrepareAssembly, LoopDone,
     RuntimeDone, Step, Steady, Quiet
<1>2. EmitInv'
  BY <1>1, EmitStutterInv DEF DriverInv
<1>3. Moves
  <2>1. CASE Compiled
    BY <2>1, Basics DEF Compiled, Step, AfterEmit, Moves, DriverInv, OnItsWay
  <2>2. CASE PreprocessInput \/ SkipObject \/ PrepareAssembly
    <3>1. idx \in DOMAIN inputs
      BY <2>2, Basics DEF PreprocessInput, SkipObject, PrepareAssembly, AtInput
    <3> QED BY <2>2, <3>1 DEF PreprocessInput, SkipObject, PrepareAssembly, AtInput, Step,
               Moves, IsC
  <2>3. CASE AssembledInput /\ rc = 0
    BY <2>3 DEF AssembledInput, Step, Moves
  <2>4. CASE LoopDone \/ RuntimeDone
    <3>1. phase = "loop" => idx <= Len(inputs) + 1
      BY DEF DriverInv, AtItsInput, StartPhases
    <3> QED BY <2>4, <3>1, Basics DEF LoopDone, RuntimeDone, AtEnd, Step, Moves
  <2> QED BY <2>1, <2>2, <2>3, <2>4
<1> QED BY <1>1, <1>2, <1>3, MoveInv

-----------------------------------------------------------------------------
(* The outputs of -E, -S and -c                                            *)

OutputPhases == {"preprocess", "printed", "asm", "asm_write", "compile", "assembled",
                 "object_write"}

\* These ways make no temporary file and no list.
LEMMA OutputStep ==
    ASSUME DriverInv, Steady, phase \in OutputPhases, phase' \in OutputPhases,
           UNCHANGED <<backendVars, temps, listVars, status>>,
           idx' \in Nat \ {0}, rc' \in {0, 1}, ran' \in Seq(Runs),
           fs' \in [DOMAIN fs' -> Files],
           \A p \in DOMAIN fs' : Temporary(p) => p \in DOMAIN fs,
           OnItsWay', AtItsInput', Outcome', SourcesKept', OutputsWritten'
    PROVE  DriverInv'
<1>1. /\ Way \in {"preprocess", "asm", "compile"} /\ Way' = Way
      /\ EmitInv' /\ ConfigTypeOK' /\ FromArguments'
  BY EmitStutterInv, SteadyStep DEF DriverInv, OnItsWay, OutputPhases
<1>2. StateTypeOK'
  BY DEF DriverInv, StateTypeOK, OutputPhases, Phases, StartPhases, InputPhases, listVars
<1>3. Made = 0 /\ Made' = 0
  BY DEF Made, OutputPhases, ObjectPhases, LinkPhases
<1>4. ListsInUse'
  BY <1>1, <1>3, Basics DEF DriverInv, ListsInUse, OutputPhases, listVars
<1>5. Accounted'
  BY <1>3 DEF DriverInv, Accounted, LeftOver, InUse, OutputPhases, listVars
<1>6. ListedInOrder' /\ TextWritten'
  BY <1>1 DEF ListedInOrder, TextWritten, OutputPhases, LinkPhases
<1>7. NothingLeftBehind' /\ SuccessIsComplete'
  BY NotAtExit DEF DriverInv, Outcome, OutputPhases
<1> QED BY <1>1, <1>2, <1>4, <1>5, <1>6, <1>7 DEF DriverInv

LEMMA PrintTokensInv ==
    ASSUME DriverInv, PrintTokens
    PROVE  DriverInv'
<1> DEFINE d == IF opt.output = NoPath THEN Stdout ELSE opt.output
<1>1. /\ Steady /\ UNCHANGED <<backendVars, temps, listVars, ran, rc, status>>
      /\ phase = "preprocess" /\ phase' = "printed" /\ idx' = idx
      /\ fs' = Write(fs, d, File("tokens", inputs))
  BY DEF PrintTokens, AtEnd, Step, Steady, Quiet
<1>2. File("tokens", inputs) \in Files /\ File("tokens", inputs).of = inputs
  <2>1. inputs \in Seq(Parts)
    BY Basics DEF DriverInv, ConfigTypeOK
  <2> QED BY <2>1, FileType DEF Kinds
<1>3. ~Temporary(d)
  BY OutputNames
<1> HIDE DEF d
<1>4. /\ fs' \in [DOMAIN fs' -> Files] /\ DOMAIN fs' = DOMAIN fs \cup {d}
      /\ \A q, of : q = d /\ of = inputs => Holds(q, of)'
  BY <1>1, <1>2, Basics, FileWritten
<1>5. TokensWritten'
  BY <1>1, <1>4 DEF TokensWritten, Steady, d
<1>6. Way = "preprocess" /\ Way' = "preprocess" /\ rc = 0
  BY <1>1, SteadyStep DEF DriverInv, OnItsWay, Outcome, StateTypeOK
<1>7. OnItsWay' /\ AtItsInput' /\ Outcome' /\ SourcesKept' /\ OutputsWritten'
  BY <1>1, <1>5, <1>6 DEF DriverInv, OnItsWay, AtItsInput, Outcome, SourcesKept, OutputsWritten,
     InputPhases, ObjectPhases, StartPhases, LinkPhases
<1>8. ran' \in Seq(Runs) /\ rc' \in {0, 1} /\ idx' \in Nat \ {0}
  BY <1>1 DEF DriverInv, StateTypeOK, Outcome
<1> QED BY <1>1, <1>3, <1>4, <1>7, <1>8, OutputStep DEF OutputPhases

\* A file written for the input at hand is that of no input before, and no
\* assembly source of one after.
LEMMA OutputAdded ==
    ASSUME DriverInv, Steady, Way \in {"asm", "compile"},
           phase \in OutputPhases \ {"assembled"}, idx \in DOMAIN inputs,
           NEW f \in Files, f.of = <<inputs[idx]>>, fs' = Write(fs, DestOf(idx), f)
    PROVE  /\ fs' \in [DOMAIN fs' -> Files]
           /\ \A p \in DOMAIN fs' : Temporary(p) => p \in DOMAIN fs
           /\ \A n \in DOMAIN inputs : n <= idx => Written(n)'
           /\ Way = "compile" => \A n \in DOMAIN inputs :
                 n > idx /\ IsAssembly(inputs[n]) => Source(inputs[n])'
<1>1. /\ fs' \in [DOMAIN fs' -> Files] /\ DOMAIN fs' = DOMAIN fs \cup {DestOf(idx)}
      /\ \A q, of : q = DestOf(idx) /\ of = <<inputs[idx]>> => Holds(q, of)'
      /\ \A q, of : q # DestOf(idx) => (Holds(q, of)' <=> Holds(q, of))
  BY Basics, FileWritten
<1>2. \A p \in DOMAIN fs' : Temporary(p) => p \in DOMAIN fs
  BY <1>1, OutputNames
<1>3. ASSUME NEW n \in DOMAIN inputs, n # idx
      PROVE  DestOf(idx) = <<inputs[idx][1], Suffix>> /\ DestOf(n) = <<inputs[n][1], Suffix>>
  <2>1. Len(inputs) > 1
    BY <1>3, Basics
  <2> QED BY <2>1 DEF DestOf
<1>4. ASSUME NEW n \in DOMAIN inputs, n <= idx
      PROVE  Written(n)'
  <2> SUFFICES ASSUME \A m \in DOMAIN inputs : inputs[m][1] = inputs[n][1] => m = n,
                      ~(Way = "compile" /\ IsObject(inputs[n]))
               PROVE  \A q, of : q = DestOf(n) /\ of = <<inputs[n]>> => Holds(q, of)'
    BY SteadyStep DEF Written
  <2>1. CASE n = idx
    BY <1>1, <2>1
  <2>2. CASE n # idx
    <3>1. Holds(DestOf(n), <<inputs[n]>>)
      <4>1. n < idx
        BY <1>4, <2>2, Basics
      <4> QED BY <4>1 DEF DriverInv, OutputsWritten, Written, OutputPhases
    <3>2. DestOf(n) # DestOf(idx)
      BY <1>3, <2>2
    <3> QED BY <1>1, <3>1, <3>2
  <2> QED BY <2>1, <2>2
<1>5. ASSUME Way = "compile", NEW n \in DOMAIN inputs, n > idx, IsAssembly(inputs[n])
      PROVE  Source(inputs[n])'
  <2>1. Source(inputs[n])
    BY <1>5 DEF DriverInv, SourcesKept, OutputPhases
  <2>2. n # idx
    BY <1>5, Basics
  <2>3. inputs[n] # DestOf(idx)
    BY <1>3, <1>5, <2>2 DEF Suffix, IsAssembly
  <2> QED BY <1>1, <2>1, <2>3, SteadyStep DEF Source
<1> QED BY <1>1, <1>2, <1>4, <1>5

LEMMA WriteOutputInv ==
    ASSUME DriverInv, WriteAsm \/ WriteObject
    PROVE  DriverInv'
<1>1. /\ Steady /\ UNCHANGED <<backendVars, temps, listVars, ran, rc, status>> /\ idx' = idx + 1
      /\ \/ /\ phase = "asm_write" /\ phase' = "asm"
            /\ fs' = Write(fs, Dest(".s"), File("asm", <<In>>))
         \/ /\ phase = "object_write" /\ phase' = "compile"
            /\ fs' = Write(fs, Dest(".o"), File("obj", <<In>>))
  BY DEF WriteAsm, WriteObject, Step, Steady, Quiet
<1>2. /\ idx \in DOMAIN inputs /\ rc = 0
      /\ phase = "asm_write" => Way = "asm"
      /\ phase = "object_write" => Way = "compile"
  BY <1>1 DEF DriverInv, OnItsWay, AtItsInput, Outcome, StateTypeOK, InputPhases
<1>3. PICK f \in Files : f.of = <<inputs[idx]>> /\ fs' = Write(fs, DestOf(idx), f)
  <2>1. /\ File("asm", <<In>>) \in Files /\ File("asm", <<In>>).of = <<In>>
        /\ File("obj", <<In>>) \in Files /\ File("obj", <<In>>).of = <<In>>
    <3>1. <<In>> \in Seq(Parts)
      BY <1>2, Basics DEF In
    <3> QED BY <3>1, FileType DEF Kinds
  <2>2. /\ Way = "asm" => Dest(".s") = DestOf(idx)
        /\ Way = "compile" => Dest(".o") = DestOf(idx)
    BY DEF Dest, DestOf, Suffix, In
  <2> QED BY <1>1, <1>2, <2>1, <2>2 DEF In
<1>4. /\ fs' \in [DOMAIN fs' -> Files]
      /\ \A p \in DOMAIN fs' : Temporary(p) => p \in DOMAIN fs
      /\ \A n \in DOMAIN inputs : n <= idx => Written(n)'
      /\ Way = "compile" => \A n \in DOMAIN inputs :
            n > idx /\ IsAssembly(inputs[n]) => Source(inputs[n])'
  BY <1>1, <1>2, <1>3, OutputAdded DEF OutputPhases
<1>5. Way' = Way /\ Len(inputs') = Len(inputs) /\ DOMAIN inputs' = DOMAIN inputs
      /\ \A n : inputs'[n] = inputs[n]
  BY <1>1, SteadyStep
<1>6. OnItsWay' /\ AtItsInput' /\ Outcome'
  BY <1>1, <1>2, <1>5, Basics DEF DriverInv, OnItsWay, AtItsInput, Outcome, InputPhases,
     ObjectPhases, StartPhases, LinkPhases
<1>7. SourcesKept' /\ OutputsWritten'
  <2>1. \A n \in DOMAIN inputs : /\ n > idx + 1 \/ n = idx + 1 => n > idx
                                 /\ n < idx + 1 => n <= idx
    BY <1>2, Basics
  <2> QED BY <1>1, <1>2, <1>4, <1>5, <2>1 DEF SourcesKept, OutputsWritten
<1>8. ran' \in Seq(Runs) /\ rc' \in {0, 1} /\ idx' \in Nat \ {0}
  BY <1>1, Basics DEF DriverInv, StateTypeOK, Outcome
<1> QED BY <1>1, <1>4, <1>6, <1>7, <1>8, OutputStep DEF OutputPhases

\* What a tool does: on success its output holds what its inputs hold.
LEMMA RunStep ==
    ASSUME DriverInv, NEW tool \in {"as", "cc", "ld.lld", "elf_link"}, NEW ins \in Seq(Paths),
           NEW dest, NEW kind \in Kinds, Run(tool, ins, dest, kind)
    PROVE  /\ UNCHANGED <<backendVars, temps, listVars>>
           /\ ran' \in Seq(Runs) /\ rc' \in {0, 1} /\ fs' \in [DOMAIN fs' -> Files]
           /\ \A q \in DOMAIN fs' : q \in DOMAIN fs \/ q = dest
           /\ \A q, of : q # dest => (Holds(q, of)' <=> Holds(q, of))
           /\ rc' = 0 => \A q, of : q = dest /\ of = CodeIn(fs, ins) => Holds(q, of)'
           /\ rc' = 1 => fs' = fs
           /\ rc' = 0 => fs' = Write(fs, dest, File(kind, CodeIn(fs, ins)))
           /\ File(kind, CodeIn(fs, ins)) \in Files
           /\ File(kind, CodeIn(fs, ins)).of = CodeIn(fs, ins)
<1>1. /\ File(kind, CodeIn(fs, ins)) \in Files
      /\ File(kind, CodeIn(fs, ins)).of = CodeIn(fs, ins)
  BY Basics, CodeType, FileType
<1>2. /\ UNCHANGED <<backendVars, temps, listVars>>
      /\ ran' = Append(ran, [tool |-> tool, ins |-> ins])
      /\ \/ rc' = 0 /\ fs' = Write(fs, dest, File(kind, CodeIn(fs, ins)))
         \/ rc' = 1 /\ fs' = fs
  BY DEF Run
<1>3. ran' \in Seq(Runs)
  <2>1. [tool |-> tool, ins |-> ins] \in Runs
    BY DEF Runs
  <2>2. ran \in Seq(Runs)
    BY DEF DriverInv, StateTypeOK
  <2> QED BY <1>2, <2>1, <2>2
<1>4. CASE rc' = 0
  <2>1. fs' = Write(fs, dest, File(kind, CodeIn(fs, ins)))
    BY <1>2, <1>4
  <2>2. /\ fs' \in [DOMAIN fs' -> Files] /\ DOMAIN fs' = DOMAIN fs \cup {dest}
        /\ \A q, of : q = dest /\ of = CodeIn(fs, ins) => Holds(q, of)'
        /\ \A q, of : q # dest => (Holds(q, of)' <=> Holds(q, of))
    BY <1>1, <2>1, Basics, FileWritten
  <2> QED BY <1>1, <1>2, <1>3, <1>4, <2>1, <2>2
<1>5. CASE rc' = 1
  <2>1. fs' = fs
    BY <1>2, <1>5
  <2>2. \A q, of : Holds(q, of)' <=> Holds(q, of)
    BY <2>1 DEF Holds
  <2> QED BY <1>1, <1>2, <1>3, <1>5, <2>1, <2>2, Basics
<1> QED BY <1>2, <1>4, <1>5

LEMMA PartHeld ==
    ASSUME NEW p, NEW x, Holds(p, <<x>>)
    PROVE  PartIn(fs, p) = x /\ CodeIn(fs, <<p>>) = <<x>>
<1>1. PartIn(fs, p) = x
  BY DEF Holds, PartIn
<1> QED BY <1>1 DEF CodeIn

LEMMA AssembleInputInv ==
    ASSUME DriverInv, AssembleInput
    PROVE  DriverInv'
<1>1. /\ Steady /\ status' = status /\ idx' = idx /\ phase = "compile" /\ phase' = "assembled"
      /\ idx \in DOMAIN inputs /\ IsAssembly(In) /\ Way = "compile" /\ Way' = Way
  BY Basics, SteadyStep DEF AssembleInput, AtInput, Step, Steady, DriverInv, OnItsWay
<1>2. Source(In) /\ <<In>> \in Seq(Paths) /\ Dest(".o") = DestOf(idx) /\ In = inputs[idx]
  BY <1>1, Basics DEF DriverInv, SourcesKept, In, Dest, DestOf, Suffix
<1>3. Run("as", <<In>>, DestOf(idx), "obj")
  BY <1>2 DEF AssembleInput
<1>4. /\ UNCHANGED <<backendVars, temps, listVars>>
      /\ ran' \in Seq(Runs) /\ rc' \in {0, 1} /\ fs' \in [DOMAIN fs' -> Files]
      /\ rc' = 1 => fs' = fs
      /\ rc' = 0 => fs' = Write(fs, DestOf(idx), File("obj", CodeIn(fs, <<In>>)))
      /\ File("obj", CodeIn(fs, <<In>>)) \in Files
      /\ File("obj", CodeIn(fs, <<In>>)).of = CodeIn(fs, <<In>>)
  BY <1>2, <1>3, RunStep DEF Kinds
<1>5. CodeIn(fs, <<In>>) = <<inputs[idx]>>
  BY <1>2, PartHeld DEF Source
<1>6. /\ \A p \in DOMAIN fs' : Temporary(p) => p \in DOMAIN fs
      /\ \A n \in DOMAIN inputs : n < idx => Written(n)'
      /\ rc' = 0 => Written(idx)'
      /\ \A n \in DOMAIN inputs : n > idx /\ IsAssembly(inputs[n]) => Source(inputs[n])'
  <2>1. CASE rc' = 0
    <3>1. \A n \in DOMAIN inputs : n <= idx => Written(n)'
      BY <1>1, <1>4, <1>5, <2>1, OutputAdded DEF OutputPhases
    <3>2. \A n \in DOMAIN inputs : n < idx => n <= idx
      BY <1>1, Basics
    <3>3. idx <= idx
      BY Basics
    <3> QED BY <1>1, <1>4, <1>5, <2>1, <3>1, <3>2, <3>3, OutputAdded DEF OutputPhases
  <2>2. CASE rc' = 1
    <3>1. \A q, of : Holds(q, of)' <=> Holds(q, of)
      BY <1>4, <2>2 DEF Holds
    <3>2. \A n : Written(n)' <=> Written(n)
      BY <1>1, <3>1, SteadyStep DEF Written
    <3> QED BY <1>1, <1>4, <2>2, <3>1, <3>2, SteadyStep DEF DriverInv, OutputsWritten,
               SourcesKept, Source
  <2> QED BY <1>4, <2>1, <2>2
<1>7. OnItsWay' /\ AtItsInput' /\ Outcome'
  BY <1>1, <1>4, SteadyStep DEF DriverInv, OnItsWay, AtItsInput, Outcome, InputPhases,
     ObjectPhases, StartPhases, LinkPhases, NoReturn
<1>8. SourcesKept' /\ OutputsWritten'
  BY <1>1, <1>6, SteadyStep DEF SourcesKept, OutputsWritten
<1> QED BY <1>1, <1>4, <1>6, <1>7, <1>8, Basics, OutputStep DEF OutputPhases

-----------------------------------------------------------------------------
(* The link                                                                *)

LEMMA LinkedStep ==
    ASSUME DriverInv, Steady, phase \in {"single", "link"}, phase' = "linked",
           UNCHANGED <<backendVars, idx, temps, listVars, status>>,
           phase = "single" => ~IsC(In), rc' \in {0, 1}, ran' \in Seq(Runs),
           fs' \in [DOMAIN fs' -> Files],
           \A p \in DOMAIN fs' : Temporary(p) => p \in DOMAIN fs,
           rc' = 0 => ImageWritten'
    PROVE  DriverInv'
<1>1. /\ Way \in {"single", "loop"} /\ Way' = Way
      /\ EmitInv' /\ ConfigTypeOK' /\ FromArguments'
  BY EmitStutterInv, SteadyStep DEF DriverInv, OnItsWay, LinkPhases
<1>2. StateTypeOK'
  BY DEF DriverInv, StateTypeOK, Phases, listVars
<1>3. OnItsWay' /\ AtItsInput' /\ Outcome'
  BY <1>1 DEF DriverInv, OnItsWay, AtItsInput, Outcome, InputPhases, ObjectPhases, StartPhases,
     LinkPhases, NoReturn
<1>4. Made' = Made
  <2>1. CASE phase = "link"
    BY <1>1, <2>1, SteadyStep DEF Made, ObjectPhases, LinkPhases
  <2>2. CASE phase = "single"
    <3>1. ~IsC(inputs[1])
      BY <2>2, Basics DEF DriverInv, OnItsWay, AtItsInput, In, InputPhases
    <3> QED BY <1>1, <2>2, <3>1, SteadyStep DEF Made, ObjectPhases, LinkPhases
  <2> QED BY <2>1, <2>2
<1>5. ListsInUse'
  BY <1>1, <1>4 DEF DriverInv, ListsInUse, listVars
<1>6. Accounted'
  BY <1>4 DEF DriverInv, Accounted, LeftOver, InUse, listVars
<1>7. SourcesKept' /\ ListedInOrder' /\ TextWritten' /\ OutputsWritten'
  BY <1>1 DEF SourcesKept, ListedInOrder, TextWritten, OutputsWritten, LinkPhases
<1>8. NothingLeftBehind' /\ SuccessIsComplete'
  BY NotAtExit DEF DriverInv, Outcome
<1> QED BY <1>1, <1>2, <1>3, <1>5, <1>6, <1>7, <1>8 DEF DriverInv

\* A link of the files of the inputs and of runtime objects takes in every
\* input once and in order.
LEMMA LinkedCode ==
    ASSUME DriverInv, NEW a \in Seq(Paths), NEW b \in Seq(Paths), Len(a) = Len(inputs),
           \A n \in 1 .. Len(a) : Holds(a[n], <<inputs[n]>>),
           \A n \in DOMAIN b : Source(b[n])
    PROVE  CodeIn(fs, a \o b) = inputs \o b /\ a \o b \in Seq(Paths)
<1>1. /\ inputs \in Seq(Paths) /\ Len(a) \in Nat /\ Len(b) \in Nat
  BY Basics DEF DriverInv, ConfigTypeOK
<1>2. /\ a \o b \in Seq(Paths) /\ inputs \o b \in Seq(Paths)
      /\ DOMAIN (a \o b) = 1 .. Len(a) + Len(b) /\ DOMAIN (inputs \o b) = 1 .. Len(a) + Len(b)
  BY <1>1
<1>3. ASSUME NEW n \in 1 .. Len(a) + Len(b)
      PROVE  PartIn(fs, (a \o b)[n]) = (inputs \o b)[n]
  <2>1. CASE n <= Len(a)
    <3>1. (a \o b)[n] = a[n] /\ (inputs \o b)[n] = inputs[n] /\ n \in 1 .. Len(a)
      BY <1>1, <2>1
    <3> QED BY <3>1, PartHeld
  <2>2. CASE n > Len(a)
    <3>1. /\ (a \o b)[n] = b[n - Len(a)] /\ (inputs \o b)[n] = b[n - Len(a)]
          /\ n - Len(a) \in DOMAIN b
      BY <1>1, <2>2
    <3> QED BY <3>1, PartHeld DEF Source
  <2> QED BY <1>1, <2>1, <2>2
<1>4. CodeIn(fs, a \o b) = [n \in 1 .. Len(a) + Len(b) |-> (inputs \o b)[n]]
  BY <1>2, <1>3 DEF CodeIn
<1>5. inputs \o b = [n \in 1 .. Len(a) + Len(b) |-> (inputs \o b)[n]]
  <2>1. \A c \in Seq(Paths) : c = [n \in DOMAIN c |-> c[n]]
    OBVIOUS
  <2> QED BY <1>2, <2>1, Zenon
<1> QED BY <1>2, <1>4, <1>5

LEMMA RunLinks ==
    ASSUME DriverInv, Steady, phase \in {"single", "link"}, phase' = "linked",
           idx' = idx, status' = status, phase = "single" => ~IsC(In),
           NEW tool \in {"as", "cc", "ld.lld", "elf_link"}, NEW ins \in Seq(Paths),
           NEW kind \in Kinds, Run(tool, ins, OutName, kind),
           CodeIn(fs, ins) = inputs \o runtime_objs
    PROVE  DriverInv'
<1>1. /\ UNCHANGED <<backendVars, temps, listVars>>
      /\ ran' \in Seq(Runs) /\ rc' \in {0, 1} /\ fs' \in [DOMAIN fs' -> Files]
      /\ \A q \in DOMAIN fs' : q \in DOMAIN fs \/ q = OutName
      /\ rc' = 0 => \A q, of : q = OutName /\ of = CodeIn(fs, ins) => Holds(q, of)'
  <2>1. UNCHANGED <<backendVars, temps, listVars>>
    BY RunStep
  <2>2. ran' \in Seq(Runs) /\ rc' \in {0, 1} /\ fs' \in [DOMAIN fs' -> Files]
    BY RunStep
  <2>3. \A q \in DOMAIN fs' : q \in DOMAIN fs \/ q = OutName
    BY RunStep
  <2>4. rc' = 0 => \A q, of : q = OutName /\ of = CodeIn(fs, ins) => Holds(q, of)'
    <3>1. rc' = 0 => fs' = Write(fs, OutName, File(kind, CodeIn(fs, ins)))
      BY DEF Run
    <3>2. File(kind, CodeIn(fs, ins)).of = CodeIn(fs, ins)
      BY Basics, CodeType, FileType
    <3> QED BY <3>1, <3>2 DEF Write, Holds
  <2> QED BY <2>1, <2>2, <2>3, <2>4
<1>2. \A p \in DOMAIN fs' : Temporary(p) => p \in DOMAIN fs
  BY <1>1, OutputNames
<1>3. OutName' = OutName /\ (inputs \o runtime_objs)' = inputs \o runtime_objs
  BY <1>1, SteadyStep DEF Steady, listVars
<1>4. rc' = 0 => ImageWritten'
  BY <1>1, <1>3 DEF ImageWritten
<1> QED BY <1>1, <1>2, <1>4, LinkedStep

LEMMA SingleForeignInv ==
    ASSUME DriverInv, SingleForeign
    PROVE  DriverInv'
<1>1. /\ Steady /\ phase = "single" /\ phase' = "linked" /\ idx' = idx /\ status' = status
      /\ ~IsC(In)
      /\ \E tool \in {"as", "cc"}, kind \in {"image", "obj"} : Run(tool, <<In>>, OutName, kind)
  BY DEF SingleForeign, AtInput, Step, Steady
<1>2. idx = 1 /\ Len(inputs) = 1 /\ runtime_objs = << >> /\ In = inputs[1] /\ Source(In)
      /\ inputs \in Seq(Arguments) /\ In \in Paths
  BY <1>1, Basics DEF DriverInv, OnItsWay, AtItsInput, ListsInUse, SourcesKept, In, InputPhases,
     ConfigTypeOK
<1>3. CodeIn(fs, <<In>>) = <<In>> /\ inputs = <<In>>
  <2>1. CodeIn(fs, <<In>>) = <<In>>
    BY <1>2, PartHeld DEF Source
  <2> QED BY <1>2, <2>1
<1>4. CodeIn(fs, <<In>>) = inputs \o runtime_objs
  BY <1>2, <1>3
<1>5. <<In>> \in Seq(Paths)
  BY <1>2
<1> QED BY <1>1, <1>4, <1>5, RunLinks DEF Kinds

LEMMA LinkInternallyInv ==
    ASSUME DriverInv, RuntimeAsked, LinkInternally
    PROVE  DriverInv'
<1>1. /\ Steady /\ phase = "link" /\ phase' = "linked" /\ idx' = idx /\ status' = status
      /\ Way = "single" /\ Internal /\ Run("elf_link", <<Temp(temps)>>, OutName, "image")
  BY DEF LinkInternally, Step, Steady
<1>2. runtime_objs = << >>
  BY <1>1 DEF RuntimeAsked, Internal, RuntimeWanted
<1>3. /\ Len(inputs) = 1 /\ Holds(Temp(temps), <<inputs[1]>>) /\ inputs \in Seq(Arguments)
      /\ Temp(temps) \in Paths
  BY <1>1, Basics, TempNames DEF DriverInv, TextWritten, ConfigTypeOK, LinkPhases
<1>4. CodeIn(fs, <<Temp(temps)>>) = <<inputs[1]>>
  BY <1>3, PartHeld
<1>5. CodeIn(fs, <<Temp(temps)>>) = inputs \o runtime_objs
  BY <1>2, <1>3, <1>4
<1>6. <<Temp(temps)>> \in Seq(Paths)
  BY <1>3
<1> QED BY <1>1, <1>5, <1>6, RunLinks DEF Kinds

\* The object is the one temporary file of a single input that is linked
\* internally, and it is still there.
LEMMA LinkDiesInv ==
    ASSUME DriverInv, RuntimeAsked, LinkDies
    PROVE  DriverInv'
<1>1. /\ Steady /\ UNCHANGED <<backendVars, idx, fs, temps, listVars>>
      /\ phase = "link" /\ phase' = "exit" /\ status' = 1 /\ rc' = NoReturn
      /\ Way = "single" /\ Internal
      /\ ran' = Append(ran, [tool |-> "elf_link", ins |-> <<Temp(temps)>>])
  BY DEF LinkDies, Leave, Steady
<1>2. runtime_objs = << >> /\ temp_objects = << >> /\ Made \in {0, 1}
  BY <1>1 DEF RuntimeAsked, Internal, RuntimeWanted, DriverInv, ListsInUse, Made, ObjectPhases,
     LinkPhases
<1>3. Temp(temps) \in DOMAIN fs /\ Temp(temps) \in Paths /\ Temporary(Temp(temps))
  BY <1>1, Basics, TempNames DEF DriverInv, TextWritten, LinkPhases, Holds
<1>4. LeftOver \subseteq {IncDir, RtDir, Temp(temps)}
  <2>1. InUse \subseteq {Temp(temps)}
    BY <1>2, Basics DEF InUse
  <2>2. Range(temp_objects) = {} /\ Range(runtime_objs) = {}
    BY <1>2 DEF Range
  <2> QED BY <1>1, <2>1, <2>2 DEF DriverInv, Accounted
<1>5. NothingLeftBehind'
  <2>1. LeftOver' = LeftOver /\ Temp(temps)' = Temp(temps) /\ Temp(temps) \in LeftOver
    BY <1>1, <1>3 DEF LeftOver
  <2> QED BY <1>1, <1>4, <2>1 DEF NothingLeftBehind, NoReturn
<1>6. SuccessIsComplete'
  BY <1>1 DEF SuccessIsComplete
<1>7. ran' \in Seq(Runs)
  <2>1. <<Temp(temps)>> \in Seq(Paths)
    BY <1>3
  <2>2. [tool |-> "elf_link", ins |-> <<Temp(temps)>>] \in Runs
    BY <2>1 DEF Runs
  <2> QED BY <1>1, <2>2 DEF DriverInv, StateTypeOK
<1> QED BY <1>1, <1>5, <1>6, <1>7, LeavingInv, Basics

LEMMA RuntimeHeld ==
    ASSUME DriverInv, phase = "link"
    PROVE  /\ runtime_objs \in Seq(Paths)
           /\ \A n \in DOMAIN runtime_objs : Source(runtime_objs[n])
<1>1. {RtObject(n) : n \in 1 .. 2} \subseteq Paths
  BY DEF Paths, Parts
<1>2. runtime_objs \in Seq({RtObject(n) : n \in 1 .. 2})
  BY DEF DriverInv, StateTypeOK
<1> QED BY <1>1, <1>2 DEF DriverInv, TextWritten

\* The files of a link are written: one for every input, and those of the
\* runtime.
LinkFiles == IF Way = "single" THEN <<Temp(temps)>> ELSE link_cmd_args

LEMMA LinkFilesHeld ==
    ASSUME DriverInv, phase = "link"
    PROVE  /\ LinkFiles \in Seq(Paths) /\ Len(LinkFiles) = Len(inputs)
           /\ \A n \in 1 .. Len(LinkFiles) : Holds(LinkFiles[n], <<inputs[n]>>)
           /\ runtime_objs \in Seq(Paths)
           /\ \A n \in DOMAIN runtime_objs : Source(runtime_objs[n])
<1>1. Way \in {"single", "loop"}
  BY DEF DriverInv, OnItsWay, LinkPhases
<1>2. CASE Way = "single"
  <2>1. Len(inputs) = 1 /\ Holds(Temp(temps), <<inputs[1]>>) /\ Temp(temps) \in Paths
    BY <1>2, Basics, TempNames DEF DriverInv, TextWritten, LinkPhases
  <2>2. /\ LinkFiles \in Seq(Paths) /\ Len(LinkFiles) = Len(inputs)
        /\ \A n \in 1 .. Len(LinkFiles) : Holds(LinkFiles[n], <<inputs[n]>>)
    BY <1>2, <2>1 DEF LinkFiles
  <2> QED BY <2>2, RuntimeHeld
<1>3. CASE Way = "loop"
  <2>1. /\ LinkFiles \in Seq(Paths) /\ Len(LinkFiles) = Len(inputs)
        /\ \A n \in 1 .. Len(LinkFiles) : Holds(LinkFiles[n], <<inputs[n]>>)
    BY <1>3, ListedHere DEF LinkFiles, InPlace, Taken, LinkPhases
  <2> QED BY <2>1, RuntimeHeld
<1> QED BY <1>1, <1>2, <1>3

LEMMA LinkInv ==
    ASSUME DriverInv, Link
    PROVE  DriverInv'
<1>1. /\ Steady /\ phase = "link" /\ phase' = "linked" /\ idx' = idx /\ status' = status
      /\ \E tool \in {"cc", "ld.lld"} : Run(tool, LinkFiles \o runtime_objs, OutName, "image")
  BY DEF Link, LinkFiles, Step, Steady
<1>2. /\ CodeIn(fs, LinkFiles \o runtime_objs) = inputs \o runtime_objs
      /\ LinkFiles \o runtime_objs \in Seq(Paths)
  BY <1>1, LinkFilesHeld, LinkedCode
<1> QED BY <1>1, <1>2, RunLinks DEF Kinds

-----------------------------------------------------------------------------
(* Files on their way to the link                                          *)

MiddlePhases == {"loop", "s_write", "o_temp", "o_write", "o_assemble", "o_done", "tidy"}
                \cup LinkPhases

LEMMA MiddleStep ==
    ASSUME DriverInv, Steady, phase \in MiddlePhases, phase' \in MiddlePhases,
           UNCHANGED <<backendVars, status>>, Way \in {"single", "loop"}, Kept,
           StateTypeOK', OnItsWay', AtItsInput', Outcome', ListsInUse', Accounted',
           ListedInOrder', TextWritten'
    PROVE  DriverInv'
<1>1. /\ EmitInv' /\ ConfigTypeOK' /\ FromArguments' /\ Way' = Way
  BY EmitStutterInv, SteadyStep DEF DriverInv
<1>2. SourcesKept'
  BY SourcesStay DEF MiddlePhases, LinkPhases
<1>3. OutputsWritten'
  BY <1>1 DEF OutputsWritten, MiddlePhases, LinkPhases
<1>4. NothingLeftBehind' /\ SuccessIsComplete'
  BY NotAtExit DEF DriverInv, Outcome, MiddlePhases, LinkPhases
<1> QED BY <1>1, <1>2, <1>3, <1>4 DEF DriverInv

LEMMA TakeObjectInv ==
    ASSUME DriverInv, TakeObject
    PROVE  DriverInv'
<1>1. /\ Steady /\ UNCHANGED <<backendVars, status, fs, temps, temp_objects, runtime_objs, ran, rc>>
      /\ phase = "loop" /\ phase' = "loop" /\ idx' = idx + 1 /\ idx <= Len(inputs)
      /\ link_cmd_args' = Append(link_cmd_args, In)
  BY DEF TakeObject, AtInput, Step, Steady
<1>2. Way = "loop" /\ Way' = "loop" /\ idx \in DOMAIN inputs /\ In = inputs[idx] /\ rc = 0
  BY <1>1, Basics, SteadyStep DEF DriverInv, OnItsWay, Outcome, In, StateTypeOK
<1>3. Made = 0 /\ Made' = 0
  BY <1>1 DEF Made, ObjectPhases, LinkPhases
<1>4. Kept
  BY <1>1 DEF Kept, Holds
<1>5. StateTypeOK'
  BY <1>1, <1>2, Basics DEF DriverInv, StateTypeOK
<1>6. OnItsWay' /\ AtItsInput' /\ Outcome' /\ ListsInUse'
  BY <1>1, <1>2, <1>3, Basics, SteadyStep DEF DriverInv, OnItsWay, AtItsInput, Outcome,
     ListsInUse, InputPhases, ObjectPhases, StartPhases, LinkPhases
<1>7. Accounted'
  BY <1>1, <1>3 DEF DriverInv, Accounted, LeftOver, InUse
<1>8. ListedInOrder'
  <2>1. link_cmd_args \in Seq(Paths) /\ Len(link_cmd_args) = idx - 1 /\ In \in Paths
    BY <1>1, <1>2, Basics, ListedHere DEF Taken, LinkPhases
  <2>2. /\ link_cmd_args' \in Seq(Paths) /\ Len(link_cmd_args') = idx
        /\ link_cmd_args'[idx] = inputs[idx]
        /\ \A n \in 1 .. idx - 1 : link_cmd_args'[n] = link_cmd_args[n]
    BY <1>1, <1>2, <2>1, Basics
  <2>3. Holds(inputs[idx], <<inputs[idx]>>)
    BY <1>1, <1>2 DEF DriverInv, SourcesKept, Source
  <2>4. \A q, of : Holds(q, of)' <=> Holds(q, of)
    BY <1>1 DEF Holds
  <2>5. ASSUME NEW m, m = idx PROVE InPlace(m)'
    <3>1. link_cmd_args'[m] = inputs[m] /\ inputs'[m] = inputs[m]
      BY <1>1, <2>2, <2>5, SteadyStep
    <3>2. Holds(link_cmd_args[m], <<inputs[m]>>)'
      BY <2>3, <2>4, <2>5, <3>1
    <3> QED BY <3>1, <3>2 DEF InPlace
  <2> QED BY <1>1, <1>2, <1>4, <2>2, <2>5, ListGrows
<1>9. TextWritten'
  BY <1>1 DEF TextWritten, LinkPhases
<1> QED BY <1>1, <1>2, <1>4, <1>5, <1>6, <1>7, <1>8, <1>9, MiddleStep DEF MiddlePhases
LEMMA RangeAppend ==
    ASSUME NEW S, NEW s \in Seq(S), NEW x \in S
    PROVE  Range(Append(s, x)) = Range(s) \cup {x}
<1>1. /\ DOMAIN s = 1 .. Len(s) /\ DOMAIN Append(s, x) = 1 .. Len(s) + 1 /\ Len(s) \in Nat
      /\ Append(s, x)[Len(s) + 1] = x /\ \A n \in 1 .. Len(s) : Append(s, x)[n] = s[n]
  OBVIOUS
<1>2. \A n \in 1 .. Len(s) + 1 : n \in 1 .. Len(s) \/ n = Len(s) + 1
  BY <1>1
<1>3. 1 .. Len(s) \subseteq 1 .. Len(s) + 1 /\ Len(s) + 1 \in 1 .. Len(s) + 1
  BY <1>1
<1>4. Range(Append(s, x)) \subseteq Range(s) \cup {x}
  BY <1>1, <1>2 DEF Range
<1>5. Range(s) \cup {x} \subseteq Range(Append(s, x))
  BY <1>1, <1>3 DEF Range
<1> QED BY <1>4, <1>5

LEMMA WriteAsmTempInv ==
    ASSUME DriverInv, WriteAsmTemp
    PROVE  DriverInv'
<1>1. /\ Steady /\ UNCHANGED <<backendVars, status, temps, listVars, ran, rc>>
      /\ phase = "s_write" /\ idx' = idx /\ fs' = Write(fs, Temp(temps), File("asm", <<In>>))
      /\ \/ Way = "loop" /\ phase' = "o_temp"
         \/ Way # "loop" /\ phase' \in {"runtime", "link"}
  BY DEF WriteAsmTemp, Step, Steady, Quiet
<1>2. /\ Way \in {"single", "loop"} /\ Way' = Way /\ idx \in DOMAIN inputs /\ In = inputs[idx]
      /\ rc = 0 /\ IsC(In) /\ In \in Parts /\ In' = In
  BY <1>1, Basics, SteadyStep DEF DriverInv, OnItsWay, AtItsInput, Outcome, In, StateTypeOK,
     InputPhases
<1>3. Way = "single" => inputs[1] = In /\ inputs'[1] = In
  BY <1>1, <1>2, Basics, SteadyStep
<1>4. Made = 1 /\ Made' = 1
  BY <1>1, <1>2, <1>3, SteadyStep DEF Made, HasText, ObjectPhases, LinkPhases
<1>5. /\ fs' \in [DOMAIN fs' -> Files] /\ DOMAIN fs' = DOMAIN fs \cup {Temp(temps)}
      /\ \A q, of : q = Temp(temps) /\ of = <<In>> => Holds(q, of)'
      /\ \A q, of : q # Temp(temps) => (Holds(q, of)' <=> Holds(q, of))
  <2>1. <<In>> \in Seq(Parts)
    BY <1>2
  <2>2. File("asm", <<In>>) \in Files /\ File("asm", <<In>>).of = <<In>>
    BY <2>1, FileType DEF Kinds
  <2> QED BY <1>1, <2>2, Basics, FileWritten
<1>6. Kept
  BY <1>4, <1>5, Basics, TempNames DEF Kept
<1>7. StateTypeOK'
  BY <1>1, <1>5 DEF DriverInv, StateTypeOK, listVars, Phases, InputPhases, LinkPhases
<1>8. OnItsWay' /\ AtItsInput' /\ Outcome' /\ ListsInUse'
  BY <1>1, <1>2, <1>4, Basics, SteadyStep DEF DriverInv, OnItsWay, AtItsInput, Outcome,
     ListsInUse, InputPhases, ObjectPhases, StartPhases, LinkPhases, listVars
<1>9. Accounted'
  <2>1. Temp(temps) \in InUse
    BY <1>4, Basics DEF InUse
  <2> QED BY <1>1, <1>4, <1>5, <2>1 DEF DriverInv, Accounted, LeftOver, InUse, listVars
<1>10. ListedInOrder'
  <2>1. Way = "loop" => Taken' = Taken
    BY <1>1 DEF Taken, LinkPhases
  <2> QED BY <1>1, <1>4, <1>6, <2>1, ListStays DEF listVars, LinkPhases
<1>11. TextWritten'
  BY <1>1, <1>2, <1>3, <1>5, SteadyStep DEF DriverInv, TextWritten, ListsInUse, LinkPhases,
     HasText, listVars
<1> QED BY <1>1, <1>2, <1>6, <1>7, <1>8, <1>9, <1>10, <1>11, MiddleStep
        DEF MiddlePhases, LinkPhases

LEMMA ListObjectInv ==
    ASSUME DriverInv, ListObject
    PROVE  DriverInv'
<1>1. /\ Steady /\ UNCHANGED <<backendVars, status, fs, temps, runtime_objs, ran, rc>>
      /\ phase = "o_write" /\ phase' = "o_assemble" /\ idx' = idx /\ Way = "loop"
      /\ link_cmd_args' = Append(link_cmd_args, Temp(temps))
      /\ temp_objects' = Append(temp_objects, Temp(temps))
  BY DEF ListObject, Listed, Step, Steady
<1>2. /\ Way' = Way /\ idx \in DOMAIN inputs /\ In = inputs[idx] /\ rc = 0 /\ In' = In
  BY <1>1, Basics, SteadyStep DEF DriverInv, AtItsInput, Outcome, In, StateTypeOK,
     InputPhases, ObjectPhases
<1>3. Made' = Made /\ Made \in {1, 2} /\ Made <= temps
  BY <1>1, <1>2, MadeType DEF Made, HasText, ObjectPhases, LinkPhases
<1>4. Kept
  BY <1>1 DEF Kept, Holds
<1>5. /\ link_cmd_args \in Seq(Paths) /\ Len(link_cmd_args) = idx - 1 /\ Temp(temps) \in Paths
      /\ temp_objects \in Seq(TempFiles) /\ Temp(temps) \in TempFiles
  BY <1>1, Basics, ListedHere, TempNames DEF DriverInv, StateTypeOK, Taken, LinkPhases, TempFiles
<1>6. /\ link_cmd_args' \in Seq(Paths) /\ Len(link_cmd_args') = idx
      /\ link_cmd_args'[idx] = Temp(temps)
      /\ \A n \in 1 .. idx - 1 : link_cmd_args'[n] = link_cmd_args[n]
      /\ temp_objects' \in Seq(TempFiles)
  BY <1>1, <1>5, Basics
<1>7. Range(temp_objects') = Range(temp_objects) \cup {Temp(temps)}
  BY <1>1, <1>5, RangeAppend
<1>8. StateTypeOK'
  BY <1>1, <1>6 DEF DriverInv, StateTypeOK, Phases, InputPhases, ObjectPhases
<1>9. OnItsWay' /\ AtItsInput' /\ Outcome' /\ ListsInUse'
  BY <1>1, <1>2, <1>3, SteadyStep DEF DriverInv, OnItsWay, AtItsInput, Outcome,
     ListsInUse, InputPhases, ObjectPhases, StartPhases, LinkPhases
<1>10. Accounted'
  BY <1>1, <1>3, <1>7 DEF DriverInv, Accounted, LeftOver, InUse
<1>11. ListedInOrder'
  <2>1. Taken = idx - 1 /\ Taken' = idx - 1
    BY <1>1 DEF Taken, LinkPhases
  <2>2. \A n \in 1 .. idx - 1 : n \in DOMAIN inputs /\ InPlace(n)
    BY <1>1, <2>1, ListedHere
  <2>3. temps - Made \in Int /\ temps' - Made' = temps - Made
    BY <1>1, <1>3, Basics
  <2>4. \A n \in 1 .. idx - 1 : InPlace(n)'
    BY SMTT(30), <1>1, <1>4, <1>6, <2>2, <2>3, InPlaceStays
  <2>5. link_cmd_args'[idx'] = Temp(temps') /\ Temp(temps') \in Range(temp_objects')
    BY <1>1, <1>6, <1>7
  <2> QED BY <1>1, <1>6, <2>1, <2>4, <2>5 DEF ListedInOrder
<1>12. TextWritten'
  BY <1>1, <1>2, SteadyStep DEF DriverInv, TextWritten, LinkPhases, HasText, Holds
<1> QED BY <1>1, <1>4, <1>8, <1>9, <1>10, <1>11, <1>12, MiddleStep
        DEF MiddlePhases, LinkPhases

\* The object of a C file, written by the compiler itself: for the internal
\* linker, and in the loop for a shared library.
LEMMA WriteSingleObject ==
    ASSUME DriverInv, WriteObjectTemp, Way = "single"
    PROVE  DriverInv'
<1>1. /\ Steady /\ UNCHANGED <<backendVars, status, temps, listVars, ran, rc>>
      /\ phase = "o_write" /\ phase' = "link" /\ idx' = idx /\ IsC(In)
      /\ fs' = Write(fs, Temp(temps), File("obj", <<In>>))
  BY DEF WriteObjectTemp, Step, Steady
<1>2. /\ Way' = Way /\ idx = 1 /\ In = inputs[1] /\ inputs'[1] = In /\ rc = 0 /\ In \in Parts
      /\ idx \in DOMAIN inputs /\ runtime_objs = << >>
  BY <1>1, Basics, SteadyStep DEF DriverInv, AtItsInput, Outcome, In, StateTypeOK,
     InputPhases, ObjectPhases, ListsInUse
<1>3. Made = 1 /\ Made' = 1
  BY <1>1, <1>2 DEF Made, HasText, ObjectPhases, LinkPhases
<1>4. /\ fs' \in [DOMAIN fs' -> Files] /\ DOMAIN fs' = DOMAIN fs \cup {Temp(temps)}
      /\ \A q, of : q = Temp(temps) /\ of = <<In>> => Holds(q, of)'
      /\ \A q, of : q # Temp(temps) => (Holds(q, of)' <=> Holds(q, of))
  <2>1. <<In>> \in Seq(Parts)
    BY <1>2
  <2>2. File("obj", <<In>>) \in Files /\ File("obj", <<In>>).of = <<In>>
    BY <2>1, FileType DEF Kinds
  <2> QED BY <1>1, <2>2, Basics, FileWritten
<1>5. Kept
  BY <1>3, <1>4, Basics, TempNames DEF Kept
<1>6. StateTypeOK'
  BY <1>1, <1>4 DEF DriverInv, StateTypeOK, listVars, Phases, LinkPhases
<1>7. OnItsWay' /\ AtItsInput' /\ Outcome' /\ ListsInUse'
  BY <1>1, <1>2, <1>3, SteadyStep DEF DriverInv, OnItsWay, AtItsInput, Outcome,
     ListsInUse, InputPhases, ObjectPhases, StartPhases, LinkPhases, listVars
<1>8. Accounted'
  <2>1. Temp(temps) \in InUse
    BY <1>3, Basics DEF InUse
  <2> QED BY <1>1, <1>3, <1>4, <2>1 DEF DriverInv, Accounted, LeftOver, InUse, listVars
<1>9. ListedInOrder'
  BY <1>1, <1>2 DEF ListedInOrder
<1>10. TextWritten'
  BY <1>1, <1>2, <1>4 DEF TextWritten, LinkPhases, listVars
<1> QED BY <1>1, <1>5, <1>6, <1>7, <1>8, <1>9, <1>10, MiddleStep
        DEF MiddlePhases, LinkPhases

LEMMA WriteLoopObject ==
    ASSUME DriverInv, WriteObjectTemp, Way = "loop"
    PROVE  DriverInv'
<1>1. /\ Steady /\ UNCHANGED <<backendVars, status, temps, runtime_objs, ran, rc>>
      /\ phase = "o_write" /\ phase' = "loop" /\ idx' = idx + 1 /\ IsC(In)
      /\ fs' = Without(Write(fs, Temp(temps), File("obj", <<In>>)), {Temp(temps - 1)})
      /\ link_cmd_args' = Append(link_cmd_args, Temp(temps))
      /\ temp_objects' = Append(temp_objects, Temp(temps))
  BY DEF WriteObjectTemp, Step, Steady, Listed
<1>2. /\ Way' = Way /\ idx \in DOMAIN inputs /\ In = inputs[idx] /\ rc = 0 /\ In \in Parts
  BY <1>1, Basics, SteadyStep DEF DriverInv, AtItsInput, Outcome, In, StateTypeOK,
     InputPhases, ObjectPhases
<1>3. Made = 2 /\ Made' = 0 /\ temps - 1 \in Nat /\ temps \in Nat /\ temps >= 2
  <2>1. Made = 2 /\ Made' = 0
    BY <1>1 DEF Made, HasText, ObjectPhases, LinkPhases
  <2> QED BY <2>1, MadeType, Basics
<1>4. Temp(temps - 1) # Temp(temps)
  BY <1>3, TempNames
<1>5. /\ fs' \in [DOMAIN fs' -> Files]
      /\ DOMAIN fs' = (DOMAIN fs \cup {Temp(temps)}) \ {Temp(temps - 1)}
      /\ \A q, of : q = Temp(temps) /\ of = <<In>> => Holds(q, of)'
      /\ \A q, of : q \notin {Temp(temps), Temp(temps - 1)} => (Holds(q, of)' <=> Holds(q, of))
  <2>1. <<In>> \in Seq(Parts)
    BY <1>2
  <2>2. File("obj", <<In>>) \in Files /\ File("obj", <<In>>).of = <<In>>
    BY <2>1, FileType DEF Kinds
  <2>3. /\ DOMAIN fs' = (DOMAIN fs \cup {Temp(temps)}) \ {Temp(temps - 1)}
        /\ fs'[Temp(temps)] = File("obj", <<In>>)
        /\ \A q \in DOMAIN fs : q \notin {Temp(temps), Temp(temps - 1)} => fs'[q] = fs[q]
        /\ fs' = [q \in DOMAIN fs' |-> fs'[q]]
    BY <1>1, <1>4 DEF Write, Without, Restrict
  <2>4. \A q \in DOMAIN fs' : fs'[q] \in Files
    BY <2>2, <2>3, Basics
  <2> QED BY <1>4, <2>2, <2>3, <2>4 DEF Holds
<1>6. Kept
  BY <1>3, <1>5, Basics, TempNames DEF Kept
<1>7. /\ link_cmd_args \in Seq(Paths) /\ Len(link_cmd_args) = idx - 1 /\ Temp(temps) \in Paths
      /\ temp_objects \in Seq(TempFiles) /\ Temp(temps) \in TempFiles
  BY <1>1, Basics, ListedHere, TempNames DEF DriverInv, StateTypeOK, Taken, LinkPhases, TempFiles
<1>8. /\ link_cmd_args' \in Seq(Paths) /\ Len(link_cmd_args') = idx
      /\ link_cmd_args'[idx] = Temp(temps)
      /\ \A n \in 1 .. idx - 1 : link_cmd_args'[n] = link_cmd_args[n]
      /\ temp_objects' \in Seq(TempFiles)
  BY <1>1, <1>7, Basics
<1>9. Range(temp_objects') = Range(temp_objects) \cup {Temp(temps)}
  BY <1>1, <1>7, RangeAppend
<1>10. StateTypeOK'
  <2>1. phase' \in Phases /\ idx' \in Nat \ {0}
    BY <1>1, Basics DEF Phases, StartPhases
  <2> QED BY <1>1, <1>5, <1>8, <2>1 DEF DriverInv, StateTypeOK
<1>11. OnItsWay' /\ AtItsInput' /\ Outcome' /\ ListsInUse'
  BY <1>1, <1>2, <1>3, Basics, SteadyStep DEF DriverInv, OnItsWay, AtItsInput, Outcome,
     ListsInUse, InputPhases, ObjectPhases, StartPhases, LinkPhases
<1>12. Accounted'
  <2>1. InUse \subseteq {Temp(temps - 1), Temp(temps)}
    BY <1>3 DEF InUse
  <2> QED BY <1>1, <1>5, <1>9, <2>1 DEF DriverInv, Accounted, LeftOver
<1>13. ListedInOrder'
  <2>1. ASSUME NEW m, m = idx PROVE InPlace(m)'
    <3>1. link_cmd_args'[m] = Temp(temps) /\ inputs'[m] = In
      BY <1>1, <1>2, <1>8, <2>1, SteadyStep
    <3>2. Holds(link_cmd_args[m], <<inputs[m]>>)'
      BY <1>5, <3>1
    <3>3. temps \in 1 .. temps' - Made'
      BY <1>1, <1>3
    <3> QED BY <3>1, <3>2, <3>3 DEF InPlace
  <2> QED BY <1>1, <1>2, <1>6, <1>8, <2>1, ListGrows
<1>14. TextWritten'
  BY <1>1 DEF TextWritten, LinkPhases
<1> QED BY <1>1, <1>6, <1>10, <1>11, <1>12, <1>13, <1>14, MiddleStep
        DEF MiddlePhases, LinkPhases

LEMMA WriteObjectTempInv ==
    ASSUME DriverInv, WriteObjectTemp
    PROVE  DriverInv'
<1>1. Way \in {"single", "loop"}
  BY DEF WriteObjectTemp, DriverInv, OnItsWay
<1> QED BY <1>1, WriteSingleObject, WriteLoopObject

\* What an object is assembled from is there: the text of a C file, or the
\* input itself.
AssemblySource == IF IsC(In) THEN Temp(temps - 1) ELSE In

LEMMA AssemblySourceHeld ==
    ASSUME DriverInv, phase = "o_assemble"
    PROVE  AssemblySource \in Paths /\ Holds(AssemblySource, <<In>>)
<1>1. /\ Way = "loop" /\ idx \in DOMAIN inputs /\ In = inputs[idx] /\ In \in Paths
  BY Basics DEF DriverInv, OnItsWay, AtItsInput, In, InputPhases, ObjectPhases
<1>2. CASE IsC(In)
  <2>1. HasText /\ temps - 1 \in Nat
    BY <1>1, <1>2, MadeType, Basics DEF HasText, Made, ObjectPhases, LinkPhases
  <2> QED BY <1>2, <2>1, TempNames DEF AssemblySource, DriverInv, TextWritten
<1>3. CASE ~IsC(In)
  BY <1>1, <1>3 DEF AssemblySource, DriverInv, SourcesKept, Source
<1> QED BY <1>2, <1>3

LEMMA AssembleObjectInv ==
    ASSUME DriverInv, AssembleObject
    PROVE  DriverInv'
<1>1. /\ Steady /\ status' = status
      /\ phase = "o_assemble" /\ phase' = "o_done" /\ idx' = idx
      /\ \E tool \in {"as", "cc"} : Run(tool, <<AssemblySource>>, Temp(temps), "obj")
  BY DEF AssembleObject, AssemblySource, Step, Steady
<1>2. /\ Way = "loop" /\ Way' = Way /\ idx \in DOMAIN inputs /\ In = inputs[idx] /\ In' = In
      /\ In \in Paths
  BY <1>1, Basics, SteadyStep DEF DriverInv, OnItsWay, AtItsInput, In, InputPhases, ObjectPhases
<1>3. Made \in {1, 2} /\ Made <= temps /\ temps \in Nat
  BY <1>1, MadeType, Basics DEF Made, ObjectPhases, LinkPhases
<1>4. AssemblySource \in Paths /\ Holds(AssemblySource, <<In>>)
  BY <1>1, AssemblySourceHeld
<1>5. CodeIn(fs, <<AssemblySource>>) = <<In>> /\ <<AssemblySource>> \in Seq(Paths)
  BY <1>4, PartHeld
<1>6. /\ UNCHANGED <<backendVars, temps, listVars>>
      /\ ran' \in Seq(Runs) /\ rc' \in {0, 1} /\ fs' \in [DOMAIN fs' -> Files]
      /\ \A q \in DOMAIN fs' : q \in DOMAIN fs \/ q = Temp(temps)
      /\ rc' = 0 => \A q, of : q = Temp(temps) /\ of = <<In>> => Holds(q, of)'
      /\ \A q, of : q # Temp(temps) => (Holds(q, of)' <=> Holds(q, of))
  <2>1. PICK tool \in {"as", "cc"} : Run(tool, <<AssemblySource>>, Temp(temps), "obj")
    BY <1>1
  <2>2. tool \in {"as", "cc", "ld.lld", "elf_link"} /\ "obj" \in Kinds
    BY DEF Kinds
  <2>3. UNCHANGED <<backendVars, temps, listVars>>
    BY <1>5, <2>1, <2>2, RunStep
  <2>4. ran' \in Seq(Runs) /\ rc' \in {0, 1} /\ fs' \in [DOMAIN fs' -> Files]
    BY <1>5, <2>1, <2>2, RunStep
  <2>5. \A q \in DOMAIN fs' : q \in DOMAIN fs \/ q = Temp(temps)
    <3>1. fs' = fs \/ fs' = Write(fs, Temp(temps), File("obj", CodeIn(fs, <<AssemblySource>>)))
      BY <2>1 DEF Run
    <3> QED BY <3>1 DEF Write
  <2>6. rc' = 0 => \A q, of : q = Temp(temps) /\ of = <<In>> => Holds(q, of)'
    <3>1. rc' = 0 => fs' = Write(fs, Temp(temps), File("obj", CodeIn(fs, <<AssemblySource>>)))
      BY <2>1 DEF Run
    <3>2. File("obj", CodeIn(fs, <<AssemblySource>>)).of = CodeIn(fs, <<AssemblySource>>)
      BY <1>5, <2>2, Basics, CodeType, FileType
    <3> QED BY <1>5, <3>1, <3>2 DEF Write, Holds
  <2>7. \A q, of : q # Temp(temps) => (Holds(q, of)' <=> Holds(q, of))
    BY <1>5, <2>1, <2>2, RunStep
  <2> QED BY <2>3, <2>4, <2>5, <2>6, <2>7
<1>7. Made' = Made
  BY <1>1, <1>2 DEF Made, HasText, ObjectPhases, LinkPhases
<1>8. Kept
  BY <1>3, <1>6, Basics, TempNames DEF Kept
<1>9. StateTypeOK'
  BY <1>1, <1>6 DEF DriverInv, StateTypeOK, listVars, Phases, InputPhases, ObjectPhases
<1>10. OnItsWay' /\ AtItsInput' /\ Outcome' /\ ListsInUse'
  BY <1>1, <1>2, <1>6, <1>7, SteadyStep DEF DriverInv, OnItsWay, AtItsInput, Outcome,
     ListsInUse, InputPhases, ObjectPhases, StartPhases, LinkPhases, NoReturn, listVars
<1>11. Accounted'
  <2>1. Temp(temps) \in InUse
    BY <1>3 DEF InUse
  <2> QED BY <1>1, <1>6, <1>7, <2>1 DEF DriverInv, Accounted, LeftOver, InUse, listVars
<1>12. ListedInOrder'
  <2>1. Taken = idx - 1 /\ Taken' = idx - 1
    BY <1>1 DEF Taken, LinkPhases
  <2>2. \A n \in 1 .. idx - 1 : n \in DOMAIN inputs /\ InPlace(n)
    BY <1>1, <1>2, <2>1, ListedHere
  <2>3. temps - Made \in Int /\ temps' - Made' = temps - Made /\ link_cmd_args' = link_cmd_args
    BY <1>3, <1>6, <1>7 DEF listVars
  <2>4. \A n \in 1 .. idx - 1 : InPlace(n)'
    BY <1>1, <1>8, <2>2, <2>3, InPlaceStays
  <2> QED BY <1>1, <1>2, <1>6, <2>1, <2>4 DEF DriverInv, ListedInOrder, listVars
<1>13. TextWritten'
  BY <1>1, <1>2, <1>6 DEF TextWritten, LinkPhases
<1> QED BY <1>1, <1>2, <1>6, <1>8, <1>9, <1>10, <1>11, <1>12, <1>13, MiddleStep
        DEF MiddlePhases, LinkPhases

LEMMA ObjectDoneInv ==
    ASSUME DriverInv, ObjectDone
    PROVE  DriverInv'
<1>1. /\ Steady /\ UNCHANGED <<backendVars, status, temps, listVars, ran, rc>>
      /\ phase = "o_done" /\ rc \in {0, 1}
      /\ rc = 0 => phase' = "loop" /\ idx' = idx + 1
      /\ rc = 1 => phase' = "tidy" /\ idx' = idx
      /\ IsC(In) => fs' = Without(fs, {Temp(temps - 1)})
      /\ ~IsC(In) => fs' = fs
  BY DEF ObjectDone, Step, Steady, Quiet, DriverInv, StateTypeOK, Outcome
<1>2. Way = "loop" /\ Way' = Way /\ idx \in DOMAIN inputs /\ In = inputs[idx]
  BY <1>1, Basics, SteadyStep DEF DriverInv, OnItsWay, AtItsInput, In, InputPhases, ObjectPhases
<1>3. /\ temps \in Nat /\ temps >= 1 /\ Made <= temps /\ Made' = 0
      /\ IsC(In) => Made = 2
      /\ ~IsC(In) => Made = 1
  <2>1. (IsC(In) => Made = 2) /\ (~IsC(In) => Made = 1)
    BY <1>1, <1>2 DEF Made, HasText, ObjectPhases, LinkPhases
  <2>2. Made' = 0
    BY <1>1 DEF Made, ObjectPhases, LinkPhases
  <2> QED BY <2>1, <2>2, MadeType, Basics
<1>4. /\ fs' \in [DOMAIN fs' -> Files] /\ DOMAIN fs' \subseteq DOMAIN fs
      /\ IsC(In) => Temp(temps - 1) \notin DOMAIN fs'
      /\ \A q, of : ~(IsC(In) /\ q = Temp(temps - 1)) => (Holds(q, of)' <=> Holds(q, of))
  <2>1. CASE IsC(In)
    <3>1. fs' = Without(fs, {Temp(temps - 1)})
      BY <1>1, <2>1
    <3>2. /\ fs' \in [DOMAIN fs' -> Files] /\ DOMAIN fs' = DOMAIN fs \ {Temp(temps - 1)}
          /\ \A q, of : q \notin {Temp(temps - 1)} => (Holds(q, of)' <=> Holds(q, of))
      BY <3>1, Basics, FilesRemoved
    <3> QED BY <2>1, <3>2
  <2>2. CASE ~IsC(In)
    <3>1. fs' = fs
      BY <1>1, <2>2
    <3>2. \A q, of : Holds(q, of)' <=> Holds(q, of)
      BY <3>1 DEF Holds
    <3> QED BY <2>2, <3>1, <3>2, Basics
  <2> QED BY <2>1, <2>2
<1>5. Kept
  BY <1>3, <1>4, Basics, TempNames DEF Kept
<1>6. StateTypeOK'
  <2>1. phase' \in Phases /\ idx' \in Nat \ {0}
    BY <1>1, Basics DEF Phases, StartPhases
  <2> QED BY <1>1, <1>4, <2>1 DEF DriverInv, StateTypeOK, listVars
<1>7. OnItsWay' /\ AtItsInput' /\ Outcome' /\ ListsInUse'
  BY <1>1, <1>2, <1>3, Basics, SteadyStep DEF DriverInv, OnItsWay, AtItsInput, Outcome,
     ListsInUse, InputPhases, ObjectPhases, StartPhases, LinkPhases, listVars
<1>8. Temp(temps) \in Range(temp_objects) /\ link_cmd_args[idx] = Temp(temps)
  BY <1>1, <1>2 DEF DriverInv, ListedInOrder
<1>9. Accounted'
  <2>1. InUse \subseteq {Temp(temps)} \cup (IF IsC(In) THEN {Temp(temps - 1)} ELSE {})
    BY <1>3 DEF InUse
  <2>2. \A p \in InUse : p \in Range(temp_objects) \/ p \notin DOMAIN fs'
    BY <1>4, <1>8, <2>1
  <2> QED BY <1>1, <1>4, <2>2 DEF DriverInv, Accounted, LeftOver, listVars
<1>10. ListedInOrder'
  <2>1. CASE rc = 1
    BY <1>1, <2>1 DEF ListedInOrder
  <2>2. CASE rc = 0
    <3>1. link_cmd_args \in Seq(Paths) /\ Len(link_cmd_args) = idx
      BY <1>1, <1>2, ListedHere
    <3>2. Holds(Temp(temps), <<In>>)
      BY <1>1, <2>2 DEF DriverInv, TextWritten
    <3>3. \A q, of : q = Temp(temps) /\ of = <<In>> => Holds(q, of)'
      BY <1>3, <1>4, <3>2, TempNames
    <3>4. ASSUME NEW m, m = idx PROVE InPlace(m)'
      <4>1. link_cmd_args'[m] = Temp(temps) /\ inputs'[m] = In
        BY <1>1, <1>2, <1>8, <3>4, SteadyStep DEF listVars
      <4>2. Holds(link_cmd_args[m], <<inputs[m]>>)'
        BY <3>3, <4>1
      <4>3. temps \in 1 .. temps' - Made'
        BY <1>1, <1>3
      <4> QED BY <4>1, <4>2, <4>3 DEF InPlace
    <3> QED BY <1>1, <1>2, <1>5, <2>2, <3>1, <3>4, ListGrows DEF listVars
  <2> QED BY <1>1, <2>1, <2>2
<1>11. TextWritten'
  BY <1>1 DEF TextWritten, LinkPhases
<1> QED BY <1>1, <1>2, <1>5, <1>6, <1>7, <1>9, <1>10, <1>11, MiddleStep
        DEF MiddlePhases, LinkPhases

-----------------------------------------------------------------------------
(* The runtime                                                             *)

\* A step of compile_freestanding_runtime: the files of the inputs stay.
LEMMA RuntimeStep ==
    ASSUME DriverInv, Steady, phase \in {"runtime", "runtime_file"},
           phase' \in {"runtime_file", "link"}, idx' \in Nat \ {0},
           UNCHANGED <<backendVars, status, temps, temp_objects, link_cmd_args>>,
           fs' \in [DOMAIN fs' -> Files], ran' \in Seq(Runs), rc' \in {0, 1},
           runtime_objs' \in Seq({RtObject(n) : n \in 1 .. 2}),
           NEW p, p = RtDir \/ \E n \in 1 .. 2 : p = RtObject(n),
           \A q, of : q # p => (Holds(q, of)' <=> Holds(q, of)),
           LeftOver' \subseteq LeftOver \cup {RtDir} \cup Range(runtime_objs'),
           Range(runtime_objs) \subseteq Range(runtime_objs'),
           \A n \in DOMAIN runtime_objs' : \A q : q = runtime_objs'[n] => Source(q)'
    PROVE  DriverInv'
<1>1. Way \in {"single", "loop"} /\ Way' = Way
  BY SteadyStep DEF DriverInv, OnItsWay, LinkPhases
<1>2. Made' = Made
  BY <1>1, SteadyStep DEF Made, ObjectPhases, LinkPhases
<1>3. ~(p \in Arguments) /\ \A j \in Int : p # Temp(j)
  BY Basics, TempNames, RuntimeNames, DirNames
<1>4. Kept
  BY <1>3, MadeType DEF Kept
<1>5. StateTypeOK'
  BY DEF DriverInv, StateTypeOK, Phases, LinkPhases
<1>6. OnItsWay' /\ AtItsInput' /\ Outcome' /\ ListsInUse'
  BY <1>1, <1>2, SteadyStep DEF DriverInv, OnItsWay, AtItsInput, Outcome,
     ListsInUse, InputPhases, ObjectPhases, StartPhases, LinkPhases, NoReturn
<1>7. Accounted'
  BY <1>2 DEF DriverInv, Accounted, InUse
<1>8. ListedInOrder'
  <2>1. Taken' = Taken
    BY SteadyStep DEF Taken, LinkPhases
  <2> QED BY <1>2, <1>4, <2>1, ListStays
<1>9. TextWritten'
  <2>1. Way = "single" => IsC(inputs[1]) /\ Holds(Temp(temps), <<inputs[1]>>)
    BY DEF DriverInv, TextWritten, LinkPhases
  <2>2. \A q, of : q = Temp(temps) /\ of = <<inputs[1]>> /\ Way = "single" => Holds(q, of)'
    BY <1>3, <2>1, Basics
  <2>3. Way = "single" => IsC(inputs[1])' /\ Holds(Temp(temps), <<inputs[1]>>)'
    BY <2>1, <2>2, SteadyStep
  <2>4. \A n \in DOMAIN runtime_objs' : Source(runtime_objs[n])'
    OBVIOUS
  <2> QED BY <1>1, <2>3, <2>4 DEF TextWritten, LinkPhases
<1> QED BY <1>1, <1>4, <1>5, <1>6, <1>7, <1>8, <1>9, MiddleStep DEF MiddlePhases, LinkPhases

LEMMA MakeRuntimeDirInv ==
    ASSUME DriverInv, MakeRuntimeDir
    PROVE  DriverInv'
<1>1. /\ Steady /\ UNCHANGED <<backendVars, status, temps, listVars, ran, rc>>
      /\ phase = "runtime" /\ phase' \in {"runtime_file", "link"} /\ idx' = 1
      /\ fs' = fs \/ fs' = Write(fs, RtDir, Empty)
  BY DEF MakeRuntimeDir, Step, Steady
<1>2. runtime_objs = << >> /\ runtime_objs' = << >> /\ ran' \in Seq(Runs) /\ rc' \in {0, 1}
  BY <1>1 DEF DriverInv, ListsInUse, StateTypeOK, Outcome, listVars
<1>3. /\ fs' \in [DOMAIN fs' -> Files] /\ DOMAIN fs' \subseteq DOMAIN fs \cup {RtDir}
      /\ \A q, of : q # RtDir => (Holds(q, of)' <=> Holds(q, of))
  <2>1. CASE fs' = fs
    BY <2>1, Basics DEF Holds
  <2>2. CASE fs' = Write(fs, RtDir, Empty)
    BY <2>2, Basics, FileWritten, EmptyType
  <2> QED BY <1>1, <2>1, <2>2
<1>4. LeftOver' \subseteq LeftOver \cup {RtDir}
  BY <1>3 DEF LeftOver
<1> QED BY <1>1, <1>2, <1>3, <1>4, RuntimeStep DEF listVars

LEMMA CompileRuntimeFileInv ==
    ASSUME DriverInv, CompileRuntimeFile
    PROVE  DriverInv'
<1>1. /\ Steady /\ UNCHANGED <<backendVars, status, temps, temp_objects, link_cmd_args>>
      /\ phase = "runtime_file" /\ phase' = "runtime_file" /\ idx' = idx + 1 /\ idx \in 1 .. 2
      /\ \/ UNCHANGED <<fs, runtime_objs>>
         \/ /\ fs' = Write(fs, RtObject(idx), File("obj", <<RtObject(idx)>>))
            /\ runtime_objs' = Append(runtime_objs, RtObject(idx))
  BY Basics DEF CompileRuntimeFile, Step, Steady, listVars, RuntimeFiles
<1>2. ran' \in Seq(Runs) /\ rc' \in {0, 1}
  <2>1. /\ rc' \in {0, 1}
        /\ \/ ran' = ran
           \/ \E tool \in {"b1cc", "cc"} : ran' = Append(ran, [tool |-> tool, ins |-> << >>])
    BY DEF CompileRuntimeFile, DriverInv, StateTypeOK, Outcome
  <2>2. \A tool \in {"b1cc", "cc"} : [tool |-> tool, ins |-> << >>] \in Runs
    BY DEF Runs
  <2>3. ran \in Seq(Runs)
    BY DEF DriverInv, StateTypeOK
  <2> QED BY <2>1, <2>2, <2>3
<1>3. PICK p : p = RtObject(idx)
  OBVIOUS
<1>4. /\ runtime_objs \in Seq({RtObject(n) : n \in 1 .. 2})
      /\ \A n \in DOMAIN runtime_objs : Source(runtime_objs[n])
      /\ p \in {RtObject(n) : n \in 1 .. 2} /\ p \in Parts
  BY <1>1, <1>3, RuntimeNames DEF DriverInv, StateTypeOK, TextWritten
<1>5. CASE UNCHANGED <<fs, runtime_objs>>
  <2>1. \A q, of : Holds(q, of)' <=> Holds(q, of)
    BY <1>5 DEF Holds
  <2>2. LeftOver' = LeftOver
    BY <1>5 DEF LeftOver
  <2>3. \A n \in DOMAIN runtime_objs' : \A q : q = runtime_objs'[n] => Source(q)'
    BY <1>4, <1>5, <2>1 DEF Source
  <2>4. fs' \in [DOMAIN fs' -> Files] /\ idx' \in Nat \ {0} /\ p = RtObject(idx) /\ idx \in 1 .. 2
    BY <1>1, <1>3, <1>5, Basics
  <2>5. /\ runtime_objs' \in Seq({RtObject(n) : n \in 1 .. 2})
        /\ Range(runtime_objs) \subseteq Range(runtime_objs')
    BY <1>4, <1>5
  <2> QED BY <1>1, <1>2, <2>1, <2>2, <2>3, <2>4, <2>5, RuntimeStep
<1>6. CASE /\ fs' = Write(fs, RtObject(idx), File("obj", <<RtObject(idx)>>))
           /\ runtime_objs' = Append(runtime_objs, RtObject(idx))
  <2>1. <<p>> \in Seq(Parts)
    BY <1>4
  <2>2. File("obj", <<p>>) \in Files /\ File("obj", <<p>>).of = <<p>>
    BY <2>1, FileType DEF Kinds
  <2>3. /\ fs' \in [DOMAIN fs' -> Files] /\ DOMAIN fs' = DOMAIN fs \cup {p}
        /\ \A q, of : q = p /\ of = <<p>> => Holds(q, of)'
        /\ \A q, of : q # p => (Holds(q, of)' <=> Holds(q, of))
    BY <1>3, <1>6, <2>2, Basics, FileWritten
  <2>4. /\ runtime_objs' \in Seq({RtObject(n) : n \in 1 .. 2})
        /\ Range(runtime_objs') = Range(runtime_objs) \cup {p}
        /\ \A n \in DOMAIN runtime_objs' :
              runtime_objs'[n] = p \/ (n \in DOMAIN runtime_objs
                                       /\ runtime_objs'[n] = runtime_objs[n])
    BY <1>3, <1>4, <1>6, RangeAppend
  <2>5. \A n \in DOMAIN runtime_objs' : \A q : q = runtime_objs'[n] => Source(q)'
    BY <1>4, <2>3, <2>4 DEF Source
  <2>6. LeftOver' \subseteq LeftOver \cup Range(runtime_objs')
    BY <2>3, <2>4 DEF LeftOver
  <2>7. idx' \in Nat \ {0} /\ \E n \in 1 .. 2 : p = RtObject(n)
    BY <1>1, <1>3
  <2> QED BY <1>1, <1>2, <2>3, <2>4, <2>5, <2>6, <2>7, RuntimeStep
<1> QED BY <1>1, <1>5, <1>6

-----------------------------------------------------------------------------
(* The whole of main                                                       *)

\* A step that changes nothing of main but may be one of the backend.
LEMMA MainUnchanged ==
    ASSUME DriverInv, RuntimeAsked, UNCHANGED mainVars, EmitInv',
           status = -1 \/ failures' = failures
    PROVE  DriverInv' /\ RuntimeAsked'
<1>1. Steady /\ UNCHANGED <<phase, idx, fs, temps, temp_objects, link_cmd_args, runtime_objs, ran,
                            rc, status>>
  BY DEF mainVars, Steady, configVars, listVars
<1>2. /\ ConfigTypeOK' /\ FromArguments' /\ StateTypeOK' /\ OnItsWay' /\ AtItsInput' /\ Outcome'
  BY <1>1, SteadyStep DEF DriverInv, StateTypeOK, OnItsWay, AtItsInput, Outcome, In, Steady
<1>3. Made' = Made /\ HasText' = HasText /\ Taken' = Taken
  BY <1>1, SteadyStep DEF Made, HasText, Taken, In, Steady
<1>4. ListsInUse' /\ Accounted' /\ RuntimeAsked'
  BY <1>1, <1>3, SteadyStep DEF DriverInv, ListsInUse, Accounted, InUse, LeftOver, RuntimeAsked,
     RuntimeWanted, Steady
<1>5. \A q, of : Holds(q, of)' <=> Holds(q, of)
  BY <1>1 DEF Holds
<1>6. SourcesKept' /\ TextWritten'
  BY <1>1, <1>3, <1>5, SteadyStep DEF DriverInv, SourcesKept, Source, TextWritten, In, Steady,
     configVars
<1>7. ListedInOrder'
  BY <1>1, <1>3, <1>5, SteadyStep DEF DriverInv, ListedInOrder, InPlace
<1>8. OutputsWritten'
  BY <1>1, <1>5, SteadyStep DEF DriverInv, OutputsWritten, TokensWritten, Written, ImageWritten,
     Steady
<1>9. NothingLeftBehind'
  BY <1>1 DEF DriverInv, NothingLeftBehind, LeftOver, Steady
<1>10. SuccessIsComplete'
  <2>1. CASE status = -1
    BY <1>1, <2>1 DEF SuccessIsComplete
  <2>2. CASE failures' = failures
    BY <1>1, <1>5, <2>2, SteadyStep DEF DriverInv, SuccessIsComplete, Steady
  <2> QED BY <2>1, <2>2
<1> QED BY <1>2, <1>4, <1>6, <1>7, <1>8, <1>9, <1>10 DEF DriverInv

\* Only compile_freestanding_runtime lists runtime objects.
LEMMA RuntimeStaysAsked ==
    ASSUME DriverInv, RuntimeAsked, MainStep
    PROVE  RuntimeAsked'
<1>1. CASE FlagOption \/ OperandOption \/ InputArgument
  BY <1>1 DEF FlagOption, OperandOption, InputArgument, AtOption, NextOption, Quiet, listVars,
     RuntimeAsked, DriverInv, ListsInUse
<1>2. ASSUME UNCHANGED <<opt, runtime_objs>>,
             phase' \in {"runtime", "runtime_file"} =>
                RuntimeWanted \/ phase \in {"runtime", "runtime_file"}
      PROVE  RuntimeAsked'
  BY <1>2 DEF RuntimeAsked, RuntimeWanted
<1>3. CASE OperandMissing \/ Die
  BY <1>2, <1>3 DEF OperandMissing, Die, Fatal, Leave, listVars
<1>4. CASE StartUp
  BY <1>2, <1>4, Basics DEF StartUp, Step, Leave, listVars
<1>5. CASE Compiled \/ MakeTemp \/ PreprocessInput \/ PrintTokens
  BY <1>2, <1>5 DEF Compiled, MakeTemp, PreprocessInput, PrintTokens, Step, Quiet, listVars,
     AfterEmit
<1>6. CASE FinishPreprocess \/ FinishAsm \/ FinishCompile \/ LinkDies \/ CleanUp
  BY <1>2, <1>6 DEF FinishPreprocess, FinishAsm, FinishCompile, LinkDies, CleanUp, Conclude, Leave,
     Quiet, listVars
<1>7. CASE CompileToAsm \/ CompileToObject \/ CompileSingle \/ CompileInLoop
  BY <1>2, <1>7 DEF CompileToAsm, CompileToObject, CompileSingle, CompileInLoop, Compile, Step,
     listVars
<1>8. CASE WriteAsm \/ SkipObject \/ AssembledInput \/ WriteObject
  BY <1>2, <1>8 DEF WriteAsm, SkipObject, AssembledInput, WriteObject, Step, Leave, Quiet,
     listVars
<1>9. CASE AssembleInput \/ SingleForeign \/ LinkInternally \/ AssembleObject \/ Link
  BY <1>2, <1>9 DEF AssembleInput, SingleForeign, LinkInternally, AssembleObject, Link, Run, Step,
     listVars
<1>10. CASE TakeObject \/ PrepareAssembly \/ WriteAsmTemp \/ WriteObjectTemp \/ ListObject
  BY <1>2, <1>10 DEF TakeObject, PrepareAssembly, WriteAsmTemp, WriteObjectTemp, ListObject,
     Listed, Step, Quiet, listVars
<1>11. CASE ObjectDone \/ LoopDone \/ MakeRuntimeDir \/ RuntimeDone
  BY <1>2, <1>11 DEF ObjectDone, LoopDone, MakeRuntimeDir, RuntimeDone, Step, Quiet, listVars
<1>12. CASE CompileRuntimeFile
  BY <1>12 DEF CompileRuntimeFile, Step, RuntimeAsked, RuntimeWanted
<1> QED BY <1>1, <1>3, <1>4, <1>5, <1>6, <1>7, <1>8, <1>9, <1>10, <1>11, <1>12 DEF MainStep

LEMMA MainStepInv ==
    ASSUME DriverInv, RuntimeAsked, MainStep
    PROVE  DriverInv' /\ RuntimeAsked'
<1>1. CASE FlagOption \/ OperandOption \/ InputArgument \/ OperandMissing \/ StartUp \/ Die
  BY <1>1, RuntimeStaysAsked, OptionInv, OperandMissingInv, StartUpInv, DieInv
<1>2. CASE \/ Compiled \/ PreprocessInput \/ SkipObject \/ AssembledInput \/ PrepareAssembly
           \/ LoopDone \/ RuntimeDone
  BY <1>2, RuntimeStaysAsked, QuietInv, AssembledFailInv
<1>3. CASE CompileToAsm \/ CompileToObject \/ CompileSingle \/ CompileInLoop
  BY <1>3, RuntimeStaysAsked, CompileInv
<1>4. CASE PrintTokens \/ WriteAsm \/ WriteObject \/ AssembleInput
  BY <1>4, RuntimeStaysAsked, PrintTokensInv, WriteOutputInv, AssembleInputInv
<1>5. CASE FinishPreprocess \/ FinishAsm \/ FinishCompile \/ CleanUp
  BY <1>5, RuntimeStaysAsked, ConcludeInv, CleanUpInv
<1>6. CASE SingleForeign \/ LinkInternally \/ LinkDies \/ Link
  BY <1>6, RuntimeStaysAsked, SingleForeignInv, LinkInternallyInv, LinkDiesInv, LinkInv
<1>7. CASE MakeTemp \/ TakeObject \/ WriteAsmTemp \/ WriteObjectTemp
  BY <1>7, RuntimeStaysAsked, MakeTempInv, TakeObjectInv, WriteAsmTempInv, WriteObjectTempInv
<1>8. CASE ListObject \/ AssembleObject \/ ObjectDone
  BY <1>8, RuntimeStaysAsked, ListObjectInv, AssembleObjectInv, ObjectDoneInv
<1>9. CASE MakeRuntimeDir \/ CompileRuntimeFile
  BY <1>9, RuntimeStaysAsked, MakeRuntimeDirInv, CompileRuntimeFileInv
<1> QED BY <1>1, <1>2, <1>3, <1>4, <1>5, <1>6, <1>7, <1>8, <1>9 DEF MainStep

LEMMA NextInv ==
    ASSUME DriverInv, RuntimeAsked, [Next]_vars
    PROVE  DriverInv' /\ RuntimeAsked'
<1>1. CASE MainStep
  BY <1>1, MainStepInv
<1>2. CASE EmitThreads
  <2>1. EmitInv' /\ status = -1
    BY <1>2, EmitStepInv DEF EmitThreads, DriverInv, Outcome
  <2> QED BY <1>2, <2>1, MainUnchanged DEF EmitThreads
<1>3. CASE Exited \/ UNCHANGED vars
  <2>1. UNCHANGED mainVars /\ UNCHANGED backendVars /\ failures' = failures
    BY <1>3 DEF Exited, vars, backendVars, emitVars
  <2>2. EmitInv'
    BY <2>1, EmitStutterInv DEF DriverInv
  <2> QED BY <2>1, <2>2, MainUnchanged
<1> QED BY <1>1, <1>2, <1>3 DEF Next

LEMMA DriverInvariant == Spec => [](DriverInv /\ RuntimeAsked)
<1>1. Init => DriverInv /\ RuntimeAsked
  BY InitInv DEF Init, RuntimeAsked
<1>2. (DriverInv /\ RuntimeAsked) /\ [Next]_vars => (DriverInv /\ RuntimeAsked)'
  BY NextInv
<1> QED BY <1>1, <1>2, PTL DEF Spec

-----------------------------------------------------------------------------
(* Theorems                                                                *)

(* backend_compile_asm, called by main for any of its inputs, appends the  *)
(* code of the functions it could start in the order of the program.       *)
THEOREM DriverEmitsInOrder == Spec => []InProgramOrder
<1>1. DriverInv => InProgramOrder
  BY EmitInvOrder DEF DriverInv
<1> QED BY <1>1, DriverInvariant, PTL

(* The variables of main keep their types: the exit status is 0 or 1, the  *)
(* temporary objects are files of mkstemps, the options are those of the   *)
(* command line.                                                           *)
THEOREM DriverTypeCorrect == Spec => [](ConfigTypeOK /\ StateTypeOK)
<1>1. DriverInv => ConfigTypeOK /\ StateTypeOK
  BY DEF DriverInv
<1> QED BY <1>1, DriverInvariant, PTL

(* Whatever the command line and whatever fails, a run of main that        *)
(* returns 0, or whose tool returned a failure short of -c, has removed    *)
(* every temporary file it made but the directory of the runtime objects;  *)
(* one that the internal linker ended has left its object and the headers. *)
THEOREM TemporariesRemoved == Spec => []NothingLeftBehind
<1>1. DriverInv => NothingLeftBehind
  BY DEF DriverInv
<1> QED BY <1>1, DriverInvariant, PTL

(* Whatever the command line, exit status 0 of main means that the output  *)
(* is there and holds the inputs, each once and in their order.            *)
THEOREM SuccessMeansOutput == Spec => []SuccessIsComplete
<1>1. DriverInv => SuccessIsComplete
  BY DEF DriverInv
<1> QED BY <1>1, DriverInvariant, PTL

\* A command whose files hold code finds them.
LEMMA GivenFiles ==
    ASSUME DriverInv, NEW tool, NEW ins, ran' = Append(ran, [tool |-> tool, ins |-> ins]),
           \A n \in DOMAIN ins : \E x : Holds(ins[n], <<x>>)
    PROVE  \A p \in Range(ran'[Len(ran')].ins) : p \in DOMAIN fs /\ fs[p] # Empty
<1>1. ran'[Len(ran')].ins = ins
  <2>1. ran \in Seq(Runs)
    BY DEF DriverInv, StateTypeOK
  <2>2. ran'[Len(ran')] = [tool |-> tool, ins |-> ins]
    BY <2>1
  <2> QED BY <2>2
<1>2. \A p, x : Holds(p, <<x>>) => p \in DOMAIN fs /\ fs[p] # Empty
  BY EmptyType DEF Holds
<1> QED BY <1>1, <1>2 DEF Range

LEMMA InputsFound ==
    ASSUME DriverInv, Next, ran' # ran
    PROVE  \A p \in Range(ran'[Len(ran')].ins) : p \in DOMAIN fs /\ fs[p] # Empty
<1>1. \/ AssembleInput \/ SingleForeign \/ LinkInternally \/ LinkDies \/ AssembleObject
      \/ Link \/ CompileRuntimeFile
  <2>1. CASE MainStep
    BY <2>1 DEF MainStep, FlagOption, OperandOption, InputArgument, OperandMissing, StartUp, Die,
       NextOption, Fatal, Compiled, MakeTemp, PreprocessInput, PrintTokens, FinishPreprocess,
       FinishAsm, FinishCompile, CleanUp, Conclude, CompileToAsm, CompileToObject, CompileSingle,
       CompileInLoop, Compile, WriteAsm, SkipObject, AssembledInput, WriteObject, TakeObject,
       PrepareAssembly, WriteAsmTemp, WriteObjectTemp, ListObject, ObjectDone, LoopDone,
       MakeRuntimeDir, RuntimeDone, Quiet
  <2>2. CASE EmitThreads \/ Exited
    BY <2>2 DEF EmitThreads, Exited, vars, mainVars
  <2> QED BY <2>1, <2>2 DEF Next
<1>2. ASSUME NEW q, NEW x, Holds(q, <<x>>),
             \E tool, dest, kind : Run(tool, <<q>>, dest, kind)
      PROVE  \A p \in Range(ran'[Len(ran')].ins) : p \in DOMAIN fs /\ fs[p] # Empty
  <2>1. \E tool : ran' = Append(ran, [tool |-> tool, ins |-> <<q>>])
    BY <1>2 DEF Run
  <2>2. \A n \in DOMAIN <<q>> : Holds(<<q>>[n], <<x>>)
    BY <1>2
  <2> QED BY <2>1, <2>2, GivenFiles
<1>3. CASE AssembleInput
  <2>1. Source(In)
    BY <1>3, Basics DEF AssembleInput, AtInput, In, DriverInv, OnItsWay, SourcesKept
  <2> QED BY <1>2, <1>3, <2>1 DEF AssembleInput, Source
<1>4. CASE SingleForeign
  <2>1. Source(In)
    BY <1>4, Basics DEF SingleForeign, AtInput, In, DriverInv, OnItsWay, SourcesKept
  <2> QED BY <1>2, <1>4, <2>1 DEF SingleForeign, Source
<1>5. CASE LinkInternally \/ LinkDies
  <2>1. Holds(Temp(temps), <<inputs[1]>>)
    BY <1>5 DEF LinkInternally, LinkDies, DriverInv, TextWritten, LinkPhases
  <2>2. ran' = Append(ran, [tool |-> "elf_link", ins |-> <<Temp(temps)>>])
    BY <1>5 DEF LinkInternally, LinkDies, Run
  <2>3. \A q : \A n \in DOMAIN <<q>> : <<q>>[n] = q
    OBVIOUS
  <2>4. \A n \in DOMAIN <<Temp(temps)>> : \E x : Holds(<<Temp(temps)>>[n], <<x>>)
    BY <2>1, <2>3, Zenon
  <2> QED BY <2>2, <2>4, GivenFiles
<1>6. CASE AssembleObject
  <2>1. Holds(AssemblySource, <<In>>)
    BY <1>6, AssemblySourceHeld DEF AssembleObject
  <2> QED BY <1>2, <1>6, <2>1 DEF AssembleObject, AssemblySource
<1>7. CASE Link
  <2>1. \E tool : ran' = Append(ran, [tool |-> tool, ins |-> LinkFiles \o runtime_objs])
    BY <1>7 DEF Link, LinkFiles, Run
  <2>2. /\ LinkFiles \in Seq(Paths) /\ runtime_objs \in Seq(Paths)
        /\ \A n \in 1 .. Len(LinkFiles) : Holds(LinkFiles[n], <<inputs[n]>>)
        /\ \A n \in 1 .. Len(runtime_objs) : Holds(runtime_objs[n], <<runtime_objs[n]>>)
    BY <1>7, LinkFilesHeld DEF Link, Source
  <2>3. \A n \in DOMAIN (LinkFiles \o runtime_objs) :
           \/ /\ n \in 1 .. Len(LinkFiles) /\ (LinkFiles \o runtime_objs)[n] = LinkFiles[n]
           \/ /\ n - Len(LinkFiles) \in 1 .. Len(runtime_objs)
              /\ (LinkFiles \o runtime_objs)[n] = runtime_objs[n - Len(LinkFiles)]
    BY <2>2
  <2>4. \A n \in DOMAIN (LinkFiles \o runtime_objs) :
           \E x : Holds((LinkFiles \o runtime_objs)[n], <<x>>)
    BY <2>2, <2>3
  <2> QED BY <2>1, <2>4, GivenFiles
<1>8. CASE CompileRuntimeFile
  <2>1. \E tool : ran' = Append(ran, [tool |-> tool, ins |-> << >>])
    BY <1>8 DEF CompileRuntimeFile
  <2>2. DOMAIN << >> = {}
    OBVIOUS
  <2> QED BY <2>1, <2>2, GivenFiles
<1> QED BY <1>1, <1>3, <1>4, <1>5, <1>6, <1>7, <1>8

(* Every command main gives to system() or to the linker names files that  *)
(* are there and have been written, however the steps before it went.      *)
THEOREM CommandsGivenFiles == Spec => CommandsFindInputs
<1>1. DriverInv /\ [Next]_vars =>
        [ran' # ran => \A p \in Range(ran'[Len(ran')].ins) :
                          p \in DOMAIN fs /\ fs[p] # Empty]_vars
  BY InputsFound
<1> QED BY <1>1, DriverInvariant, PTL DEF Spec, CommandsFindInputs
=============================================================================
