-------------------------------- MODULE IrOpt --------------------------------
(***************************************************************************)
(* ir_optimize_function of src/ir_opt.c: one pass over the instructions of *)
(* a function drops those that follow an unconditional transfer of control *)
(* up to the next label.  new_code holds the positions of the instructions *)
(* pushed on the new array, in the order in which they were pushed.        *)
(***************************************************************************)
EXTENDS Integers, Sequences

CONSTANT Codes   \* the instructions, [op, arg, value], of the functions it is given

ASSUME CodesAssumption == \A c \in Codes : Len(c) \in Nat

VARIABLES code, i, unreachable, new_code

optVars == <<code, i, unreachable, new_code>>

-----------------------------------------------------------------------------
(* Control flow of the instructions                                        *)

Transfers == {"ret", "ret64", "jmp", "trap"}
Jumps == {"jmp", "jz"}

Size == Len(code)
Op(j) == code[j].op
IsLabel(j) == Op(j) = "label"

\* The instructions control may be at after instruction j.
Flow(j) ==
    {b \in 1 .. Size :
        \/ Op(j) \notin Transfers /\ b = j + 1
        \/ Op(j) \in Jumps /\ IsLabel(b) /\ code[b].arg = code[j].arg}

-----------------------------------------------------------------------------
OptInit ==
    /\ code \in Codes
    /\ i = 1 /\ unreachable = FALSE /\ new_code = << >>

\* The instruction at i is unreachable: a label ends the unreachable stretch.
Dead == unreachable /\ ~IsLabel(i)

\* A conditional jump taken for an unconditional one.
Visit_afterJz ==
    /\ i <= Size
    /\ i' = i + 1
    /\ new_code' = IF Dead THEN new_code ELSE Append(new_code, i)
    /\ unreachable' = (Dead \/ Op(i) \in Transfers \cup {"jz"})
    /\ UNCHANGED code

\* One iteration of the loop.
Visit ==
    /\ i <= Size
    /\ i' = i + 1
    /\ new_code' = IF Dead THEN new_code ELSE Append(new_code, i)
    /\ unreachable' = (Dead \/ Op(i) \in Transfers)
    /\ UNCHANGED code

OptSpec == OptInit /\ [][Visit]_optVars

Finished == i = Size + 1

-----------------------------------------------------------------------------
Pushed == {new_code[m] : m \in 1 .. Len(new_code)}

OptTypeOK ==
    /\ Size \in Nat
    /\ i \in 1 .. Size + 1
    /\ unreachable \in BOOLEAN
    /\ new_code \in Seq(1 .. Size)

\* Of what has been visited so far, the first instruction is kept, and so is
\* every instruction that a kept one can pass control to.
NoneLost ==
    /\ i > 1 => 1 \in Pushed
    /\ \A j \in Pushed : \A b \in Flow(j) : b < i => b \in Pushed

\* The kept instructions stay in order, and where one of them falls through,
\* the one after it in the new array is the one that followed it in the old.
FallsThroughInPlace ==
    \A m \in 1 .. Len(new_code) :
        /\ m < Len(new_code) => new_code[m] < new_code[m + 1]
        /\ Op(new_code[m]) \notin Transfers =>
              IF m < Len(new_code) THEN new_code[m + 1] = new_code[m] + 1
              ELSE new_code[m] = i - 1

(***************************************************************************)
(* No instruction that control can reach is lost, and control never falls  *)
(* through a gap into other code or off the end of the function early.     *)
(* (ir_opt.c drops whatever its flag says is unreachable, without looking  *)
(* for the jumps that lead there.)                                         *)
(***************************************************************************)
FlowIsKept == NoneLost /\ FallsThroughInPlace
=============================================================================
