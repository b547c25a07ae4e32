------------------------------ MODULE Codegen ------------------------------
(***************************************************************************)
(* From a source function to what its compiled code does: the instructions *)
(* that Parse and LowerFunc make of the function, the pass of IrOpt over   *)
(* them, and the execution of the assembly that emit_function of           *)
(* src/backend_x86_64.c or src/backend_arm64.c writes for what is left.    *)
(*                                                                         *)
(* Both backends keep the evaluation stack of the intermediate code on the *)
(* machine's stack, above the frame.  A word is its signed value (CInt); a *)
(* global is the unsigned value of its bytes.  Where the two machines do   *)
(* the same with one instruction each, one definition stands for both.     *)
(***************************************************************************)
EXTENDS IrOpt, Lowering, CSemantics, FiniteSets

CONSTANTS
    Functions,   \* the functions to be compiled,
    Source,      \* and their sources, [params, globals, ret, body]
    Targets,     \* the machines each of them is compiled for
    ArgWords,    \* words that arguments and globals may hold at the start
    InputValues, \* what in() may return,
    HighBits,    \* the upper half of the register when it does,
    MaxInputs,   \* and how often it does before it waits for ever
    Junk         \* a register or slot that nobody has set

ASSUME BoundsAssumption == MaxInputs \in Nat /\ Junk = Word(Junk)

VARIABLES
    fn,          \* the function compiled: its slots are the first names of
    locals,      \* locals, and frame tells whether the backend gives it
    frame,       \* a frame
    target,      \* "x86_64" or "arm64"
    status,      \* "compile", "run", or how the program ended
    pc,          \* index in new_code of the next instruction
    eval,        \* the evaluation stack, its top last
    slots,       \* the locals of the frame
    globals,
    args,        \* the words that parameters and globals started with
    inputs, outs,
    result       \* %rax or x0 when the function returned

unit == <<fn, locals, frame, target>>
runVars == <<unit, status, pc, eval, slots, globals, args, inputs, outs, result>>
vars == <<optVars, runVars>>

-----------------------------------------------------------------------------
(* The instructions                                                        *)

F == Source[fn]

Cur == code[new_code[pc]]
AtInstruction == status = "run" /\ pc <= Len(new_code)
At(ops) == AtInstruction /\ Cur.op \in ops

Top == eval[Len(eval)]
Under == eval[Len(eval) - 1]
Below(k) == SubSeq(eval, 1, Len(eval) - k)

\* The position after the label that a jump names.
Target == 1 + CHOOSE m \in 1 .. Len(new_code) :
                  LET t == code[new_code[m]] IN t.op = "label" /\ t.arg = Cur.arg

UnsignedWord(w) == Zext(w, WordSize)

\* The shifts of both machines take the count modulo the bits of a word.
Count(b) == UnsignedWord(b) % Bits(WordSize)
ShiftLeft(a, n) == LET low == n % 8 IN Word(Word(a * 2^low) * 2^(n - low))

Shifted(op, a, b) ==
    CASE op = "<<"  -> ShiftLeft(a, Count(b))
      [] op = ">>"  -> a \div 2^Count(b)
      [] op = "u>>" -> Word(UnsignedWord(a) \div 2^Count(b))

X86Divided(op, a, b) ==
    CASE op = "/"  -> Quot(a, b)
      [] op = "%"  -> Rem(a, b)
      [] op = "u/" -> Word(UnsignedWord(a) \div UnsignedWord(b))
      [] op = "u%" -> Word(UnsignedWord(a) % UnsignedWord(b))

\* sdiv does not fault, it wraps; the remainder is what msub leaves of the
\* dividend.
ArmDivided(op, a, b) ==
    LET q == Word(IF op \in {"/", "%"} THEN Quot(a, b) ELSE UnsignedWord(a) \div UnsignedWord(b))
    IN  IF op \in {"/", "u/"} THEN q ELSE Word(a - q * b)

Divided(op, a, b) == IF target = "arm64" THEN ArmDivided(op, a, b) ELSE X86Divided(op, a, b)

X86Compared(op, a, b) ==
    LET x == UnsignedWord(a)
        y == UnsignedWord(b)
    IN  Truth(CASE op = "==" -> a = b  [] op = "!=" -> a # b
                [] op = "<"  -> a < b  [] op = ">"  -> a > b
                [] op = "<=" -> a <= b [] op = ">=" -> a >= b
                [] op = "u<"  -> x < y  [] op = "u>"  -> x > y
                [] op = "u<=" -> x <= y [] op = "u>=" -> x >= y)

\* cmp sets the flags from the difference, and cset reads the condition off
\* them: eq, ne, lt, ge, le, gt, lo, hs, ls, hi.
Flags(a, b) ==
    [n |-> Word(a - b) < 0, z |-> a = b,
     c |-> UnsignedWord(a) >= UnsignedWord(b), v |-> Word(a - b) # a - b]
ArmCompared(op, a, b) ==
    LET f == Flags(a, b)
    IN  Truth(CASE op = "==" -> f.z                [] op = "!=" -> ~f.z
                [] op = "<"  -> f.n # f.v          [] op = ">=" -> f.n = f.v
                [] op = "<=" -> f.z \/ f.n # f.v   [] op = ">"  -> ~f.z /\ f.n = f.v
                [] op = "u<" -> ~f.c               [] op = "u>=" -> f.c
                [] op = "u<=" -> ~f.c \/ f.z       [] op = "u>" -> f.c /\ ~f.z)

Compared(op, a, b) == IF target = "arm64" THEN ArmCompared(op, a, b) ELSE X86Compared(op, a, b)

Combined(op, a, b) ==
    CASE op = "+" -> Word(a + b)
      [] op = "-" -> Word(a - b)
      [] op = "*" -> Word(a * b)
      [] op \in {"&", "|", "^"} -> BitOp(op, a, b)

CompareOps  == Compare \cup {"u<", "u>", "u<=", "u>="}
ShiftOps    == {"<<", ">>", "u>>"}
DivideOps   == {"/", "%", "u/", "u%"}
CombineOps  == {"+", "-", "*", "&", "|", "^"}
UnaryOps    == {"~", "neg", "!", "cast", "ucast"}

UnaryResult(inst, a) ==
    CASE inst.op = "~"     -> -a - 1
      [] inst.op = "neg"   -> Word(-a)
      [] inst.op = "!"     -> Truth(a = 0)
      [] inst.op = "cast"  -> Sext(a, inst.value)
      [] inst.op = "ucast" -> Zext(a, inst.value)

\* movz and movk build a constant two bytes at a time; chunks of zeros are
\* left out, movz having cleared them.
Chunk(v, k) == (UnsignedWord(v) \div 2^(k * Bits(2))) % 2^Bits(2)
ArmConst(v) ==
    LET movk(x, k) == IF Chunk(v, k) = 0 THEN x ELSE x + Chunk(v, k) * 2^(k * Bits(2))
    IN  IF v \in 0 .. 2^Bits(2) - 1 THEN v
        ELSE Word(movk(movk(movk(Chunk(v, 0), 1), 2), 3))

Constant(v) == IF target = "arm64" THEN ArmConst(v) ELSE v

\* The load of a global extends it to a word, but for a signed byte: movsbl
\* extends it to 4 bytes and clears the rest of %rax.
X86Extended(bytes, t) ==
    IF t = TypeNamed.char THEN Zext(Sext(bytes, 1), 4) ELSE Word(Conv(bytes, t))

\* ldrsb, ldrsh and ldrsw extend to the whole register, and what is written
\* to a w register is cleared above.
ArmExtended(bytes, t) == Word(Conv(bytes, t))

Extended(bytes, t) ==
    IF target = "arm64" THEN ArmExtended(bytes, t) ELSE X86Extended(bytes, t)

\* What the prologue stores of an argument register: on arm64 it is cut to
\* the size of the parameter first (emit_narrow_int_to_x8).
Narrowed(w, t) == IF t.size < WordSize THEN Conv(w, t) ELSE w
Arrived(machine, w, t) == IF machine = "arm64" THEN Narrowed(w, t) ELSE w

-----------------------------------------------------------------------------
Init ==
    /\ fn \in Functions
    /\ LET l == LowerFunc(Source[fn])
       IN  /\ code = l.code
           /\ locals = l.locals
           /\ frame = (l.has_call \/ l.locals # << >>)
    /\ i = 1 /\ unreachable = FALSE /\ new_code = << >>
    /\ target = "none" /\ status = "compile" /\ pc = 0
    /\ eval = << >> /\ slots = << >> /\ globals = << >> /\ args = << >>
    /\ inputs = << >> /\ outs = << >> /\ result = Junk

Optimise == status = "compile" /\ Visit /\ UNCHANGED runVars

\* The code for one of the targets is called: its prologue stores the
\* arguments in their slots.
Start ==
    /\ status = "compile" /\ Finished
    /\ status' = "run" /\ pc' = 1 /\ target' \in Targets[fn]
    /\ args' \in [{F.params[k] : k \in DOMAIN F.params} \cup F.globals -> ArgWords]
    /\ slots' = [k \in DOMAIN locals |->
                    IF k > Len(F.params) THEN Junk
                    ELSE Arrived(target', args'[F.params[k]], VarType[F.params[k]])]
    /\ globals' = [x \in F.globals |-> Zext(args'[x], VarType[x].size)]
    /\ UNCHANGED <<optVars, fn, locals, frame, eval, inputs, outs, result>>

\* One instruction leaves the stack e and control goes to position next.
Proceed(e, next) ==
    eval' = e /\ pc' = next /\ UNCHANGED <<optVars, unit, status, args, result>>

Silent == UNCHANGED <<slots, globals, inputs, outs>>

Const == At({"const"}) /\ Proceed(Append(eval, Constant(Cur.value)), pc + 1) /\ Silent
Load  == At({"load"}) /\ Proceed(Append(eval, slots[Cur.value + 1]), pc + 1) /\ Silent
Dup   == At({"dup"}) /\ Proceed(Append(eval, Top), pc + 1) /\ Silent
Pop   == At({"pop"}) /\ Proceed(Below(1), pc + 1) /\ Silent

Store ==
    /\ At({"store"})
    /\ slots' = [slots EXCEPT ![Cur.value + 1] = Top]
    /\ Proceed(Below(1), pc + 1)
    /\ UNCHANGED <<globals, inputs, outs>>

Binary(ops, Result(_, _, _)) ==
    At(ops) /\ Proceed(Append(Below(2), Result(Cur.op, Under, Top)), pc + 1) /\ Silent

Combining == Binary(CombineOps, Combined)
Shifting  == Binary(ShiftOps, Shifted)
Comparing == Binary(CompareOps, Compared)

Unary == At(UnaryOps) /\ Proceed(Append(Below(1), UnaryResult(Cur, Top)), pc + 1) /\ Silent

Jz    == At({"jz"}) /\ Proceed(Below(1), IF Top = 0 THEN Target ELSE pc + 1) /\ Silent
Jmp   == At({"jmp"}) /\ Proceed(eval, Target) /\ Silent
AtLabel == At({"label"}) /\ Proceed(eval, pc + 1) /\ Silent

Gload ==
    /\ At({"gload"})
    /\ LET x == Cur.arg[1] IN Proceed(Append(eval, Extended(globals[x], VarType[x])), pc + 1)
    /\ Silent

Gstore ==
    /\ At({"gstore"})
    /\ LET x == Cur.arg[1] IN globals' = [globals EXCEPT ![x] = Zext(Top, VarType[x].size)]
    /\ Proceed(Below(1), pc + 1)
    /\ UNCHANGED <<slots, inputs, outs>>

\* The program ends.
End(how, rax) ==
    /\ status' = how /\ result' = rax
    /\ UNCHANGED <<optVars, unit, pc, eval, slots, globals, args, inputs, outs>>

\* idivq faults when the quotient does not fit.
Faults == target = "x86_64" /\ Cur.op \in {"/", "%"} /\ Top = -1 /\ Under = Word(-Under) /\ Under # 0

DivideByZero == At(DivideOps) /\ Top = 0 /\ End("abort", Junk)
DivideFault  == At(DivideOps) /\ Faults /\ End("fault", Junk)
Divide ==
    /\ At(DivideOps) /\ Top # 0 /\ ~Faults
    /\ Proceed(Append(Below(2), Divided(Cur.op, Under, Top)), pc + 1)
    /\ Silent

Trap == At({"trap"}) /\ End("trap", Junk)

\* The arguments are popped into registers, and %rax or x0 is pushed.
AtCall(f) == At({"call"}) /\ Cur.arg[1] = f

CallIn ==
    /\ AtCall("in") /\ Len(inputs) < MaxInputs
    /\ \E v \in InputValues, h \in HighBits :
          /\ inputs' = Append(inputs, v)
          /\ Proceed(Append(eval, Word(Zext(v, 4) + h * 2^Bits(4))), pc + 1)
    /\ UNCHANGED <<slots, globals, outs>>

CallInStarves == AtCall("in") /\ Len(inputs) = MaxInputs /\ End("starved", Junk)

CallOut ==
    /\ AtCall("out")
    /\ outs' = Append(outs, Top)
    /\ Proceed(Append(Below(1), Junk), pc + 1)
    /\ UNCHANGED <<slots, globals, inputs>>

\* popq %rax; leave, if there is a frame; ret.  Without a frame, the return
\* address is where the evaluation stack ends; on arm64, where it is in x30,
\* the caller gets a stack pointer that is not the one it had.
Ret ==
    /\ At({"ret"})
    /\ End(IF frame \/ Len(eval) = 1 THEN "returned" ELSE "lost",
           IF eval = << >> THEN Junk ELSE Top)

\* The return that emit_function adds at the end of the function.
FallOff ==
    /\ status = "run" /\ pc = Len(new_code) + 1
    /\ End(IF frame \/ eval = << >> THEN "returned" ELSE "lost", Junk)

Ended == status \notin {"compile", "run"}
Terminated == Ended /\ UNCHANGED vars

Next ==
    \/ Optimise \/ Start
    \/ Const \/ Load \/ Store \/ Dup \/ Pop
    \/ Combining \/ Shifting \/ Comparing \/ Divide \/ DivideByZero \/ DivideFault
    \/ Unary \/ Jz \/ Jmp \/ AtLabel \/ Gload \/ Gstore
    \/ CallIn \/ CallInStarves \/ CallOut \/ Trap \/ Ret \/ FallOff
    \/ Terminated

Spec == Init /\ [][Next]_vars /\ WF_vars(Next)

-----------------------------------------------------------------------------
(* Properties                                                              *)

\* What the source means for the arguments and inputs of this behaviour.
Expected ==
    LET start(x) == IF x \in DOMAIN args THEN Conv(args[x], VarType[x]) ELSE 0
    IN  Meaning(F, [x \in DOMAIN VarType |-> start(x)], inputs, ReturnType(F))

\* The program ended as the meaning m says.
Agrees(m) ==
    m.stop # "open" =>
        /\ status = IF m.stop = "" THEN "returned" ELSE m.stop
        /\ outs = m.out
        /\ \A x \in F.globals : globals[x] = Zext(m.env[x], VarType[x].size)
        /\ m.go = "return" /\ F.ret # "void" => result = m.val

(***************************************************************************)
(* The compiled function does what C says of its source: it ends in the    *)
(* same way, returns the same value, and leaves the same outputs and       *)
(* globals, through every conversion, jump and short circuit.  What C      *)
(* leaves open is not compared, nor is the value of a function that ends   *)
(* without a return.                                                       *)
(***************************************************************************)
MatchesSource == Ended => Agrees(Expected)

\* The labels that an expression puts between the operands it has pushed.
ExpressionLabels ==
    {"and_false", "and_end", "or_false_or", "or_false", "or_end", "ternary_false", "ternary_end"}

Needs(inst) ==
    CASE inst.op \in CombineOps \cup ShiftOps \cup CompareOps \cup DivideOps -> 2
      [] inst.op \in {"const", "load", "gload", "label", "jmp", "trap"} -> 0
      [] inst.op = "call" -> inst.value
      [] inst.op = "ret" -> IF F.ret = "void" THEN 0 ELSE 1
      [] OTHER -> 1

(***************************************************************************)
(* The evaluation stack is balanced: no instruction pops more than has     *)
(* been pushed since the frame was set up, and control reaches a label of  *)
(* a statement, by whatever path, with nothing left on it.  The backend    *)
(* never resets the stack pointer, so that a word left behind by a loop    *)
(* would move it further with every round.                                 *)
(***************************************************************************)
EvalBalanced ==
    AtInstruction =>
        /\ Len(eval) >= Needs(Cur)
        /\ Cur.op = "label" /\ Cur.arg[1] \notin ExpressionLabels => eval = << >>

(***************************************************************************)
(* The compiled program comes to an end, as the sources do: no jump of the *)
(* compiler closes a cycle that the source does not have.  (The processor  *)
(* goes on to the next instruction, hence the fairness of Next.)           *)
(***************************************************************************)
Halts == <>Ended
=============================================================================
