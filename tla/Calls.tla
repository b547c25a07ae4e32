------------------------------- MODULE Calls -------------------------------
(***************************************************************************)
(* One call between two compiled functions: the code that IR_CALL and      *)
(* IR_ICALL become in src/backend_x86_64.c and src/backend_arm64.c, the    *)
(* prologue of the function called, its return, and the code that takes    *)
(* the result.  Caller and callee each work out on their own, from the     *)
(* signature, where every argument and the result travel.                  *)
(*                                                                         *)
(* Memory and registers hold words of two 4-byte halves.  A half is named  *)
(* by the value it belongs to (an argument's number, or Ret) and its place *)
(* there: what arrives is compared by name.  The caller's stack is counted *)
(* in words, downwards from 0.                                             *)
(***************************************************************************)
EXTENDS Integers, Sequences, Functions

CONSTANT Signatures  \* [target, params, ret, varargs, ptr]

VARIABLES
    sig,       \* the signature of the function called
    phase, k,  \* the step of the call, and the argument it is at
    sp, mem,   \* the stack: its pointer, and the words written
    regs,      \* the argument registers, by place
    reserved,  \* words taken from the stack for arguments
    params,    \* what the callee holds of its parameters,
    va,        \* and of its variable arguments
    ret,       \* the registers of the result: general, vector and x87
    got        \* the result that the caller stores

vars == <<sig, phase, k, sp, mem, regs, reserved, params, va, ret, got>>

-----------------------------------------------------------------------------
(* Types: an aggregate has a size, and a float class if all its fields     *)
(* are floats of one size (elem, count) or its two eightbytes differ       *)
(* (mixed, 2 for SSE); a scalar has size 0, and its width if it floats.    *)

Scalar(float) == [agg |-> 0, float |-> float, elem |-> 0, count |-> 0, mixed |-> << >>]
Struct(size) == [Scalar(0) EXCEPT !.agg = size]
Homogeneous(elem, count) == [Struct(elem * count) EXCEPT !.elem = elem, !.count = count]
Mixed(a, b) == [Struct(16) EXCEPT !.mixed = <<a, b>>]

IsMixed(t) == t.mixed # << >>
IsInteger(t) == t = Scalar(0)
IsLongDouble(t) == t.float >= 12
WordsOf(size) == (size + 7) \div 8
Words(t) == IF t.agg > 0 THEN WordsOf(t.agg) ELSE 1
SseSlots(t) == WordsOf(t.elem * t.count)

\* Aggregates of whole halves; a long double is 16 bytes, on x86-64 alone.
IsType(t, target) ==
    \/ t \in {Scalar(0), Scalar(4), Scalar(8)}
    \/ target = "x86_64" /\ t = Scalar(16)
    \/ t.agg \in Nat \ {0} /\ t.agg % 4 = 0 /\ t = Struct(t.agg)
    \/ \E elem \in {4, 8}, count \in 1 .. 4 : t = Homogeneous(elem, count)
    \/ t \in {Mixed(1, 2), Mixed(2, 1)}

\* The backends know of no aggregates when the call is through a pointer.  A
\* variadic function is called by name, with integers.  The thirtieth integer
\* of a call would be popped into the frame pointer of arm64, x29.
MaxArguments == 29
IsSignature(s) ==
    /\ s.target \in {"x86_64", "arm64"} /\ s.ptr \in BOOLEAN
    /\ s.params \in Seq(Range(s.params)) /\ Len(s.params) <= MaxArguments
    /\ \A t \in Range(s.params) \cup {s.ret} : IsType(t, s.target)
    /\ s.varargs \in 0 .. Len(s.params) /\ (s.varargs > 0 => s.varargs < Len(s.params))
    /\ s.ptr => s.varargs = 0 /\ \A t \in Range(s.params) \cup {s.ret} : t.agg = 0
    /\ s.varargs > 0 => \A t \in Range(s.params) : IsInteger(t)

ASSUME SignatureAssumption == \A s \in Signatures : IsSignature(s)

Arm == sig.target = "arm64"
Params == sig.params
N == Len(Params)  \* arguments, the variable ones included
Fixed == N - sig.varargs
HasFloat == sig.ret.float > 0 \/ \E i \in 1 .. N : Params[i].float > 0
HasAggregate == \E i \in 1 .. N : Params[i].agg > 0

Path ==
    IF HasFloat /\ ~HasAggregate /\ sig.ret.agg = 0 THEN "scalar"
    ELSE IF Arm /\ sig.varargs > 0 /\ ~HasAggregate /\ sig.ret.agg <= 16 THEN "vararg"
    ELSE IF HasAggregate \/ sig.ret.agg > 0 THEN "aggregate"
    ELSE "plain"

Indirect == sig.ret.agg > 16

-----------------------------------------------------------------------------
(* Values                                                                  *)

Ret == -1
Junk == <<0, 0>>
JunkWord == <<Junk, Junk>>
Pointer(n) == <<<<n, -1>>, <<n, -2>>>>
WordOf(n, w) == <<<<n, 2 * w + 1>>, <<n, 2 * w + 2>>>>
IsPointer(word) == word[1][2] = -1
Pointee(word) == word[1][1]

\* cvtsd2ss and fcvt: to a single, and back.
Narrow(word) == <<<<word[1][1], -3>>, Junk>>
Widen(word) == IF word[1][2] = -3 THEN WordOf(word[1][1], 0) ELSE JunkWord

HalvesOf(t) ==
    CASE t.agg > 0 -> t.agg \div 4
      [] IsLongDouble(t) -> 4
      [] t.float = 4 -> 1
      [] OTHER -> 2

\* What the callee should hold of value n of type t.
Value(n, t) ==
    IF t.float = 4 THEN <<<<n, -3>>>> ELSE [h \in 1 .. HalvesOf(t) |-> <<n, h>>]

\* A word of memory or a register, and what new words leave of the old.
Read(m, a) == IF a \in DOMAIN m THEN m[a] ELSE JunkWord
Over(new, m) ==
    [a \in DOMAIN new \cup DOMAIN m |-> IF a \in DOMAIN new THEN new[a] ELSE m[a]]
Empty == [a \in {} |-> JunkWord]

\* The h-th half of a list of words.
HalfOf(words, h) == words[(h + 1) \div 2][2 - (h % 2)]

-----------------------------------------------------------------------------
(* Where the words of an argument go: a place is a general register, a     *)
(* vector register or a word of the stack arguments.                       *)

Cursor(g) == [g |-> g, s |-> 0, m |-> 0]
InGpr(c, n) ==
    [at |-> [w \in 1 .. n |-> <<"g", c.g + w - 1>>], cur |-> [c EXCEPT !.g = @ + n]]
InSse(c, n) ==
    [at |-> [w \in 1 .. n |-> <<"s", c.s + w - 1>>], cur |-> [c EXCEPT !.s = @ + n]]
OnStack(c, n) ==
    [at |-> [w \in 1 .. n |-> <<"m", c.m + w - 1>>], cur |-> [c EXCEPT !.m = @ + n]]

\* A mixed aggregate, whether or not a register is left.
InBoth(t, c) ==
    LET first == IF t.mixed[1] = 2 THEN InSse(c, 1) ELSE InGpr(c, 1)
        second == IF t.mixed[2] = 2 THEN InSse(first.cur, 1) ELSE InGpr(first.cur, 1)
    IN  [at |-> <<first.at[1], second.at[1]>>, cur |-> second.cur]

X86Caller(t, c) ==
    CASE IsLongDouble(t) -> OnStack(c, 2)
      [] t.float \in 1 .. 11 -> IF c.s < 8 THEN InSse(c, 1) ELSE OnStack(c, 1)
      [] IsMixed(t) -> InBoth(t, c)
      [] t.count > 0 /\ t.agg <= 16 ->
            IF c.s + SseSlots(t) <= 8 THEN InSse(c, SseSlots(t)) ELSE OnStack(c, Words(t))
      [] OTHER -> IF t.agg <= 16 /\ c.g + Words(t) <= 6
                  THEN InGpr(c, Words(t)) ELSE OnStack(c, Words(t))

\* The last general register takes the first word of an aggregate of two.
X86Callee_splits(t, c) ==
    CASE IsLongDouble(t) -> OnStack(c, 2)
      [] t.float \in 1 .. 11 /\ c.s < 8 -> InSse(c, 1)
      [] IsMixed(t) -> InBoth(t, c)
      [] t.count > 0 ->
            IF c.s + SseSlots(t) <= 8 THEN InSse(c, SseSlots(t)) ELSE OnStack(c, SseSlots(t))
      [] OTHER -> IF t.agg <= 16 /\ c.g < 6 THEN InGpr(c, Words(t)) ELSE OnStack(c, Words(t))

\* A ninth float is looked for where an integer would be.
X86Callee(t, c) ==
    CASE IsLongDouble(t) -> OnStack(c, 2)
      [] t.float \in 1 .. 11 /\ c.s < 8 -> InSse(c, 1)
      [] IsMixed(t) -> InBoth(t, c)
      [] t.count > 0 ->
            IF c.s + SseSlots(t) <= 8 THEN InSse(c, SseSlots(t)) ELSE OnStack(c, SseSlots(t))
      [] OTHER -> IF t.agg <= 16 /\ c.g + Words(t) <= 6
                  THEN InGpr(c, Words(t)) ELSE OnStack(c, Words(t))

\* Large aggregates go by address.
ArmWords(t) == IF t.agg > 16 THEN 1 ELSE Words(t)

ArmCaller(t, c) ==
    CASE t.float > 0 -> IF c.s < 8 THEN InSse(c, 1) ELSE OnStack(c, 1)
      [] t.count > 0 -> IF c.s + t.count <= 8 THEN InSse(c, t.count) ELSE OnStack(c, ArmWords(t))
      [] OTHER -> IF c.g + ArmWords(t) <= 8 THEN InGpr(c, ArmWords(t)) ELSE OnStack(c, ArmWords(t))

ArmCallee(t, c) ==
    CASE t.float > 0 /\ c.s < 8 -> InSse(c, 1)
      [] t.count > 0 -> IF c.s + t.count <= 8 THEN InSse(c, t.count) ELSE OnStack(c, Words(t))
      [] OTHER -> IF c.g + ArmWords(t) <= 8 THEN InGpr(c, ArmWords(t)) ELSE OnStack(c, ArmWords(t))

CallerStep(t, c) == IF Arm THEN ArmCaller(t, c) ELSE X86Caller(t, c)
CalleeStep(t, c) == IF Arm THEN ArmCallee(t, c) ELSE X86Callee(t, c)

\* Both loops start behind the hidden pointer that x86-64 passes in %rdi.
StartCursor == Cursor(IF Indirect /\ ~Arm THEN 1 ELSE 0)
CallerCursor[i \in 0 .. N] ==
    IF i = 0 THEN StartCursor ELSE CallerStep(Params[i], CallerCursor[i - 1]).cur
CalleeCursor[i \in 0 .. N] ==
    IF i = 0 THEN StartCursor ELSE CalleeStep(Params[i], CalleeCursor[i - 1]).cur

-----------------------------------------------------------------------------
(* The caller                                                              *)

\* Words of the evaluation stack.
Unit == IF Arm THEN 2 ELSE 1
EvalWords(t) == IF IsLongDouble(t) THEN 2 ELSE Unit
EvalTotal[i \in 0 .. N] == IF i = 0 THEN 0 ELSE EvalTotal[i - 1] + EvalWords(Params[i])
PtrWords == IF sig.ptr THEN Unit ELSE 0

\* An argument, or the pointer before the first, lies on its lowest words.
\* An aggregate is evaluated to its address.
ArgAddr(i) == -(PtrWords + EvalTotal[i])
SlotOf(i) == ArgAddr(i) .. IF i = 0 THEN -1 ELSE ArgAddr(i - 1) - 1
Evaluated(i, w) ==
    IF i = 0 \/ Params[i].agg > 0 THEN IF w = 0 THEN Pointer(i) ELSE JunkWord
    ELSE IF w = 0 \/ IsLongDouble(Params[i]) THEN WordOf(i, w) ELSE JunkWord

Init ==
    /\ sig \in Signatures
    /\ phase = "evaluate" /\ k = 1
    /\ sp = 0 /\ mem = Empty /\ regs = Empty /\ reserved = 0
    /\ params = << >> /\ va = << >> /\ ret = [g |-> << >>, s |-> << >>, st |-> << >>]
    /\ got = << >>

Evaluate ==
    /\ phase = "evaluate"
    /\ sp' = ArgAddr(N)
    /\ mem' = [a \in ArgAddr(N) .. -1 |->
                  LET i == CHOOSE i \in 0 .. N : a \in SlotOf(i) IN Evaluated(i, a - ArgAddr(i))]
    /\ phase' = IF Path \in {"plain", "vararg"} THEN Path ELSE "reserve"
    /\ UNCHANGED <<sig, k, regs, reserved, params, va, ret, got>>

RoundUp2(n) == 2 * ((n + 1) \div 2)
RetBuffer == IF Indirect /\ ~Arm THEN 2 * ((sig.ret.agg + 15) \div 16) ELSE 0

\* Room for the result and for the arguments on the stack.
Reserve ==
    /\ phase = "reserve"
    /\ reserved' = LET m == CallerCursor[N].m IN IF Arm THEN RoundUp2(m) ELSE m
    /\ sp' = sp - RetBuffer - reserved'
    /\ phase' = IF N = 0 THEN "take" ELSE "place"
    /\ UNCHANGED <<sig, k, mem, regs, params, va, ret, got>>

\* What is moved to the j-th place of an argument, from the word at src.
X86Piece(t, j, src) ==
    CASE t.float = 4 -> Narrow(Read(mem, src))
      [] IsLongDouble(t) -> Read(mem, src + j - 1)
      [] t.agg > 0 -> WordOf(Pointee(Read(mem, src)), j - 1)
      [] OTHER -> Read(mem, src)

ArmPiece(t, j, inSse, src) ==
    CASE t.float = 4 -> Narrow(Read(mem, src))
      [] t.elem = 4 /\ inSse -> <<<<Pointee(Read(mem, src)), j>>, Junk>>
      [] t.agg > 0 /\ (t.agg <= 16 \/ inSse) /\ ~(t.elem = 4 /\ inSse) ->
            WordOf(Pointee(Read(mem, src)), j - 1)
      [] OTHER -> Read(mem, src)

Piece(t, j, inSse, src) == IF Arm THEN ArmPiece(t, j, inSse, src) ELSE X86Piece(t, j, src)

\* One argument of the scalar and the aggregate path.  The name of a general
\* register past the sixth is read past the end of regs.
Place ==
    /\ phase = "place"
    /\ LET t == Params[k]
           src == sp + reserved + RetBuffer + EvalTotal[N] - EvalTotal[k]
           at == CallerStep(t, CallerCursor[k - 1]).at
           inSse == at[1][1] = "s"
           there(p) == CHOOSE j \in DOMAIN at : at[j] = p
           registers == {p \in Range(at) : p[1] = "s" \/ (p[1] = "g" /\ (Arm \/ p[2] < 6))}
           stack == {sp + p[2] : p \in {q \in Range(at) : q[1] = "m"}}
       IN  /\ regs' = Over([p \in registers |-> Piece(t, there(p), inSse, src)], regs)
           /\ mem' = Over([a \in stack |-> Piece(t, there(<<"m", a - sp>>), inSse, src)], mem)
    /\ k' = IF k < N THEN k + 1 ELSE 1
    /\ phase' = IF k < N THEN "place" ELSE "take"
    /\ UNCHANGED <<sig, sp, reserved, params, va, ret, got>>

Arg(i) == mem[ArgAddr(i)]
ToRegisters(n) == [p \in {<<"g", i - 1>> : i \in 1 .. n} |-> Arg(p[2] + 1)]

\* Only integers: they are popped into registers, those beyond the argument
\* registers into scratch registers and pushed again.  x86-64 has six of
\* them and uses them in turn; on arm64 the address called goes to x16.
X86Scratch(i) == Arg(7 + ((i - 7) % 6))
ArmScratch(i) == IF sig.ptr /\ i = 17 THEN Pointer(0) ELSE Arg(i)
Scratch(i) == IF Arm THEN ArmScratch(i) ELSE X86Scratch(i)

PassPlain ==
    /\ phase = "plain"
    /\ LET limit == IF Arm THEN 8 ELSE 6
           extra == IF N > limit THEN N - limit ELSE 0
           taken == IF Arm THEN RoundUp2(extra) ELSE extra
       IN  /\ regs' = ToRegisters(N - extra)
           /\ reserved' = taken
           /\ sp' = -taken
           /\ mem' = Over([a \in 0 - taken .. extra - taken - 1 |->
                              Scratch(a + taken + limit + 1)], mem)
    /\ phase' = "take"
    /\ UNCHANGED <<sig, k, params, va, ret, got>>

\* arm64, for a variadic function that is compiled as well.  More than eight
\* parameters are refused.
VarargFatal ==
    /\ phase = "vararg" /\ Fixed > 8
    /\ phase' = "rejected"
    /\ UNCHANGED <<sig, k, sp, mem, regs, reserved, params, va, ret, got>>

PassVararg ==
    /\ phase = "vararg" /\ Fixed <= 8
    /\ LET inRegs == IF N <= 8 THEN N ELSE Fixed
           taken == RoundUp2(N - inRegs)
       IN  /\ regs' = ToRegisters(inRegs)
           /\ reserved' = taken
           /\ sp' = sp - taken
           /\ mem' = Over([a \in sp - taken .. sp - taken + N - inRegs - 1 |->
                              Arg(a - sp + taken + inRegs + 1)], mem)
    /\ phase' = "take"
    /\ UNCHANGED <<sig, k, params, va, ret, got>>

-----------------------------------------------------------------------------
(* The callee                                                              *)

At(p) == IF p[1] = "m" THEN Read(mem, sp + p[2]) ELSE Read(regs, p)

\* A single takes the first half of a register.
Received(t, at) ==
    LET single == at[1][1] = "s" /\ (t.float = 4 \/ (Arm /\ t.elem = 4))
        byAddress == Arm /\ t.agg > 16 /\ t.count = 0
        words == [j \in DOMAIN at |-> At(at[j])]
    IN  IF byAddress
        THEN IF IsPointer(words[1]) THEN Value(Pointee(words[1]), t) ELSE words[1]
        ELSE [h \in 1 .. HalvesOf(t) |-> IF single THEN words[h][1] ELSE HalfOf(words, h)]

TakeParam ==
    /\ phase = "take" /\ k <= Fixed
    /\ params' = Append(params, Received(Params[k], CalleeStep(Params[k], CalleeCursor[k - 1]).at))
    /\ k' = k + 1
    /\ UNCHANGED <<sig, phase, sp, mem, regs, reserved, va, ret, got>>

\* va_start and va_arg: the registers saved in the frame, from the first that
\* no parameter took, and what lies above them; on x86-64 the stack, if the
\* parameters took all registers.
X86VaArg(c, j) ==
    IF c.g >= 6 THEN Read(mem, sp + c.m + j - 1)
    ELSE IF c.g + j <= 6 THEN Read(regs, <<"g", c.g + j - 1>>) ELSE JunkWord

ArmVaArg(c, j) == IF c.g + j <= 8 THEN Read(regs, <<"g", c.g + j - 1>>) ELSE JunkWord

\* The list starts at the first register.
VaList_first ==
    /\ phase = "take" /\ k = Fixed + 1
    /\ va' = [j \in 1 .. sig.varargs |->
                 IF Arm THEN ArmVaArg(Cursor(0), j) ELSE X86VaArg(Cursor(0), j)]
    /\ phase' = "return"
    /\ UNCHANGED <<sig, k, sp, mem, regs, reserved, params, ret, got>>

VaList ==
    /\ phase = "take" /\ k = Fixed + 1
    /\ va' = [j \in 1 .. sig.varargs |->
                 IF Arm THEN ArmVaArg(CalleeCursor[Fixed], j) ELSE X86VaArg(CalleeCursor[Fixed], j)]
    /\ phase' = "return"
    /\ UNCHANGED <<sig, k, sp, mem, regs, reserved, params, ret, got>>

\* The words of the result of each class, and the buffer of the caller.
ResultWords == [w \in 1 .. Words(sig.ret) |-> WordOf(Ret, w - 1)]
Buffer == IF Arm THEN 100 ELSE sp + reserved

Eightbyte(class) == WordOf(Ret, (CHOOSE e \in 1 .. 2 : sig.ret.mixed[e] = class) - 1)

ReturnScalar ==
    LET t == sig.ret
    IN  CASE IsLongDouble(t) -> [ret EXCEPT !.st = <<WordOf(Ret, 0), WordOf(Ret, 1)>>]
          [] t.float = 4 -> [ret EXCEPT !.s = <<Narrow(WordOf(Ret, 0))>>]
          [] t.float = 8 -> [ret EXCEPT !.s = <<WordOf(Ret, 0)>>]
          [] OTHER -> [ret EXCEPT !.g = <<WordOf(Ret, 0)>>]

X86Return ==
    LET t == sig.ret
    IN  CASE IsMixed(t) -> [ret EXCEPT !.g = <<Eightbyte(1)>>, !.s = <<Eightbyte(2)>>]
          [] t.count > 0 -> [ret EXCEPT !.s = ResultWords]
          [] t.agg > 16 /\ t.count = 0 -> ret
          [] OTHER -> [ret EXCEPT !.g = ResultWords]

ArmReturn ==
    LET t == sig.ret
        element(e) == IF t.elem = 4 THEN <<<<Ret, e>>, Junk>> ELSE WordOf(Ret, e - 1)
    IN  CASE t.count > 0 -> [ret EXCEPT !.s = [e \in 1 .. t.count |-> element(e)]]
          [] t.agg > 16 /\ t.count = 0 -> ret
          [] OTHER -> [ret EXCEPT !.g = ResultWords]

Return ==
    /\ phase = "return"
    /\ ret' = IF sig.ret.agg = 0 THEN ReturnScalar ELSE IF Arm THEN ArmReturn ELSE X86Return
    /\ mem' = IF sig.ret.agg > 16 /\ sig.ret.count = 0
              THEN Over([a \in Buffer .. Buffer + Words(sig.ret) - 1 |-> WordOf(Ret, a - Buffer)], mem)
              ELSE mem
    /\ phase' = "cleanup"
    /\ UNCHANGED <<sig, k, sp, regs, reserved, params, va, got>>

-----------------------------------------------------------------------------
(* The caller again                                                        *)

Released ==
    CASE Path = "scalar" -> reserved + EvalTotal[N] + PtrWords
      [] Path = "plain" -> reserved
      [] OTHER -> reserved + N * Unit + PtrWords

Nth(words, n) == IF n <= Len(words) THEN words[n] ELSE JunkWord

FloatResult ==
    LET word == Nth(ret.s, 1) IN <<IF sig.ret.float = 4 THEN Widen(word) ELSE word>>

\* The second word is taken from %rax as well.
X86Result_rax ==
    LET t == sig.ret
    IN  CASE t.agg > 16 -> << >>
          [] IsMixed(t) -> <<Nth(ret.s, 1), Nth(ret.g, 1)>>
          [] t.count > 0 /\ t.agg <= 16 -> [w \in 1 .. SseSlots(t) |-> Nth(ret.s, w)]
          [] OTHER -> [w \in 1 .. Words(t) |-> Nth(ret.g, 1)]

X86Result ==
    LET t == sig.ret
        eightbyte(e) == Nth(IF t.mixed[e] = 2 THEN ret.s ELSE ret.g, 1)
    IN  CASE t.agg > 16 -> << >>
          [] IsMixed(t) -> <<eightbyte(1), eightbyte(2)>>
          [] t.count > 0 /\ t.agg <= 16 -> [w \in 1 .. SseSlots(t) |-> Nth(ret.s, w)]
          [] OTHER -> [w \in 1 .. Words(t) |-> Nth(ret.g, w)]

ArmResult ==
    LET t == sig.ret
        word(w) == IF t.elem = 8 THEN Nth(ret.s, w)
                   ELSE <<Nth(ret.s, 2 * w - 1)[1], Nth(ret.s, 2 * w)[1]>>
    IN  CASE t.agg > 16 -> [w \in 1 .. Words(t) |-> Read(mem, Buffer + w - 1)]
          [] t.count > 0 /\ t.agg <= 16 -> [w \in 1 .. Words(t) |-> word(w)]
          [] OTHER -> [w \in 1 .. Words(t) |-> Nth(ret.g, w)]

\* The words pushed, the last on top.
PushedResult ==
    IF sig.ret.float = 0 THEN IF Arm THEN ArmResult ELSE X86Result
    ELSE IF IsLongDouble(sig.ret) /\ Path = "scalar" THEN <<ret.st[2], ret.st[1]>>
    ELSE FloatResult

Cleanup ==
    /\ phase = "cleanup"
    /\ LET words == PushedResult
           top == sp + Released - Unit * Len(words)
       IN  /\ sp' = top
           /\ mem' = Over([a \in {top + Unit * (j - 1) : j \in 1 .. Len(words)} |->
                              words[Len(words) - (a - top) \div Unit]], mem)
    /\ phase' = "store"
    /\ UNCHANGED <<sig, k, regs, reserved, params, va, ret, got>>

\* The result leaves the evaluation stack for a variable: IR_STORE_AGG, or
\* the store of one value.  The large result of x86-64 lies on the stack with
\* its first word on top, the words of others with their last.
Store ==
    /\ phase = "store"
    /\ LET t == sig.ret
           count == IF IsLongDouble(t) THEN 2 ELSE Words(t)
           upwards == ~Arm /\ (t.agg > 16 \/ IsLongDouble(t))
           word(w) == Read(mem, IF upwards THEN sp + w - 1 ELSE sp + Unit * (count - w))
       IN  /\ got' = [h \in 1 .. 2 * count |-> HalfOf([w \in 1 .. count |-> word(w)], h)]
           /\ sp' = sp + IF upwards THEN RoundUp2(count) ELSE Unit * count
    /\ phase' = "done"
    /\ UNCHANGED <<sig, k, mem, regs, reserved, params, va, ret>>

Done == phase \in {"done", "rejected"} /\ UNCHANGED vars

Next ==
    \/ Evaluate \/ Reserve \/ Place \/ PassPlain \/ PassVararg \/ VarargFatal
    \/ TakeParam \/ VaList \/ Return
    \/ Cleanup \/ Store \/ Done

Spec == Init /\ [][Next]_vars

-----------------------------------------------------------------------------
(* Properties                                                              *)

(***************************************************************************)
(* The signatures on which the two sides are known to disagree.            *)
(***************************************************************************)
\* The ninth float is passed on the stack, and looked for in the general
\* registers while one is left.
NinthFloat(t, c) == t.float \in 1 .. 11 /\ c.s >= 8 /\ c.g < (IF Arm THEN 8 ELSE 6)

\* More than 16 bytes of floats: x86-64 passes them on the stack and looks for
\* them in vector registers; arm64, without enough of these, passes their
\* address and looks for the words.
LargeFloats(t, c) ==
    t.count > 0 /\ t.agg > 16 /\ IF Arm THEN c.s + t.count > 8 ELSE c.s + SseSlots(t) <= 8

\* A mixed aggregate after the sixth general register.
NoRegisterLeft(t, c) == ~Arm /\ IsMixed(t) /\ c.g >= 6

\* Among n integers: the scratch registers run out.
TooManyIntegers(n) ==
    Path = "plain" /\ IF Arm THEN sig.ptr /\ n >= 17 ELSE n > 12

\* The list walks out of the saved registers.
TooManyVarargs ==
    IF Arm THEN N > 8 ELSE StartCursor.g + Fixed < 6 /\ StartCursor.g + N > 6

ArgumentGap ==
    \/ TooManyIntegers(Fixed)
    \/ \E i \in 1 .. Fixed :
          LET c == CallerCursor[i - 1]
          IN  \/ NinthFloat(Params[i], c)
              \/ LargeFloats(Params[i], c)
              \/ NoRegisterLeft(Params[i], c)

VarargGap == sig.varargs > 0 /\ (TooManyIntegers(N) \/ TooManyVarargs)

\* x86-64 releases the evaluated arguments and not the result's buffer, and
\* counts a long double argument as one word; a large result of floats comes
\* back in vector registers; a long double result is taken from %xmm0 when an
\* argument is an aggregate.
ResultGap ==
    \/ Indirect /\ (sig.ret.count > 0 \/ (~Arm /\ N > 0))
    \/ ~Arm /\ Path = "aggregate"
            /\ (IsLongDouble(sig.ret) \/ \E i \in 1 .. N : IsLongDouble(Params[i]))

Entered == phase \in {"return", "cleanup", "store", "done"}

(***************************************************************************)
(* The callee finds every argument: the two loops, over the arguments of   *)
(* the call and over the parameters of the function, agree on registers    *)
(* and stack words up to the last of each, whatever came before; and no    *)
(* signature but those of the named gaps loses one.                        *)
(***************************************************************************)
ArgumentsArrive ==
    Entered => (ArgumentGap <=> \E i \in 1 .. Fixed : params[i] # Value(i, Params[i]))

(***************************************************************************)
(* va_arg walks over exactly the arguments after the last parameter, as    *)
(* long as the registers saved by the prologue hold them all.              *)
(***************************************************************************)
VarargsArrive ==
    Entered => (VarargGap <=> \E j \in 1 .. sig.varargs : va[j] # WordOf(Fixed + j, 0))

Result ==
    IF sig.ret.float = 4 THEN WordOf(Ret, 0) ELSE Value(Ret, sig.ret)

(***************************************************************************)
(* The caller stores the result that the callee returned, and the stack    *)
(* pointer is back where the evaluation of the call began, for all but the *)
(* signatures of the named gaps.                                           *)
(***************************************************************************)
ResultArrives ==
    phase = "done" =>
        (ResultGap <=> sp # 0 \/ \E h \in 1 .. Len(Result) : got[h] # Result[h])

=============================================================================
