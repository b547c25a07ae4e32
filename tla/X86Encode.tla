----------------------------- MODULE X86Encode -----------------------------
(***************************************************************************)
(* The instruction encoder of the internal assembler (elf_writer.c): one   *)
(* AT&T instruction line in, the bytes it appends to .text and the         *)
(* relocations it records out.                                             *)
(*                                                                         *)
(* An instruction is [m |-> mnemonic, ops |-> sequence of text operands].  *)
(* A text operand is what stands in the assembly text: a register is its   *)
(* bank and number (its spelling follows from the two), an immediate its   *)
(* eight bytes, least significant first, so that every width the encoder   *)
(* tests for (8, 32, 64 bits) is exact.                                    *)
(***************************************************************************)
EXTENDS Integers, Sequences

Zero8 == [i \in 1..8 |-> 0]

(* The text forms of an operand.  "tp" is sym@tpoff(%base), "seg" %fs:0,   *)
(* "immsym" $sym.                                                          *)
TextOp == [form |-> "none", bank |-> "", n |-> 0, imm |-> Zero8, sym |-> "",
           base |-> 0, idx |-> 0, scale |-> 0, got |-> FALSE]
Reg(b, k)        == [TextOp EXCEPT !.form = "reg", !.bank = b, !.n = k]
Imm(v)           == [TextOp EXCEPT !.form = "imm", !.imm = v]
ImmSym(s)        == [TextOp EXCEPT !.form = "immsym", !.sym = s]
Ind(b)           == [TextOp EXCEPT !.form = "ind", !.base = b]
Disp(d, b)       == [TextOp EXCEPT !.form = "disp", !.imm = d, !.base = b]
Idx(b, i, s)     == [TextOp EXCEPT !.form = "idx", !.base = b, !.idx = i, !.scale = s]
Rip(s, got)      == [TextOp EXCEPT !.form = "rip", !.sym = s, !.got = got]
TpOff(s, b)      == [TextOp EXCEPT !.form = "tp", !.sym = s, !.base = b]
FsZero           == [TextOp EXCEPT !.form = "seg"]
Bare(s)          == [TextOp EXCEPT !.form = "bare", !.sym = s]
Instr(mn, operands) == [m |-> mn, ops |-> operands]

-----------------------------------------------------------------------------
(***************************************************************************)
(* Operands.  x64_reg_num looks the name up in x64_regs and returns -1 for *)
(* a name that is not there; reg_optype goes by the spelling, in which     *)
(* every register from r8 on starts with an r.                             *)
(***************************************************************************)
x64_regs == [xmm |-> 0..15, r64 |-> 0..15, r32 |-> 0..11,
             r16 |-> (0..3) \cup {11}, r8 |-> (0..3) \cup {11}]

x64_reg_num(t) == IF t.form = "reg" /\ t.n \in x64_regs[t.bank] THEN t.n ELSE -1

reg_optype(t) ==
    CASE t.form # "reg" -> "REG64"
      [] t.bank = "xmm" -> "REGXMM"
      [] t.bank = "r64" \/ t.n >= 8 -> "REG64"
      [] t.bank = "r32" -> "REG32"
      [] t.bank = "r8" /\ t.n < 4 -> "REG8"
      [] t.bank = "r16" -> "REG16"
      [] OTHER -> "REG64"

Operand == [type |-> "NONE", reg |-> 0, imm |-> Zero8, sym |-> "",
            base |-> 0, idx |-> 0, scale |-> 0, got |-> FALSE]

(* parse_int reads no digit of a symbol's name: $sym is the immediate 0.   *)
(* The displacement of sym@tpoff(%base) is not numeric, so it is 0 and the *)
(* name is dropped.                                                        *)
parse_operand_x64(t) ==
    CASE t.form = "imm"     -> [Operand EXCEPT !.type = "IMM", !.imm = t.imm]
      [] t.form = "immsym"  -> [Operand EXCEPT !.type = "IMM"]
      [] t.form \in {"reg", "seg"} ->
            [Operand EXCEPT !.type = reg_optype(t), !.reg = x64_reg_num(t)]
      [] t.form = "ind"     -> [Operand EXCEPT !.type = "MEM_INDIR", !.base = t.base]
      [] t.form = "idx"     ->
            [Operand EXCEPT !.type = IF t.idx # 0 \/ t.scale # 0 THEN "MEM_IDX" ELSE "MEM_INDIR",
                            !.base = t.base, !.idx = t.idx, !.scale = t.scale]
      [] t.form = "disp"    ->
            [Operand EXCEPT !.type = "MEM_BASE", !.base = t.base, !.imm = t.imm]
      [] t.form = "tp"      -> [Operand EXCEPT !.type = "MEM_BASE", !.base = t.base]
      [] t.form = "rip"     ->
            [Operand EXCEPT !.type = "MEM_RIP", !.sym = t.sym, !.got = t.got]
      [] t.form = "bare"    -> [Operand EXCEPT !.type = "SYM", !.sym = t.sym]
      [] OTHER              -> Operand

(* The size suffix of a suffixless mnemonic: the width of the last register*)
(* that does not stand right behind a parenthesis.  An index register does *)
(* not, so it counts.  reg_optype gets the rest of the line here: an 8- or *)
(* 16-bit register with an operand behind it is longer than the names it   *)
(* tests for, and counts as a 64-bit one.                                  *)
DirectRegs(t, last) ==
    CASE t.form \in {"reg", "seg"} ->
            <<IF ~last /\ reg_optype(t) \in {"REG8", "REG16"} THEN "REG64" ELSE reg_optype(t)>>
      [] t.form = "idx" -> <<"REG64">>
      [] OTHER          -> <<>>

SuffixOf == [REG64 |-> "q", REG32 |-> "l", REG16 |-> "w", REG8 |-> "b"]

infer_gp_suffix(operands) ==
    LET found == [i \in 1..2 |-> IF i <= Len(operands)
                                 THEN DirectRegs(operands[i], i = Len(operands)) ELSE <<>>]
        sized == SelectSeq(found[1] \o found[2], LAMBDA c : c \in DOMAIN SuffixOf)
    IN  IF sized = <<>> THEN "q" ELSE SuffixOf[sized[Len(sized)]]

is_suffixless_gp(mn) ==
    mn \in {"mov", "add", "sub", "and", "or", "xor", "cmp", "test", "adc", "sbb",
            "shl", "shr", "sar", "sal", "imul", "xchg", "lea"}

-----------------------------------------------------------------------------
(***************************************************************************)
(* Bytes.  b % 8 is b & 7 and Ext(b) is b & 8, for the -1 of an unknown    *)
(* register too.                                                           *)
(***************************************************************************)
Ext(r) == r % 16 >= 8
Bit(c, v) == IF c THEN v ELSE 0

LE32(i) == <<i % 256, (i \div 256) % 256, (i \div 65536) % 256, (i \div 16777216) % 256>>

rex(w, r, b) == \h40 + Bit(w, 8) + Bit(Ext(r), 4) + Bit(Ext(b), 1)
modrm(mod, r, m) == 64 * mod + 8 * (r % 8) + (m % 8)
sib_byte(log2, idx, base) == 64 * log2 + 8 * (idx % 8) + (base % 8)
scale_log2(s) == CASE s = 2 -> 1 [] s = 4 -> 2 [] s = 8 -> 3 [] OTHER -> 0

(* The value fits a sign-extended byte, a sign-extended 32-bit word, a     *)
(* zero-extended 32-bit word.                                              *)
Int8(v)   == \/ v[1] < 128  /\ \A i \in 2..8 : v[i] = 0
             \/ v[1] >= 128 /\ \A i \in 2..8 : v[i] = 255
Int32(v)  == \/ v[4] < 128  /\ \A i \in 5..8 : v[i] = 0
             \/ v[4] >= 128 /\ \A i \in 5..8 : v[i] = 255
Uint32(v) == \A i \in 5..8 : v[i] = 0
Low(v, k) == SubSeq(v, 1, k)

(* What one line contributes: bytes, relocations (at an offset in these    *)
(* bytes), and whether the encoder gave up.                                *)
Code(bytes) == [b |-> bytes, rels |-> <<>>, fatal |-> FALSE]
Nothing     == Code(<<>>)
Nop         == Code(<<\h90>>)
Fatal       == [Nothing EXCEPT !.fatal = TRUE]
Field32(bytes, s, ty) ==
    [b |-> bytes \o <<0, 0, 0, 0>>,
     rels |-> <<[at |-> Len(bytes), sym |-> s, type |-> ty, addend |-> -4]>>,
     fatal |-> FALSE]
GotOrPc(o) == IF o.got THEN "GOTPCREL" ELSE "PC32"
RipField(bytes, r, o) == Field32(bytes \o <<modrm(0, r, 5)>>, o.sym, GotOrPc(o))

-----------------------------------------------------------------------------
IsReg(o) == o.type \in {"REGXMM", "REG64", "REG32", "REG16", "REG8"}

\* Mutant of DispBytes: %rbp and %r13 need no displacement.
DispBytes_anyBase(r, rm, tail, d, b) ==
    CASE d = Zero8 -> <<modrm(0, r, rm)>> \o tail
      [] Int8(d)   -> <<modrm(1, r, rm)>> \o tail \o Low(d, 1)
      [] OTHER     -> <<modrm(2, r, rm)>> \o tail \o Low(d, 4)

(* ModRM, SIB and displacement of a memory operand whose base is b.        *)
DispBytes(r, rm, tail, d, b) ==
    CASE d = Zero8 /\ b % 8 # 5 -> <<modrm(0, r, rm)>> \o tail
      [] Int8(d)                -> <<modrm(1, r, rm)>> \o tail \o Low(d, 1)
      [] OTHER                  -> <<modrm(2, r, rm)>> \o tail \o Low(d, 4)

(* enc_modrm_operand: the RIP form always asks for PC32.                   *)
enc_modrm_operand(bytes, r, o) ==
    CASE IsReg(o) -> Code(bytes \o <<modrm(3, r, o.reg)>>)
      [] o.type = "MEM_RIP" -> Field32(bytes \o <<modrm(0, r, 5)>>, o.sym, "PC32")
      [] o.type = "MEM_IDX" ->
            Code(bytes \o DispBytes(r, 4, <<sib_byte(scale_log2(o.scale), o.idx, o.base)>>,
                                    o.imm, o.base))
      [] OTHER ->
            LET d == IF o.type = "MEM_INDIR" THEN Zero8 ELSE o.imm
            IN  Code(bytes \o IF o.base % 8 = 4
                              THEN DispBytes(r, 4, <<sib_byte(0, 4, o.base)>>, d, o.base)
                              ELSE DispBytes(r, o.base, <<>>, d, o.base))

RmReg(o) == IF IsReg(o) THEN o.reg ELSE IF o.type = "MEM_RIP" THEN 0 ELSE o.base
RmIdx(o) == IF o.type = "MEM_IDX" THEN o.idx ELSE 0

RexX(w, r, x, b) == \h40 + Bit(w, 8) + Bit(r >= 8, 4) + Bit(x >= 8, 2) + Bit(b >= 8, 1)

enc_sse(pfx, opcode, r, o, w) ==
    LET need == w \/ r >= 8 \/ RmReg(o) >= 8 \/ RmIdx(o) >= 8
    IN  enc_modrm_operand((IF pfx # 0 THEN <<pfx>> ELSE <<>>)
                          \o (IF need THEN <<RexX(w, r, RmIdx(o), RmReg(o))>> ELSE <<>>)
                          \o <<\h0F, opcode>>, r, o)

enc_rr64(op, dst, src) == Code(<<rex(TRUE, src, dst), op, modrm(3, src, dst)>>)

enc_mem_base(op, r, b, d, w) ==
    LET prefix == IF rex(w, r, b) # \h40 THEN <<rex(w, r, b)>> ELSE <<>>
        tail   == IF b % 8 = 4 THEN <<\h24>> ELSE <<>>
    IN  Code(prefix \o <<op>> \o DispBytes(r, b, tail, d, b))

enc_mem_idx(op, w, r, o) ==
    LET need == w \/ r >= 8 \/ o.base >= 8 \/ o.idx >= 8
        sib  == sib_byte(scale_log2(o.scale), o.idx, o.base)
    IN  Code((IF need THEN <<RexX(w, r, o.idx, o.base)>> ELSE <<>>) \o <<op>>
             \o IF o.base % 8 = 5 THEN <<modrm(1, r, 4), sib, 0>> ELSE <<modrm(0, r, 4), sib>>)

-----------------------------------------------------------------------------
(***************************************************************************)
(* The handlers of x64_encode_line, in its order.  a and b are the parsed  *)
(* first and second operand: source and destination, in AT&T order.        *)
(***************************************************************************)
PushPop(mn, a) ==
    CASE a.type = "REG64" ->
            Code((IF a.reg >= 8 THEN <<rex(FALSE, 0, a.reg)>> ELSE <<>>)
                 \o <<(IF mn = "pushq" THEN \h50 ELSE \h58) + (a.reg % 8)>>)
      [] mn = "pushq" /\ a.type = "IMM" ->
            Code(IF Int8(a.imm) THEN <<\h6A>> \o Low(a.imm, 1) ELSE <<\h68>> \o Low(a.imm, 4))
      [] OTHER -> Nothing

Fixed == [ret |-> <<\hC3>>, leave |-> <<\hC9>>, nop |-> <<\h90>>,
          fchs |-> <<\hD9, \hE0>>, fabs |-> <<\hD9, \hE1>>,
          cqto |-> <<\h48, \h99>>, cqo |-> <<\h48, \h99>>]

(* x87 memory forms: opcode and the digit in ModRM.reg.                    *)
fmem == [fldl |-> <<\hDD, 0>>, fstpl |-> <<\hDD, 3>>, fldt |-> <<\hDB, 5>>,
         fstpt |-> <<\hDB, 7>>, fildq |-> <<\hDF, 5>>, fisttpq |-> <<\hDD, 1>>,
         fldd |-> <<\hDD, 0>>, flds |-> <<\hD9, 0>>, fstps |-> <<\hD9, 3>>]

X87Mem(mn, a) ==
    enc_modrm_operand((IF a.type # "MEM_RIP" /\ a.base >= 8 THEN <<\h41>> ELSE <<>>)
                      \o <<fmem[mn][1]>>, fmem[mn][2], a)

(* %st(i) is read from the text, not by the operand parser: t.n is i.      *)
fst == [fstp |-> <<\hDD, \hD8>>, fxch |-> <<\hD9, \hC8>>,
        fucomip |-> <<\hDF, \hE8>>, fcomip |-> <<\hDF, \hF0>>]
X87Stack(mn, t) == Code(<<fst[mn][1], fst[mn][2] + (t.n % 8)>>)

fbin == [addsd |-> <<\hF2, \h58>>, subsd |-> <<\hF2, \h5C>>, mulsd |-> <<\hF2, \h59>>,
         divsd |-> <<\hF2, \h5E>>, addss |-> <<\hF3, \h58>>, subss |-> <<\hF3, \h5C>>,
         mulss |-> <<\hF3, \h59>>, divss |-> <<\hF3, \h5E>>, sqrtsd |-> <<\hF2, \h51>>,
         sqrtss |-> <<\hF3, \h51>>, cvtsd2ss |-> <<\hF2, \h5A>>, cvtss2sd |-> <<\hF3, \h5A>>,
         ucomisd |-> <<\h66, \h2E>>, comisd |-> <<\h66, \h2F>>, ucomiss |-> <<0, \h2E>>,
         comiss |-> <<0, \h2F>>, xorpd |-> <<\h66, \h57>>, xorps |-> <<0, \h57>>,
         pxor |-> <<\h66, \hEF>>, andpd |-> <<\h66, \h54>>, andps |-> <<0, \h54>>,
         movapd |-> <<\h66, \h28>>, movaps |-> <<0, \h28>>]

(* movsd, movss: 0x10 loads an xmm register, 0x11 stores one.              *)
MovScalar(mn, a, b) ==
    LET pfx == IF mn = "movsd" THEN \hF2 ELSE \hF3
    IN  CASE a.type = "REGXMM" /\ b.type # "REGXMM" -> enc_sse(pfx, \h11, a.reg, b, FALSE)
          [] b.type = "REGXMM" -> enc_sse(pfx, \h10, b.reg, a, FALSE)
          [] OTHER -> Nothing

(* movq and movd with an xmm operand, ahead of the general movq.           *)
MovXmm(mn, a, b) ==
    CASE a.type = "REGXMM" /\ b.type = "REGXMM" -> enc_sse(\hF3, \h7E, b.reg, a, FALSE)
      [] a.type = "REGXMM" -> enc_sse(\h66, \h7E, a.reg, b, mn = "movq")
      [] OTHER             -> enc_sse(\h66, \h6E, b.reg, a, mn = "movq")

(* Integer <-> floating conversions: prefix, opcode, a q suffix.           *)
cvt == [cvtsi2sd |-> <<\hF2, \h2A, FALSE>>, cvtsi2sdq |-> <<\hF2, \h2A, TRUE>>,
        cvtsi2ss |-> <<\hF3, \h2A, FALSE>>, cvtsi2ssq |-> <<\hF3, \h2A, TRUE>>,
        cvttsd2si |-> <<\hF2, \h2C, FALSE>>, cvttsd2siq |-> <<\hF2, \h2C, TRUE>>,
        cvttss2si |-> <<\hF3, \h2C, FALSE>>, cvttss2siq |-> <<\hF3, \h2C, TRUE>>,
        cvtsd2si |-> <<\hF2, \h2D, FALSE>>, cvtss2si |-> <<\hF3, \h2D, FALSE>>]
Cvt(mn, a, b) ==
    enc_sse(cvt[mn][1], cvt[mn][2], b.reg, a,
            cvt[mn][3] \/ a.type = "REG64" \/ b.type = "REG64")

Movabs(a, b) ==
    IF a.type = "IMM" /\ b.type = "REG64"
    THEN Code(<<rex(TRUE, 0, b.reg), \hB8 + (b.reg % 8)>> \o a.imm)
    ELSE Nothing

Xorl(a, b) ==
    LET pfx == \h40 + Bit(Ext(a.reg), 4) + Bit(Ext(b.reg), 1)
    IN  Code((IF pfx # \h40 THEN <<pfx>> ELSE <<>>) \o <<\h31, modrm(3, a.reg, b.reg)>>)

MovImm(v, d) ==
    CASE Uint32(v) -> Code((IF d >= 8 THEN <<rex(FALSE, 0, d)>> ELSE <<>>)
                           \o <<\hB8 + (d % 8)>> \o Low(v, 4))
      [] Int32(v)  -> Code(<<rex(TRUE, 0, d), \hC7, modrm(3, 0, d)>> \o Low(v, 4))
      [] OTHER     -> Code(<<rex(TRUE, 0, d), \hB8 + (d % 8)>> \o v)

Movq(a, b) ==
    CASE a.type = "IMM" /\ b.type = "REG64"       -> MovImm(a.imm, b.reg)
      [] a.type = "REG64" /\ b.type = "REG64"     -> enc_rr64(\h89, b.reg, a.reg)
      [] a.type = "REG64" /\ b.type = "MEM_BASE"  -> enc_mem_base(\h89, a.reg, b.base, b.imm, TRUE)
      [] a.type = "MEM_BASE" /\ b.type = "REG64"  -> enc_mem_base(\h8B, b.reg, a.base, a.imm, TRUE)
      [] a.type = "REG64" /\ b.type = "MEM_INDIR" -> enc_mem_base(\h89, a.reg, b.base, Zero8, TRUE)
      [] a.type = "MEM_INDIR" /\ b.type = "REG64" -> enc_mem_base(\h8B, b.reg, a.base, Zero8, TRUE)
      [] a.type = "MEM_RIP" /\ b.type = "REG64"   -> RipField(<<rex(TRUE, b.reg, 0), \h8B>>, b.reg, a)
      [] a.type = "REG64" /\ b.type = "MEM_IDX"   -> enc_mem_idx(\h89, TRUE, a.reg, b)
      [] a.type = "MEM_IDX" /\ b.type = "REG64"   -> enc_mem_idx(\h8B, TRUE, b.reg, a)
      [] OTHER -> Nop

Movl(a, b) ==
    CASE a.type = "REG32" /\ b.type = "MEM_BASE"  -> enc_mem_base(\h89, a.reg, b.base, b.imm, FALSE)
      [] a.type = "MEM_BASE" /\ b.type = "REG32"  -> enc_mem_base(\h8B, b.reg, a.base, a.imm, FALSE)
      [] a.type = "REG32" /\ b.type = "MEM_INDIR" -> enc_mem_base(\h89, a.reg, b.base, Zero8, FALSE)
      [] a.type = "REG32" /\ b.type = "MEM_RIP"   ->
            RipField((IF a.reg >= 8 THEN <<rex(FALSE, a.reg, 0)>> ELSE <<>>) \o <<\h89>>, a.reg, b)
      [] a.type = "REG32" /\ b.type = "MEM_IDX"   -> enc_mem_idx(\h89, FALSE, a.reg, b)
      [] a.type = "MEM_IDX" /\ b.type = "REG32"   -> enc_mem_idx(\h8B, FALSE, b.reg, a)
      [] OTHER -> Nop

(* A byte store to base and displacement always takes the 32-bit           *)
(* displacement, and its REX prefix depends on the source register alone.  *)
Movb(a, b) ==
    CASE a.type = "REG8" /\ b.type = "MEM_RIP" ->
            RipField((IF a.reg >= 4 THEN <<rex(FALSE, a.reg, 0)>> ELSE <<>>) \o <<\h88>>, a.reg, b)
      [] a.type = "REG8" /\ b.type = "MEM_BASE" ->
            Code((IF a.reg >= 4 THEN <<rex(FALSE, a.reg, b.base)>> ELSE <<>>)
                 \o <<\h88, modrm(2, a.reg, b.base)>>
                 \o (IF b.base % 8 = 4 THEN <<\h24>> ELSE <<>>) \o Low(b.imm, 4))
      [] a.type = "MEM_IDX" /\ b.type = "REG8" -> enc_mem_idx(\h8A, FALSE, b.reg, a)
      [] a.type = "REG8" /\ b.type = "MEM_IDX" -> enc_mem_idx(\h88, FALSE, a.reg, b)
      [] OTHER -> Nop

Movw(a, b) ==
    IF a.type = "REG16" /\ b.type = "MEM_RIP" THEN RipField(<<\h66, \h89>>, a.reg, b) ELSE Nop

(* The two-operand integer operations: register opcode and the digit of    *)
(* the immediate form.                                                     *)
alu == [addq |-> <<\h01, 0>>, subq |-> <<\h29, 5>>, andq |-> <<\h21, 4>>,
        orq |-> <<\h09, 1>>, xorq |-> <<\h31, 6>>, cmpq |-> <<\h39, 7>>]

AluImm(digit, v, d) ==
    Code(<<rex(TRUE, 0, d)>> \o IF Int8(v) THEN <<\h83, modrm(3, digit, d)>> \o Low(v, 1)
                                ELSE <<\h81, modrm(3, digit, d)>> \o Low(v, 4))

Alu(mn, a, b) ==
    CASE a.type = "IMM" /\ b.type = "REG64"   -> AluImm(alu[mn][2], a.imm, b.reg)
      [] mn \in {"andq", "orq", "xorq"} /\ a.type = "REG64" /\ b.type = "MEM_INDIR" ->
            Code(<<rex(TRUE, a.reg, b.base), alu[mn][1], modrm(0, a.reg, b.base)>>
                 \o IF b.base % 8 = 4 THEN <<\h24>> ELSE <<>>)
      [] a.type = "REG64" /\ b.type = "REG64" -> enc_rr64(alu[mn][1], b.reg, a.reg)
      [] OTHER -> Nop

Imulq(a, b) ==
    CASE a.type = "IMM" /\ b.type = "REG64" ->
            Code(<<rex(TRUE, b.reg, b.reg)>>
                 \o IF Int8(a.imm) THEN <<\h6B, modrm(3, b.reg, b.reg)>> \o Low(a.imm, 1)
                    ELSE <<\h69, modrm(3, b.reg, b.reg)>> \o Low(a.imm, 4))
      [] a.type = "REG64" /\ b.type = "REG64" ->
            Code(<<rex(TRUE, b.reg, a.reg), \h0F, \hAF, modrm(3, b.reg, a.reg)>>)
      [] OTHER -> Nop

unary == [notq |-> 2, negq |-> 3, idivq |-> 7]
Unary(mn, a) == Code(<<rex(TRUE, 0, a.reg), \hF7, modrm(3, unary[mn], a.reg)>>)

shift == [shlq |-> 4, sarq |-> 7, shrq |-> 5]
Shift(mn, a, b) ==
    LET head(op) == <<rex(TRUE, 0, b.reg), op, modrm(3, shift[mn], b.reg)>>
    IN  CASE a.type = "IMM" /\ a.imm[1] = 1 -> Code(head(\hD1))
          [] a.type = "IMM"  -> Code(head(\hC1) \o Low(a.imm, 1))
          [] a.type = "REG8" -> Code(head(\hD3))
          [] OTHER           -> Nothing

(* Every condition the table does not know becomes ae.                     *)
setcc == [sete |-> \h94, setne |-> \h95, setl |-> \h9C, setg |-> \h9F, setle |-> \h9E,
          setge |-> \h9D, setb |-> \h92, seta |-> \h97, setbe |-> \h96, setae |-> \h93,
          seto |-> \h93]
Setcc(mn, a) ==
    Code((CASE a.reg \in 4..7 -> <<\h40>>
            [] a.reg >= 8     -> <<rex(FALSE, 0, a.reg)>>
            [] OTHER          -> <<>>) \o <<\h0F, setcc[mn], modrm(3, 0, a.reg)>>)

(* Sign- and zero-extending moves to 64 bits.                              *)
movx == [movsbq |-> \hBE, movswq |-> \hBF, movzbq |-> \hB6, movzwq |-> \hB7]
Movslq(a, b) ==
    enc_modrm_operand(<<RexX(TRUE, b.reg, RmIdx(a), RmReg(a)), \h63>>, b.reg, a)

Movsbl(a, b) ==
    IF a.type = "MEM_RIP"
    THEN RipField((IF b.reg >= 8 THEN <<rex(FALSE, b.reg, 0)>> ELSE <<>>) \o <<\h0F, \hBE>>, b.reg, a)
    ELSE Code((IF b.reg >= 8 THEN <<rex(FALSE, b.reg, a.reg)>> ELSE <<>>)
              \o <<\h0F, \hBE, modrm(3, b.reg, a.reg)>>)

Leaq(a, b) ==
    CASE a.type = "MEM_RIP"  -> RipField(<<rex(TRUE, b.reg, 0), \h8D>>, b.reg, a)
      [] a.type = "MEM_BASE" -> enc_mem_base(\h8D, b.reg, a.base, a.imm, TRUE)
      [] OTHER               -> Nop

(* call *%reg has the mnemonic "call*" here.                               *)
CallReg(a) ==
    Code((IF a.reg >= 8 THEN <<rex(FALSE, 0, a.reg)>> ELSE <<>>) \o <<\hFF, modrm(3, 2, a.reg)>>)
CallSym(t) == Field32(<<\hE8>>, t.sym, "PLT32")

(* je, jne, jmp: the opcode; the field is the parser's label bookkeeping.  *)
jumps == [je |-> <<\h0F, \h84>>, jne |-> <<\h0F, \h85>>, jmp |-> <<\hE9>>]

x64_encode_line(i) ==
    LET mn == IF is_suffixless_gp(i.m) THEN i.m \o infer_gp_suffix(i.ops) ELSE i.m
        t  == IF i.ops = <<>> THEN TextOp ELSE i.ops[1]
        a  == parse_operand_x64(t)
        b  == IF Len(i.ops) < 2 THEN Operand ELSE parse_operand_x64(i.ops[2])
    IN  CASE mn \in {"pushq", "popq"}       -> PushPop(mn, a)
          [] mn \in DOMAIN Fixed            -> Code(Fixed[mn])
          [] mn \in DOMAIN fmem             -> X87Mem(mn, a)
          [] mn \in DOMAIN fst              -> X87Stack(mn, t)
          [] mn \in DOMAIN fbin             -> enc_sse(fbin[mn][1], fbin[mn][2], b.reg, a, FALSE)
          [] mn \in {"movsd", "movss"}      -> MovScalar(mn, a, b)
          [] mn \in {"movq", "movd"} /\ "REGXMM" \in {a.type, b.type} -> MovXmm(mn, a, b)
          [] mn \in DOMAIN cvt              -> Cvt(mn, a, b)
          [] mn \in {"movabs", "movabsq"}   -> Movabs(a, b)
          [] mn = "testq" /\ a.type = "REG64" /\ b.type = "REG64" -> enc_rr64(\h85, b.reg, a.reg)
          [] mn = "xorl"                    -> Xorl(a, b)
          [] mn = "movq"                    -> Movq(a, b)
          [] mn = "movl"                    -> Movl(a, b)
          [] mn = "movb"                    -> Movb(a, b)
          [] mn = "movw"                    -> Movw(a, b)
          [] mn \in DOMAIN alu              -> Alu(mn, a, b)
          [] mn = "imulq"                   -> Imulq(a, b)
          [] mn \in DOMAIN unary            -> Unary(mn, a)
          [] mn \in DOMAIN shift            -> Shift(mn, a, b)
          [] mn \in DOMAIN setcc            -> Setcc(mn, a)
          [] mn = "movslq"                  -> Movslq(a, b)
          [] mn \in DOMAIN movx             -> enc_sse(0, movx[mn], b.reg, a, TRUE)
          [] mn = "movsbl"                  -> Movsbl(a, b)
          [] mn = "leaq"                    -> Leaq(a, b)
          [] mn = "call*"                   -> CallReg(a)
          [] mn = "call"                    -> CallSym(t)
          [] mn \in DOMAIN jumps            -> Code(jumps[mn])
          [] OTHER                          -> Fatal
=============================================================================
