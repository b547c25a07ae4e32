----------------------------- MODULE X86Decode -----------------------------
(***************************************************************************)
(* A reference for the encoder: how an x86-64 processor reads the bytes    *)
(* back, for the part of the instruction set the assembler writes, and     *)
(* what an AT&T instruction line means.  Both yield the same normal form:  *)
(* a mnemonic and operands in AT&T order.                                  *)
(***************************************************************************)
EXTENDS X86Encode, TLC

(* The normal form of an operand.  base or idx is -1 where there is none.  *)
Opnd == [k |-> "none", bank |-> "", n |-> 0, base |-> -1, idx |-> -1, scale |-> 1, v |-> Zero8]
OReg(b, r)          == [Opnd EXCEPT !.k = "reg", !.bank = b, !.n = r]
OImm(value)         == [Opnd EXCEPT !.k = "imm", !.v = value]
OMem(b, i, s, disp) == [Opnd EXCEPT !.k = "mem", !.base = b, !.idx = i, !.scale = s, !.v = disp]
OField              == [Opnd EXCEPT !.k = "field"]

-----------------------------------------------------------------------------
(***************************************************************************)
(* What a line means.  A symbol's address is a field of the instruction    *)
(* that the linker fills in.  A move of an immediate to a register is one  *)
(* instruction with two spellings.                                         *)
(***************************************************************************)
Spelling == [movabs |-> "movq", movabsq |-> "movq", cqo |-> "cqto", fldd |-> "fldl",
             cvtsi2sd |-> "cvtsi2sdq", cvtsi2ss |-> "cvtsi2ssq",
             cvttsd2si |-> "cvttsd2siq", cvttss2si |-> "cvttss2siq"]

OpndMeaning(t) ==
    CASE t.form = "reg"  -> OReg(t.bank, t.n)
      [] t.form = "imm"  -> OImm(t.imm)
      [] t.form = "ind"  -> OMem(t.base, -1, 1, Zero8)
      [] t.form = "disp" -> OMem(t.base, -1, 1, t.imm)
      [] t.form = "idx"  -> OMem(t.base, t.idx, t.scale, Zero8)
      [] t.form \in {"rip", "bare"} -> OField
      [] OTHER -> [Opnd EXCEPT !.k = t.form]

(* A suffixless mnemonic takes the width of its register operands; those   *)
(* of an address say nothing about it.                                     *)
BankSuffix == [r64 |-> "q", r32 |-> "l", r16 |-> "w", r8 |-> "b"]
ImpliedSuffix(operands) ==
    LET direct == SelectSeq(operands, LAMBDA t : t.form = "reg")
    IN  IF direct = <<>> THEN "q" ELSE BankSuffix[direct[Len(direct)].bank]

Meaning(i) ==
    LET mn == IF is_suffixless_gp(i.m) THEN i.m \o ImpliedSuffix(i.ops) ELSE i.m
    IN  [m |-> IF mn \in DOMAIN Spelling THEN Spelling[mn] ELSE mn,
         ops |-> [k \in 1..Len(i.ops) |-> OpndMeaning(i.ops[k])]]

-----------------------------------------------------------------------------
(***************************************************************************)
(* The processor's side.                                                   *)
(***************************************************************************)
Sext(s) == [i \in 1..8 |-> IF i <= Len(s) THEN s[i] ELSE IF s[Len(s)] >= 128 THEN 255 ELSE 0]
Zext(s) == [i \in 1..8 |-> IF i <= Len(s) THEN s[i] ELSE 0]
BitOf(byte, v) == (byte \div v) % 2 = 1

(* ModRM at position p (from 1) under the REX byte rx: the reg number, the *)
(* other operand, the bytes taken, and where a RIP-relative field starts.  *)
ModRM(t, p, rx) ==
    LET mod   == t[p] \div 64
        rg    == ((t[p] \div 8) % 8) + Bit(BitOf(rx, 4), 8)
        rm    == t[p] % 8
        sib   == mod # 3 /\ rm = 4
        low   == IF sib THEN t[p + 1] % 8 ELSE rm
        base  == low + Bit(BitOf(rx, 1), 8)
        index == ((t[p + 1] \div 8) % 8) + Bit(BitOf(rx, 2), 8)
        idx   == IF sib /\ index # 4 THEN index ELSE -1
        scale == IF sib /\ index # 4 THEN 2 ^ (t[p + 1] \div 64) ELSE 1
        q     == p + 1 + Bit(sib, 1)
    IN  CASE mod = 3 -> [reg |-> rg, rm |-> OReg("", base), len |-> 1, field |-> -1]
          [] mod = 0 /\ rm = 5 -> [reg |-> rg, rm |-> OField, len |-> 5, field |-> p]
          [] mod = 0 /\ sib /\ low = 5 ->
                [reg |-> rg, rm |-> OMem(-1, idx, scale, Sext(SubSeq(t, q, q + 3))),
                 len |-> q + 4 - p, field |-> -1]
          [] OTHER ->
                LET w == CASE mod = 0 -> 0 [] mod = 1 -> 1 [] OTHER -> 4
                IN  [reg |-> rg,
                     rm |-> OMem(base, idx, scale,
                                 IF w = 0 THEN Zero8 ELSE Sext(SubSeq(t, q, q + w - 1))),
                     len |-> q + w - p, field |-> -1]

(* A register of a bank; without REX, byte registers 4..7 are ah..bh.      *)
Banked(b, r, rx) == OReg(IF b = "r8" /\ rx = 0 /\ r \in 4..7 THEN "r8h" ELSE b, r)

MrOps == (\h89 :> "mov") @@ (\h01 :> "add") @@ (\h29 :> "sub") @@ (\h21 :> "and")
         @@ (\h09 :> "or") @@ (\h31 :> "xor") @@ (\h39 :> "cmp") @@ (\h85 :> "test")
RmOps == (\h8B :> "mov") @@ (\h8D :> "lea")
Grp1  == (0 :> "add") @@ (1 :> "or") @@ (4 :> "and") @@ (5 :> "sub") @@ (6 :> "xor") @@ (7 :> "cmp")
Grp2  == (4 :> "shl") @@ (5 :> "shr") @@ (7 :> "sar")
Grp3  == (2 :> "not") @@ (3 :> "neg") @@ (7 :> "idiv")
Extends == (\hBE :> <<"movsb", "r8">>) @@ (\hBF :> <<"movsw", "r16">>)
           @@ (\hB6 :> <<"movzb", "r8">>) @@ (\hB7 :> <<"movzw", "r16">>)
Conds == <<"seto", "setno", "setb", "setae", "sete", "setne", "setbe", "seta",
           "sets", "setns", "setp", "setnp", "setl", "setge", "setle", "setg">>
X87Ops == (<<\hDD, 0>> :> "fldl") @@ (<<\hDD, 3>> :> "fstpl") @@ (<<\hDB, 5>> :> "fldt")
          @@ (<<\hDB, 7>> :> "fstpt") @@ (<<\hDF, 5>> :> "fildq") @@ (<<\hDD, 1>> :> "fisttpq")
          @@ (<<\hD9, 0>> :> "flds") @@ (<<\hD9, 3>> :> "fstps")
X87Regs == (<<\hDD, 3>> :> "fstp") @@ (<<\hD9, 1>> :> "fxch")
           @@ (<<\hDF, 5>> :> "fucomip") @@ (<<\hDF, 6>> :> "fcomip")
(* prefix, opcode, REX.W where it matters: mnemonic, and whether the rm    *)
(* operand is the destination, with the banks of reg and rm.               *)
SseOps ==
    LET xx(mn) == <<mn, FALSE, "xmm", "xmm">>
    IN  (<<\hF2, \h58>> :> xx("addsd")) @@ (<<\hF2, \h5C>> :> xx("subsd"))
        @@ (<<\hF2, \h59>> :> xx("mulsd")) @@ (<<\hF2, \h5E>> :> xx("divsd"))
        @@ (<<\hF3, \h58>> :> xx("addss")) @@ (<<\hF3, \h5C>> :> xx("subss"))
        @@ (<<\hF3, \h59>> :> xx("mulss")) @@ (<<\hF3, \h5E>> :> xx("divss"))
        @@ (<<\hF2, \h51>> :> xx("sqrtsd")) @@ (<<\hF3, \h51>> :> xx("sqrtss"))
        @@ (<<\hF2, \h5A>> :> xx("cvtsd2ss")) @@ (<<\hF3, \h5A>> :> xx("cvtss2sd"))
        @@ (<<\h66, \h2E>> :> xx("ucomisd")) @@ (<<\h66, \h2F>> :> xx("comisd"))
        @@ (<<0, \h2E>> :> xx("ucomiss")) @@ (<<0, \h2F>> :> xx("comiss"))
        @@ (<<\h66, \h57>> :> xx("xorpd")) @@ (<<0, \h57>> :> xx("xorps"))
        @@ (<<\h66, \hEF>> :> xx("pxor")) @@ (<<\h66, \h54>> :> xx("andpd"))
        @@ (<<0, \h54>> :> xx("andps")) @@ (<<\h66, \h28>> :> xx("movapd"))
        @@ (<<0, \h28>> :> xx("movaps")) @@ (<<\hF2, \h10>> :> xx("movsd"))
        @@ (<<\hF3, \h10>> :> xx("movss")) @@ (<<\hF3, \h7E>> :> xx("movq"))
        @@ (<<\hF2, \h11>> :> <<"movsd", TRUE, "xmm", "xmm">>)
        @@ (<<\hF3, \h11>> :> <<"movss", TRUE, "xmm", "xmm">>)
        @@ (<<\h66, \h7E>> :> <<"movq", TRUE, "xmm", "r64">>)
        @@ (<<\h66, \h6E>> :> <<"movq", FALSE, "xmm", "r64">>)
        @@ (<<\hF2, \h2A>> :> <<"cvtsi2sdq", FALSE, "xmm", "r64">>)
        @@ (<<\hF3, \h2A>> :> <<"cvtsi2ssq", FALSE, "xmm", "r64">>)
        @@ (<<\hF2, \h2C>> :> <<"cvttsd2siq", FALSE, "r64", "xmm">>)
        @@ (<<\hF3, \h2C>> :> <<"cvttss2siq", FALSE, "r64", "xmm">>)
NeedsW == {\h7E, \h6E, \h2A, \h2C, \h2D}

Bad == [m |-> "?", ops |-> <<>>, len |-> 1, field |-> -1]

(* The head of the instruction at byte p: its mandatory prefix, its REX    *)
(* byte, its opcode and whether that is a two-byte one, and the byte after.*)
Opcode(t, p) ==
    LET pfx == IF t[p] \in {\h66, \hF2, \hF3} THEN t[p] ELSE 0
        p1  == p + Bit(pfx # 0, 1)
        rx  == IF t[p1] \in \h40..\h4F THEN t[p1] ELSE 0
        p2  == p1 + Bit(rx # 0, 1)
        esc == t[p2] = \h0F
    IN  [at |-> p, pfx |-> pfx, rex |-> rx, esc |-> esc,
         op |-> IF esc THEN t[p2 + 1] ELSE t[p2], next |-> p2 + Bit(esc, 1) + 1]

(* The instruction with head h and, should it have one, ModRM mr:          *)
(* mnemonic, operands, length, and the offset of its 32-bit field to be    *)
(* filled in, if any.                                                      *)
DecodeOp(t, h, mr) ==
    LET pfx == h.pfx
        rx  == h.rex
        op  == h.op
        q   == h.next
        w   == BitOf(rx, 8)
        sz  == CASE w -> "q" [] pfx = \h66 -> "w" [] OTHER -> "l"
        bk  == CASE w -> "r64" [] pfx = \h66 -> "r16" [] OTHER -> "r32"
        RegOf(b) == Banked(b, mr.reg, rx)
        RmOf(b)  == IF mr.rm.k = "reg" THEN Banked(b, mr.rm.n, rx) ELSE mr.rm
        low == (op % 8) + Bit(BitOf(rx, 1), 8)
        Ins(mn, operands, end, fld) ==
            [m |-> mn, ops |-> operands, len |-> end - h.at, field |-> fld]
        WithRm(mn, operands) == Ins(mn, operands, q + mr.len, mr.field)
        WithImm(mn, k, operand) ==
            Ins(mn, <<OImm(Sext(SubSeq(t, q + mr.len, q + mr.len + k - 1))), operand>>,
                q + mr.len + k, -1)
    IN  IF h.esc
        THEN CASE op \in {\h84, \h85} ->
                    Ins(IF op = \h84 THEN "je" ELSE "jne", <<OField>>, q + 4, q - 1)
               [] op = \hAF -> WithRm("imul" \o sz, <<RmOf(bk), RegOf(bk)>>)
               [] op \in DOMAIN Extends /\ pfx = 0 ->
                    WithRm(Extends[op][1] \o sz, <<RmOf(Extends[op][2]), RegOf(bk)>>)
               [] op \in \h90..\h9F -> WithRm(Conds[op - \h8F], <<RmOf("r8")>>)
               [] <<pfx, op>> \in DOMAIN SseOps /\ (op \in NeedsW /\ pfx # \hF3 => w) ->
                    LET e == SseOps[<<pfx, op>>]
                    IN  WithRm(e[1], IF e[2] THEN <<RegOf(e[3]), RmOf(e[4])>>
                                     ELSE <<RmOf(e[4]), RegOf(e[3])>>)
               [] OTHER -> Bad
        ELSE CASE op \in \h50..\h57 -> Ins("pushq", <<OReg("r64", low)>>, q, -1)
               [] op \in \h58..\h5F -> Ins("popq", <<OReg("r64", low)>>, q, -1)
               [] op = \h6A -> Ins("pushq", <<OImm(Sext(<<t[q]>>))>>, q + 1, -1)
               [] op = \h68 -> Ins("pushq", <<OImm(Sext(SubSeq(t, q, q + 3)))>>, q + 4, -1)
               [] op = \hC3 -> Ins("ret", <<>>, q, -1)
               [] op = \hC9 -> Ins("leave", <<>>, q, -1)
               [] op = \h90 -> Ins("nop", <<>>, q, -1)
               [] op = \h99 /\ w -> Ins("cqto", <<>>, q, -1)
               [] op = \hE8 -> Ins("call", <<OField>>, q + 4, q - 1)
               [] op = \hE9 -> Ins("jmp", <<OField>>, q + 4, q - 1)
               [] op \in \hB8..\hBF /\ w ->
                    Ins("movq", <<OImm(SubSeq(t, q, q + 7)), OReg("r64", low)>>, q + 8, -1)
               [] op \in \hB8..\hBF /\ ~w ->
                    Ins("movq", <<OImm(Zext(SubSeq(t, q, q + 3))), OReg("r64", low)>>, q + 4, -1)
               [] op \in DOMAIN MrOps -> WithRm(MrOps[op] \o sz, <<RegOf(bk), RmOf(bk)>>)
               [] op \in DOMAIN RmOps -> WithRm(RmOps[op] \o sz, <<RmOf(bk), RegOf(bk)>>)
               [] op = \h88 -> WithRm("movb", <<RegOf("r8"), RmOf("r8")>>)
               [] op = \h8A -> WithRm("movb", <<RmOf("r8"), RegOf("r8")>>)
               [] op = \h63 /\ w -> WithRm("movslq", <<RmOf("r32"), RegOf("r64")>>)
               [] op = \h83 /\ mr.reg \in DOMAIN Grp1 -> WithImm(Grp1[mr.reg] \o sz, 1, RmOf(bk))
               [] op = \h81 /\ mr.reg \in DOMAIN Grp1 -> WithImm(Grp1[mr.reg] \o sz, 4, RmOf(bk))
               [] op = \hC7 /\ mr.reg = 0 -> WithImm("mov" \o sz, 4, RmOf(bk))
               [] op \in {\h6B, \h69} /\ RegOf(bk) = RmOf(bk) ->
                    WithImm("imul" \o sz, IF op = \h6B THEN 1 ELSE 4, RmOf(bk))
               [] op = \hF7 /\ mr.reg \in DOMAIN Grp3 -> WithRm(Grp3[mr.reg] \o sz, <<RmOf(bk)>>)
               [] op = \hC1 /\ mr.reg \in DOMAIN Grp2 -> WithImm(Grp2[mr.reg] \o sz, 1, RmOf(bk))
               [] op = \hD1 /\ mr.reg \in DOMAIN Grp2 ->
                    WithRm(Grp2[mr.reg] \o sz, <<OImm(Zext(<<1>>)), RmOf(bk)>>)
               [] op = \hD3 /\ mr.reg \in DOMAIN Grp2 ->
                    WithRm(Grp2[mr.reg] \o sz, <<OReg("r8", 1), RmOf(bk)>>)
               [] op = \hFF /\ mr.reg = 2 -> WithRm("call*", <<RmOf("r64")>>)
               [] op = \hD9 /\ t[q] = \hE0 -> Ins("fchs", <<>>, q + 1, -1)
               [] op = \hD9 /\ t[q] = \hE1 -> Ins("fabs", <<>>, q + 1, -1)
               [] op \in \hD8..\hDF /\ mr.rm.k = "reg" /\ <<op, mr.reg>> \in DOMAIN X87Regs ->
                    Ins(X87Regs[<<op, mr.reg>>], <<OReg("st", mr.rm.n)>>, q + 1, -1)
               [] op \in \hD8..\hDF /\ mr.rm.k # "reg" /\ <<op, mr.reg>> \in DOMAIN X87Ops ->
                    WithRm(X87Ops[<<op, mr.reg>>], <<mr.rm>>)
               [] OTHER -> Bad

(* The instruction at byte p of t.                                         *)
DecodeAt(t, p) == LET h == Opcode(t, p) IN DecodeOp(t, h, ModRM(t, h.next, h.rex))
=============================================================================
