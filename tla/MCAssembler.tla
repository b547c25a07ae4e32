---------------------------- MODULE MCAssembler ----------------------------
(* Assembly texts for the internal assembler: a text for each instruction  *)
(* of the x86-64 backend, over the operand values that change its encoding,*)
(* those the encoder has a form for (Forms), those it has none for         *)
(* (GapForms) and those whose mnemonic it does not know (Unnamed); and     *)
(* whole files with globals, strings, several functions, jumps, calls and  *)
(* source lines.                                                           *)
EXTENDS Assembler

V(low, fill) == [i \in 1..8 |-> IF i <= Len(low) THEN low[i] ELSE fill]
(* 0, 1, 127, 128, -1, -128, -129, 2^31-1, 2^31, 2^32-1, 2^32, -2^31, -2^31-1 *)
Small == {V(<<0>>, 0), V(<<1>>, 0), V(<<127>>, 0), V(<<128>>, 0), V(<<255>>, 255),
          V(<<128>>, 255), V(<<127, 255>>, 255)}
Wide  == {V(<<255, 255, 255, 127>>, 0), V(<<0, 0, 0, 128>>, 0), V(<<255, 255, 255, 255>>, 0),
          V(<<0, 0, 0, 0, 1>>, 0), V(<<0, 0, 0, 128>>, 255), V(<<255, 255, 255, 127>>, 255)}
Word32 == Small \cup {V(<<255, 255, 255, 127>>, 0), V(<<0, 0, 0, 128>>, 255)}

rax == Reg("r64", 0)
rcx == Reg("r64", 1)
rdx == Reg("r64", 2)
G64(S) == {Reg("r64", i) : i \in S}
Xmm(S) == {Reg("xmm", i) : i \in S}
(* (%b), N(%b): every base that has an encoding of its own.                *)
Bases == {0, 1, 4, 5, 7, 10, 12, 13}
Addr(S) == {Ind(b) : b \in S} \cup {Disp(d, b) : d \in {V(<<8>>, 0), V(<<240>>, 255), V(<<0, 1>>, 0)},
                                                b \in S}
I0(mns) == {Instr(mn, <<>>) : mn \in mns}
I1(mns, as) == {Instr(mn, <<a>>) : mn \in mns, a \in as}
I2(mns, as, bs) == {Instr(mn, <<a, b>>) : mn \in mns, a \in as, b \in bs}

Indexed(s) == {Idx(0, 1, s), Idx(13, 9, s), Idx(5, 12, s)}

Forms ==
    I0(DOMAIN Fixed) \cup I1({"pushq"}, G64({0, 5, 11}) \cup {Imm(v) : v \in Small})
    \cup I1({"popq"}, G64({0, 3, 8})) \cup I1({"notq", "negq", "idivq"}, G64({0, 1, 9}))
    \cup I2({"movq"}, {Imm(v) : v \in Small \cup Wide}, G64({0, 10}))
    \cup I2({"movabsq"}, {Imm(v) : v \in Wide}, {rax, rcx})
    \cup I2({"movq", "addq", "subq", "andq", "orq", "xorq", "cmpq", "testq", "imulq"},
            G64({1, 11}), G64({0, 10}))
    \cup I2({"mov", "add", "xor", "cmp"}, {rcx}, G64({0, 8}))
    \cup I2({"shl", "sar", "shr"}, {Reg("r8", 1)}, {rax})
    \cup I2({"mov"}, {Reg("r32", 1)}, {Disp(V(<<8>>, 0), 5)})
    \cup I2({"andq", "orq", "xorq"}, {rcx}, {Ind(4), Ind(7)})
    \cup I2({"subq", "xorq"}, {rax, rdx}, {Reg("r64", 4), rdx})
    \cup I2({"addq", "subq", "andq", "orq", "xorq", "cmpq", "imulq"},
            {Imm(v) : v \in Word32}, G64({0, 4}))
    \cup I2({"movq"}, G64({0, 11}), Addr(Bases)) \cup I2({"movq"}, Addr(Bases), G64({0, 11}))
    \cup I2({"leaq"}, {Disp(V(<<240>>, 255), b) : b \in Bases}, {rax})
    \cup I2({"movq", "leaq"}, {Rip("g", FALSE)}, G64({0, 10}))
    \cup I2({"movq"}, {Rip("g", TRUE)}, {rax, rcx})
    \cup I2({"movl"}, {Reg("r32", 0)}, Addr({1, 5}) \cup {Rip("g", FALSE)} \cup Indexed(4))
    \cup I2({"movl"}, {Disp(V(<<8>>, 0), 7)} \cup Indexed(4), {Reg("r32", 0)})
    \cup I2({"movw"}, {Reg("r16", 0)}, {Rip("g", FALSE)})
    \cup I2({"movb"}, {Reg("r8", 0), Reg("r8", 2)},
            {Rip("g", FALSE), Disp(V(<<8>>, 0), 5)} \cup Indexed(1))
    \cup I2({"movb"}, Indexed(1), {Reg("r8", 2)})
    \cup I2({"movq"}, Indexed(8), {rax}) \cup I2({"movq"}, {rdx}, Indexed(8))
    \cup I2({"movsbq", "movzbq"}, {Reg("r8", 0), Rip("g", FALSE)} \cup Indexed(1) \cup Addr({0, 12}),
            {rax})
    \cup I2({"movswq", "movzwq"}, {Reg("r16", 0), Rip("g", FALSE)} \cup Indexed(2) \cup Addr({0, 5}),
            {rax})
    \cup I2({"movslq"}, {Reg("r32", 0), Rip("g", FALSE)} \cup Indexed(4) \cup Addr({0, 4, 13}), {rax})
    \cup I2({"movsbl"}, {Rip("g", FALSE)}, {Reg("r32", 0)})
    \cup I2({"shlq", "sarq", "shrq"}, {Reg("r8", 1), Imm(V(<<1>>, 0)), Imm(V(<<63>>, 0))}, {rax})
    \cup I1(DOMAIN setcc \ {"seto"}, {Reg("r8", 0)})
    \cup I2({"xorl"}, {Reg("r32", 0), Reg("r32", 9)}, {Reg("r32", 0)})
    \cup I1({"call*"}, G64({0, 11})) \cup I1({"call"}, {Bare("f"), Bare("abort")})
    \cup I2(DOMAIN fbin, Xmm({0, 15}) \cup {Ind(4), Disp(V(<<240>>, 255), 5), Rip("g", FALSE)},
            Xmm({0, 9}))
    \cup I2({"movsd", "movss"}, Xmm({0, 15}), Addr({4, 5}) \cup {Rip("g", FALSE)} \cup Xmm({1}))
    \cup I2({"movsd", "movss"}, Addr({4, 10}), Xmm({0, 15}))
    \cup I2({"movq"}, Xmm({0, 8}), {rax} \cup Addr({4, 5}) \cup Xmm({1}))
    \cup I2({"movq"}, {rax} \cup Addr({10}), Xmm({0, 8}))
    \cup I2({"cvtsi2sd", "cvtsi2ssq"}, {rax, Reg("r64", 9)}, Xmm({0, 9}))
    \cup I2({"cvttsd2si", "cvttss2siq"}, Xmm({0, 9}), {rax, Reg("r64", 9)})
    \cup I1(DOMAIN fmem, Addr({4, 1}) \cup {Ind(12), Rip("g", FALSE)})
    \cup I1(DOMAIN fst, {Reg("st", i) : i \in {0, 1}})

-----------------------------------------------------------------------------
FnHead(name, globl) ==
    <<SectionLine("text")>> \o (IF globl THEN <<GloblLine(name)>> ELSE <<>>)
    \o <<TypeLine(name, "function"), LabelLine(name)>>
One(i) == <<FileLine("a.c")>> \o FnHead("f", TRUE)
          \o <<InstrLine(Instr("pushq", <<rax>>)), InstrLine(i), InstrLine(Instr("ret", <<>>)),
               OtherLine>>

J(mn, label) == InstrLine(Instr(mn, <<Bare(label)>>))
I(mn, operands) == InstrLine(Instr(mn, operands))

GlobalVar(name, globl, data) ==
    <<SectionLine("data")>> \o (IF globl THEN <<GloblLine(name)>> ELSE <<>>)
    \o <<TypeLine(name, "object"), OtherLine, AlignLine(2), LabelLine(name)>> \o data
Strings == <<SectionLine("rodata"), DotLabelLine(".Lstr_f_0"), DataLine(".asciz", <<104, 92, 110, 33>>),
             DotLabelLine(".Lstr_f_1"), DataLine(".asciz", <<>>)>>

(* A loop, a forward jump over a call, source lines near and far.          *)
LoopFn(name, globl, debug) ==
    LET Loc(line, c) == IF debug THEN <<LocLine(line, c)>> ELSE <<>>
    IN  FnHead(name, globl)
        \o <<I("pushq", <<Reg("r64", 5)>>), I("subq", <<Imm(V(<<0, 1>>, 0)), Reg("r64", 4)>>)>>
        \o Loc(3, 5) \o <<DotLabelLine(".L" \o name \o "_while0"), I("cmpq", <<Imm(Zero8), rax>>),
                          J("je", ".L" \o name \o "_end1")>>
        \o Loc(4, 9) \o <<I("movq", <<Rip("g", FALSE), rcx>>), I("call", <<Bare("h")>>)>>
        \o Loc(4, 30) \o [k \in 1..4 |-> I("movabsq", <<Imm(V(<<1, 2, 3, 4, 5>>, 0)), rax>>)]
        \o Loc(5, 1) \o <<J("je", ".L" \o name \o "_end1")>>
        \o Loc(200, 1) \o <<I("call", <<Bare("putchar")>>), J("jmp", ".L" \o name \o "_while0"),
                            DotLabelLine(".L" \o name \o "_end1")>>
        \o Loc(2, 1) \o <<I("leave", <<>>), I("ret", <<>>), OtherLine>>

StaticFn == FnHead("h", FALSE) \o <<I("testq", <<rcx, rcx>>), J("jne", ".Lh_div_ok_0"),
                                    I("call", <<Bare("abort")>>), DotLabelLine(".Lh_div_ok_0"),
                                    I("leaq", <<Rip(".Lstr_f_0", FALSE), rax>>), I("ret", <<>>)>>
WeakFn == <<SectionLine("text"), GloblLine("w"), WeakLine("w"), TypeLine("w", "function"),
            LabelLine("w"), I("ret", <<>>)>>

Files ==
    {<<FileLine("dir/file.c")>>
     \o (IF vars1 THEN GlobalVar("g", TRUE, <<DataLine(".long", <<-7>>)>>)
                       \o GlobalVar("s", FALSE, <<DataLine(".byte", <<200>>), ZeroLine(3)>>)
                       \o GlobalVar("q", TRUE, <<DataLine(".quad", <<-2>>), DataLine(".short", <<515>>)>>)
         ELSE <<>>)
     \o (IF strs THEN Strings ELSE <<>>)
     \o (IF weak THEN WeakFn ELSE <<>>)
     \o LoopFn("f", TRUE, debug) \o StaticFn
     \o (IF weak THEN LoopFn("main", TRUE, debug) ELSE <<>>) :
        vars1 \in BOOLEAN, strs \in BOOLEAN, weak \in BOOLEAN, debug \in BOOLEAN}

(* A jump to a label whose name does not fit: its field stays 0.           *)
LongLabel == FnHead("f", TRUE) \o <<J("jmp", "long_label"), I("nop", <<>>),
                                    DotLabelLine("long_label"), I("ret", <<>>)>>

(* _start of a file-scope asm: a global label of .text without a .type,    *)
(* whose instructions are dropped.  A .bss block.                          *)
Untyped == <<SectionLine("text"), GloblLine("_start"), LabelLine("_start"), SectionLine("bss"),
             ZeroLine(16)>> \o LoopFn("f", TRUE, FALSE)

(* A pointer to a string, a table of them; a wide string; strings with     *)
(* escapes of one and of several digits, and longer than a line.           *)
Datum(lines) == GlobalVar("p", TRUE, lines)
                \o <<SectionLine("rodata"), OtherLine, DotLabelLine(".Lwstr_0"),
                     DataLine(".long", <<104, 105, 0>>), DotLabelLine(".Lwstr_1"),
                     DataLine(".long", <<0>>)>>
                \o Strings \o FnHead("f", TRUE) \o <<I("ret", <<>>)>>
TextOfStrings == {<<>>, <<65, 92, 48>>, <<92, 48, 51, 51, 91>>, <<92, 55, 65>>, <<92, 102>>, <<92, 114, 92, 34>>,
                  <<65, 66, 67, 68, 69, 70, 71, 72>>, <<65, 66, 67, 68, 69, 70, 71, 92, 110>>}
PointerTexts ==
    {Datum(lines) : lines \in {<<AddrLine(".Lstr_f_0")>>, <<AddrLine(".Lstr_f_0"), ZeroLine(8)>>,
                               <<DataLine(".quad", <<5>>), AddrLine("f")>>,
                               <<DataLine(".byte", <<1>>), DataLine(".byte", <<2>>), ZeroLine(2)>>}}
StringTexts ==
    {<<SectionLine("rodata"), DotLabelLine(".Lstr_f_0"), DataLine(".asciz", v)>>
     \o FnHead("f", TRUE) \o <<I("ret", <<>>)>> : v \in TextOfStrings}

-----------------------------------------------------------------------------
(* Instructions the backend writes that the encoder has no form for.  Those*)
(* it reads as another: thread-local variables (%fs:0, sym@tpoff),         *)
(* addresses as immediates, %r10b, a sign extension to 32 bits from memory.*)
(* Those it writes as a nop: a store to a 64-bit global, loads and stores  *)
(* through a pointer below 64 bits, copies of narrow struct members through*)
(* %r11, and 32-bit moves between registers.  From inline asm, moves       *)
(* without a suffix.                                                       *)
Tls == TpOff("g", 1)
Eight == Disp(V(<<8>>, 0), 10)
GapForms ==
    I2({"movq"}, {FsZero}, {rax, rcx})
    \cup I2({"leaq", "movq", "movslq", "movswq", "movzwq"}, {Tls}, {rax})
    \cup I2({"movl", "movsbl"}, {Tls}, {Reg("r32", 0)})
    \cup I2({"movq"}, {rax}, {Tls, Rip("g", FALSE)})
    \cup I2({"movl"}, {Reg("r32", 0)}, {Tls, Reg("r32", 0), Reg("r32", 1)})
    \cup I2({"movw"}, {Reg("r16", 0)}, {Tls, Ind(1)}) \cup I2({"movb"}, {Reg("r8", 0)}, {Tls, Ind(1)})
    \cup I2({"movsd", "movss"}, Xmm({0}), {Tls}) \cup I2({"movsd", "cvtss2sd"}, {Tls}, Xmm({0}))
    \cup I2({"movabs"}, {ImmSym("g")}, {rax, rcx})
    \cup I2({"movl"}, {Imm(V(<<32>>, 0)), Ind(1), Ind(2), Rip("g", FALSE)}, {Reg("r32", 0)})
    \cup I2({"movw"}, {Reg("r16", 2)}, Indexed(2))
    \cup I2({"movl"}, {Eight}, {Reg("r32", 11)}) \cup I2({"movl"}, {Reg("r32", 11)}, {Eight})
    \cup I2({"movw"}, {Eight}, {Reg("r16", 11)}) \cup I2({"movw"}, {Reg("r16", 11)}, {Eight})
    \cup I2({"movb"}, {Eight}, {Reg("r8", 11)}) \cup I2({"movb"}, {Reg("r8", 11)}, {Eight})
    \cup I2({"movsbl"}, {Ind(1)}, {Reg("r32", 0)})
    \cup I1({"sete"}, {Reg("r8", 10)}) \cup I1({"seto"}, {Reg("r8", 0)})
    \cup I2({"mov"}, {Reg("r8", 0), Reg("r16", 0)}, {Disp(V(<<8>>, 0), 5)})
    \cup I2({"mov"}, {Reg("r32", 0)}, {Reg("r32", 1)})
GapTexts == {One(i) : i \in GapForms}

(* Mnemonics the encoder does not know: assembly ends with a diagnostic.   *)
Unnamed ==
    I1({"divq"}, {rcx}) \cup I2({"movzbl", "movzwl"}, {Ind(1)}, {Reg("r32", 0)})
    \cup I2({"testl", "bsrl", "bsfl", "popcntl", "subl", "addl"}, {Reg("r32", 0)}, {Reg("r32", 0)})
    \cup I2({"xchgl", "lock"}, {Reg("r32", 0)}, {Ind(1)}) \cup I2({"xchgq"}, {rax}, {Ind(1)})
    \cup I1({"jz"}, {Bare(".Lclz_zero_0")})

MCTexts == {One(i) : i \in Forms \cup GapForms \cup Unnamed} \cup Files \cup PointerTexts
           \cup StringTexts \cup {LongLabel, Untyped}

(* A label of a function with a long name, and its first 63 characters.    *)
MCClipped == "long_label" :> "long_labe"
=============================================================================
