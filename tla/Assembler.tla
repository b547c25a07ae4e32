----------------------------- MODULE Assembler -----------------------------
(***************************************************************************)
(* The internal assembler (elf_writer.c): parse_asm_x64 reads the assembly *)
(* text line by line into section bytes, symbols, relocations and source   *)
(* positions, keeping one context of labels and pending jumps, and         *)
(* write_elf64_object makes the object of them.                            *)
(*                                                                         *)
(* One action handles one line, as one turn of the loop does.              *)
(***************************************************************************)
EXTENDS X86Decode, ElfObject

CONSTANTS
    Texts,      \* assembly texts: sequences of lines, as the backend writes them
    Clipped,    \* labels of more than 63 characters, and their first 63
    StringRoom  \* characters of a string that fit the 1023 kept of its line

(* A line: its kind and the fields that kind uses.                         *)
LineOf(kind) == [k |-> kind, name |-> "", dot |-> FALSE, instr |-> Instr("", <<>>), v |-> <<>>,
                 n |-> 0, sym |-> "", col |-> 0]
SectionLine(s)    == [LineOf("section") EXCEPT !.name = s]
GloblLine(s)      == [LineOf("globl") EXCEPT !.name = s]
WeakLine(s)       == [LineOf("weak") EXCEPT !.name = s]
TypeLine(s, ty)   == [LineOf("type") EXCEPT !.name = s, !.sym = ty]
LabelLine(s)      == [LineOf("label") EXCEPT !.name = s]
DotLabelLine(s)   == [LineOf("label") EXCEPT !.name = s, !.dot = TRUE]
InstrLine(i)      == [LineOf("instr") EXCEPT !.instr = i]
FileLine(f)       == [LineOf("file") EXCEPT !.name = f, !.n = 1]
LocLine(line, c)  == [LineOf("loc") EXCEPT !.n = line, !.col = c]
DataLine(d, vals) == [LineOf(d) EXCEPT !.v = vals]
AddrLine(s)       == [LineOf(".quad") EXCEPT !.sym = s]
AlignLine(p)      == [LineOf(".p2align") EXCEPT !.n = p]
ZeroLine(c)       == [LineOf(".zero") EXCEPT !.n = c]
OtherLine         == LineOf("other")

VARIABLES
    text,       \* the lines
    pc,         \* the next line, from 1
    cur_sec, in_function, fn_start,
    labels,     \* ctx: sequence of [name, offset], offset from fn_start
    patches,    \* ctx: sequence of [at, label]
    pending,    \* .globl (the last two), .weak, .type @function
    m,          \* AsmModel
    phase,      \* "parse", "write", "done" or "failed"
    object

vars == <<text, pc, cur_sec, in_function, fn_start, labels, patches, pending, m, phase, object>>

EmptyModel == [text |-> <<>>, data |-> <<>>, rodata |-> <<>>, bss |-> 0, syms |-> <<>>,
               relocs |-> <<>>, files |-> <<>>, locs |-> <<>>]

Init ==
    /\ text \in Texts
    /\ pc = 1
    /\ cur_sec = "NONE" /\ in_function = FALSE /\ fn_start = 0
    /\ labels = <<>> /\ patches = <<>>
    /\ pending = [globl |-> "", globl2 |-> "", weak |-> "", func |-> ""]
    /\ m = EmptyModel
    /\ phase = "parse"
    /\ object = <<>>

Line == text[pc]
AtLine(kinds) == phase = "parse" /\ pc <= Len(text) /\ Line.k \in kinds
NextLine == pc' = pc + 1
KeepCtx == UNCHANGED <<fn_start, labels, patches>>

-----------------------------------------------------------------------------
(***************************************************************************)
(* Section switches and declarations.  A switch leaves the function but    *)
(* not its context.  A section the parser has no test for is an unknown    *)
(* directive and changes nothing.                                          *)
(***************************************************************************)
SectionId == [text |-> "TEXT", data |-> "DATA", rodata |-> "RODATA", bss |-> "BSS"]

Section ==
    /\ AtLine({"section"}) /\ NextLine
    /\ IF Line.name \in DOMAIN SectionId
       THEN cur_sec' = SectionId[Line.name] /\ in_function' = FALSE
       ELSE UNCHANGED <<cur_sec, in_function>>
    /\ KeepCtx /\ UNCHANGED <<text, pending, m, phase, object>>

Declare ==
    /\ AtLine({"globl", "weak", "type"}) /\ NextLine
    /\ pending' = CASE Line.k = "globl" ->
                        [pending EXCEPT !.globl2 = IF pending.globl # "" THEN pending.globl ELSE @,
                                        !.globl = Line.name]
                    [] Line.k = "weak" -> [pending EXCEPT !.weak = Line.name]
                    [] OTHER -> IF Line.sym = "function" THEN [pending EXCEPT !.func = Line.name]
                                ELSE pending
    /\ KeepCtx /\ UNCHANGED <<text, cur_sec, in_function, m, phase, object>>

-----------------------------------------------------------------------------
(***************************************************************************)
(* Labels.  A label of the context takes its offset and patches every jump *)
(* that was written for its name so far.                                   *)
(***************************************************************************)
Globl(n) == n \in {pending.globl, pending.globl2}
BindOf(n) == IF n = pending.weak THEN "WEAK" ELSE IF Globl(n) THEN "GLOBAL" ELSE "LOCAL"

Patched(bytes, at, value) ==
    [i \in 1..Len(bytes) |-> IF i \in at + 1..at + 4 THEN LE32(value)[i - at] ELSE bytes[i]]

\* Mutant of PatchAll: only the first jump to the label is patched.
PatchAll_first(bytes, name) ==
    LET at == {i \in 1..Len(patches) : patches[i].label = name}
        p  == patches[Min(at)]
    IN  IF at = {} THEN bytes ELSE Patched(bytes, p.at, Len(bytes) - (p.at + 4))

(* disp = target - (off - fn_start + 4), for each patch of the name.       *)
PatchAll(bytes, name) ==
    LET target == Len(bytes) - fn_start
    IN  FoldLeft(LAMBDA t, p : IF p.label = name
                               THEN Patched(t, p.at, target - (p.at - fn_start + 4)) ELSE t,
                 bytes, patches)

CtxLabel(name) ==
    /\ labels' = Append(labels, [name |-> name, offset |-> Len(m.text) - fn_start])
    /\ m' = [m EXCEPT !.text = PatchAll(@, name)]
    /\ UNCHANGED <<in_function, fn_start, patches, pending>>

InData == cur_sec \in {"DATA", "RODATA"}
SecBytes == IF cur_sec = "DATA" THEN m.data ELSE m.rodata

DataSymbol(name, bind) ==
    /\ m' = [m EXCEPT !.syms = Append(@, Symbol(name, IF cur_sec = "DATA" THEN 3 ELSE 4,
                                                Len(SecBytes), bind, "OBJECT", TRUE))]
    /\ KeepCtx /\ UNCHANGED <<in_function, pending>>

(* A label that starts with a dot.                                         *)
DotLabel ==
    /\ AtLine({"label"}) /\ Line.dot /\ NextLine
    /\ CASE in_function /\ cur_sec = "TEXT" -> CtxLabel(Line.name)
         [] ~(in_function /\ cur_sec = "TEXT") /\ InData ->
                DataSymbol(Line.name, BindOf(Line.name))
         [] OTHER -> KeepCtx /\ UNCHANGED <<in_function, pending, m>>
    /\ UNCHANGED <<text, cur_sec, phase, object>>

(* The label of a .type @function: a function symbol.  The context starts  *)
(* afresh only if no section switch came since the last function.          *)
FunctionLabel ==
    /\ AtLine({"label"}) /\ ~Line.dot /\ Line.name = pending.func /\ NextLine
    /\ labels' = IF in_function THEN <<>> ELSE labels
    /\ patches' = IF in_function THEN <<>> ELSE patches
    /\ in_function' = TRUE
    /\ fn_start' = Len(m.text)
    /\ m' = [m EXCEPT !.syms = Append(@, Symbol(Line.name, 0, Len(m.text), BindOf(Line.name),
                                                "FUNC", TRUE))]
    /\ pending' = [pending EXCEPT !.func = "",
                                  !.globl = IF @ = Line.name THEN "" ELSE @,
                                  !.globl2 = IF @ = Line.name THEN "" ELSE @]
    /\ UNCHANGED <<text, cur_sec, phase, object>>

PlainLabel ==
    /\ AtLine({"label"}) /\ ~Line.dot /\ Line.name # pending.func /\ NextLine
    /\ CASE ~in_function /\ ~InData /\ Line.name = pending.globl ->
                /\ m' = [m EXCEPT !.syms =
                            Append(@, Symbol(Line.name, 0, Len(m.text),
                                             IF Line.name = pending.weak THEN "WEAK" ELSE "GLOBAL",
                                             "NOTYPE", TRUE))]
                /\ pending' = [pending EXCEPT !.globl = ""]
                /\ KeepCtx /\ UNCHANGED in_function
         [] in_function -> CtxLabel(Line.name)
         [] ~in_function /\ InData ->
                DataSymbol(Line.name, IF Globl(Line.name) THEN "GLOBAL" ELSE "LOCAL")
         [] OTHER -> KeepCtx /\ UNCHANGED <<in_function, pending, m>>
    /\ UNCHANGED <<text, cur_sec, phase, object>>

-----------------------------------------------------------------------------
(***************************************************************************)
(* Directives with content.  A data directive writes one value, whatever   *)
(* follows its first comma, and a symbol's name reads as 0, without a      *)
(* relocation.                                                             *)
(***************************************************************************)
Width == (".byte" :> 1) @@ (".short" :> 2) @@ (".long" :> 4) @@ (".quad" :> 8)
LEBytes(v, w) == [i \in 1..w |-> IF i <= 4 THEN LE32(v)[i] ELSE IF v < 0 THEN 255 ELSE 0]

(* .asciz: the characters between the quotes, as they stand in the line; a *)
(* backslash is 92.  Those past the line buffer are lost, and an escape is *)
(* one character behind its backslash.                                     *)
EscapeOf == (110 :> 10) @@ (116 :> 9) @@ (114 :> 13) @@ (48 :> 0)
StringBytes(v) ==
    LET s == IF Len(v) <= StringRoom THEN v ELSE SubSeq(v, 1, StringRoom)
        from[i \in 1..Len(s) + 1] ==
            CASE i > Len(s) -> <<>>
              [] i < Len(s) /\ s[i] = 92 ->
                    <<IF s[i + 1] \in DOMAIN EscapeOf THEN EscapeOf[s[i + 1]] ELSE s[i + 1]>>
                    \o from[i + 2]
              [] OTHER -> <<s[i]>> \o from[i + 1]
    IN  from[1]

DataBytes(line, size) ==
    CASE line.k \in DOMAIN Width ->
            LEBytes(IF line.sym = "" THEN line.v[1] ELSE 0, Width[line.k])
      [] line.k = ".zero"        -> [i \in 1..line.n |-> 0]
      [] line.k = ".asciz"       -> Append(StringBytes(line.v), 0)
      [] line.k = ".p2align"     -> [i \in 1..AlignUp(size, 2 ^ line.n) - size |-> 0]
      [] OTHER                   -> <<>>

Directive ==
    /\ AtLine(DOMAIN Width \cup {".zero", ".asciz", ".p2align", "other"}) /\ NextLine
    /\ m' = CASE cur_sec = "DATA"   -> [m EXCEPT !.data = @ \o DataBytes(Line, Len(@))]
              [] cur_sec = "RODATA" -> [m EXCEPT !.rodata = @ \o DataBytes(Line, Len(@))]
              [] cur_sec = "BSS" /\ Line.k = ".zero" -> [m EXCEPT !.bss = @ + Line.n]
              [] OTHER -> m
    /\ KeepCtx /\ UNCHANGED <<text, cur_sec, in_function, pending, phase, object>>

FileOrLoc ==
    /\ AtLine({"file", "loc"}) /\ NextLine
    /\ m' = CASE Line.k = "file" -> [m EXCEPT !.files = Append(@, Line.name)]
              [] cur_sec = "TEXT" ->
                    [m EXCEPT !.locs = Append(@, [offset |-> Len(m.text), file |-> 1,
                                                  line |-> Line.n, col |-> Line.col])]
              [] OTHER -> m
    /\ KeepCtx /\ UNCHANGED <<text, cur_sec, in_function, pending, phase, object>>

-----------------------------------------------------------------------------
(***************************************************************************)
(* Instructions, encoded inside a function of .text and dropped elsewhere. *)
(***************************************************************************)
Encoding == cur_sec = "TEXT" /\ in_function

Encode ==
    /\ AtLine({"instr"}) /\ Line.instr.m \notin DOMAIN jumps /\ NextLine
    /\ LET c == x64_encode_line(Line.instr)
           rels == [i \in 1..Len(c.rels) |->
                       [offset |-> Len(m.text) + c.rels[i].at, sym |-> c.rels[i].sym,
                        type |-> c.rels[i].type, addend |-> c.rels[i].addend]]
       IN  /\ phase' = IF Encoding /\ c.fatal THEN "failed" ELSE phase
           /\ m' = IF Encoding THEN [m EXCEPT !.text = @ \o c.b, !.relocs = @ \o rels] ELSE m
    /\ KeepCtx /\ UNCHANGED <<text, cur_sec, in_function, pending, object>>

(* ctx_find_label: the first definition of the name; a jump keeps 63       *)
(* characters of its label.                                                *)
Clip(name) == IF name \in DOMAIN Clipped THEN Clipped[name] ELSE name
FindLabel(name) ==
    LET at == {i \in 1..Len(labels) : labels[i].name = name}
    IN  IF at = {} THEN -1 ELSE labels[Min(at)].offset

Jump ==
    /\ AtLine({"instr"}) /\ Line.instr.m \in DOMAIN jumps /\ NextLine
    /\ LET label == Clip(Line.instr.ops[1].sym)
           known == FindLabel(label)
           at    == Len(m.text) + Len(jumps[Line.instr.m])
           disp  == IF known >= 0 THEN known - (at - fn_start + 4) ELSE 0
       IN  /\ m' = IF Encoding THEN [m EXCEPT !.text = @ \o jumps[Line.instr.m] \o LE32(disp)]
                   ELSE m
           /\ patches' = IF Encoding /\ known < 0
                         THEN Append(patches, [at |-> at, label |-> label]) ELSE patches
    /\ UNCHANGED <<text, cur_sec, in_function, fn_start, labels, pending, phase, object>>

-----------------------------------------------------------------------------
(* The end of the text: the last function gets its size.                   *)
SizedLast(syms, end) ==
    LET funcs == {i \in 1..Len(syms) : syms[i].type = "FUNC" /\ syms[i].size = 0}
    IN  IF funcs = {} THEN syms
        ELSE [syms EXCEPT ![Max(funcs)].size = end - syms[Max(funcs)].value]

EndOfText ==
    /\ phase = "parse" /\ pc > Len(text)
    /\ m' = IF in_function THEN [m EXCEPT !.syms = SizedLast(@, Len(m.text))] ELSE m
    /\ phase' = "write"
    /\ UNCHANGED <<text, pc, cur_sec, in_function, fn_start, labels, patches, pending, object>>

Write ==
    /\ phase = "write"
    /\ object' = write_elf64_object(m)
    /\ phase' = "done"
    /\ UNCHANGED <<text, pc, cur_sec, in_function, fn_start, labels, patches, pending, m>>

Finished == phase \in {"done", "failed"} /\ UNCHANGED vars

Next ==
    \/ Section \/ Declare \/ DotLabel \/ FunctionLabel \/ PlainLabel
    \/ Directive \/ FileOrLoc \/ Encode \/ Jump \/ EndOfText \/ Write \/ Finished

Spec == Init /\ [][Next]_vars /\ WF_vars(Next)

-----------------------------------------------------------------------------
(***************************************************************************)
(* What the object must say about the text.  The instruction lines in      *)
(* order, the instructions a processor reads from .text, and where each    *)
(* starts.                                                                 *)
(***************************************************************************)
LinesOf(kinds) == {j \in 1..Len(text) : text[j].k \in kinds}
InOrder(kind) == SelectSeq([j \in 1..Len(text) |-> j], LAMBDA j : text[j].k = kind)
InstrLines == InOrder("instr")

(* walk[i]: the i-th instruction, where it starts and where it ends.       *)
Disassemble(bytes, n) ==
    LET t == bytes \o [i \in 1..16 |-> 0]
        walk[i \in 0..n] ==
            IF i = 0 THEN Bad @@ [at |-> 0, end |-> 0]
            ELSE LET p == walk[i-1].end
                     d == IF p < Len(bytes) THEN DecodeAt(t, p + 1) ELSE Bad
                 IN  d @@ [at |-> p, end |-> p + d.len]
    IN  walk

(* The instruction that follows line j: its number, or one past the last.  *)
FollowerOf(j) == 1 + Cardinality({k \in LinesOf({"instr"}) : k < j})

(* The lines the encoder cannot write.  An operand it takes for another:   *)
(* %fs:0, $sym and sym@tpoff(%r), and a register its table does not have.  *)
Misread(t) ==
    \/ t.form \in {"seg", "tp", "immsym"}
    \/ t.form = "reg" /\ t.bank \in DOMAIN x64_regs /\ t.n \notin x64_regs[t.bank]

(* A move whose operands have no form of their own: the memory operands a  *)
(* move of each width can store to and load from.  Of a width below 64     *)
(* bits there is none between registers, none of an immediate, and none    *)
(* with a register from %r8 on, which counts as a 64-bit one.              *)
StoresTo  == [movq |-> {"ind", "disp", "idx"}, movl |-> {"ind", "disp", "idx", "rip"},
              movb |-> {"disp", "idx", "rip"}, movw |-> {"rip"}]
LoadsFrom == [movq |-> {"ind", "disp", "idx", "rip"}, movl |-> {"disp", "idx"},
              movb |-> {"idx"}, movw |-> {}]
MoveLacks(mn, a, b) ==
    IF mn = "movq"
    THEN /\ "xmm" \notin {a.bank, b.bank}
         /\ IF b.form = "reg" THEN a.form \notin {"reg", "imm"} \cup LoadsFrom.movq
            ELSE b.form \notin StoresTo.movq
    ELSE \/ IF b.form = "reg" THEN a.form \notin LoadsFrom[mn] ELSE b.form \notin StoresTo[mn]
         \/ \E t \in {a, b} : t.form = "reg" /\ t.n >= 8

(* A suffixless mnemonic whose width is that of an 8- or 16-bit register   *)
(* with another operand behind it.                                         *)
SuffixLost(i) ==
    /\ is_suffixless_gp(i.m) /\ ImpliedSuffix(i.ops) \in {"b", "w"}
    /\ i.ops[Len(i.ops)].form # "reg"

Lacking(i) ==
    LET mn == IF is_suffixless_gp(i.m) THEN i.m \o ImpliedSuffix(i.ops) ELSE i.m
    IN  \/ \E k \in 1..Len(i.ops) : Misread(i.ops[k])
        \/ SuffixLost(i)
        \/ mn \in DOMAIN StoresTo /\ MoveLacks(mn, i.ops[1], i.ops[2])
        \/ mn = "movsbl" /\ i.ops[1].form \notin {"reg", "rip"}
        \/ mn = "seto"

Decoded(w) == [m |-> w.m, ops |-> w.ops]

(* Every instruction line is in .text as itself, but for exactly the lines *)
(* the encoder has no form for: reading the bytes from the start gives the *)
(* lines' instructions in order and ends with the last, and a line it has  *)
(* no form for is some other instruction, which nobody is told about       *)
(* (x64_encode_line and its helpers).                                      *)
TextDecodes ==
    phase = "done" =>
        LET lines == InstrLines
            walk  == Disassemble(m.text, Len(lines))
        IN  /\ walk[Len(lines)].end = Len(m.text)
            /\ \A i \in 1..Len(lines) :
                  LET instr == text[lines[i]].instr
                  IN  (Decoded(walk[i]) = Meaning(instr)) <=> ~Lacking(instr)

(* What the file says of itself: the encoder covers exactly the            *)
(* instructions the backend emits, and an instruction without an encoding  *)
(* fails loudly (elf_writer.c:275-279, 1830-1836).                         *)
EveryLineEncoded ==
    phase = "done" =>
        LET lines == InstrLines
            walk  == Disassemble(m.text, Len(lines))
        IN  \A i \in 1..Len(lines) : Decoded(walk[i]) = Meaning(text[lines[i]].instr)

(* Every jump lands on the instruction behind its label, forward or        *)
(* backward, whatever functions and sections stand between (EncCtx: labels,*)
(* patches and the offsets relative to fn_start).  Labels that do not fit  *)
(* the 63 characters a jump keeps are left out.                            *)
JumpsLand ==
    phase = "done" =>
        LET lines == InstrLines
            walk  == Disassemble(m.text, Len(lines))
        IN  \A i \in 1..Len(lines), j \in LinesOf({"label"}) :
                (/\ text[lines[i]].instr.m \in DOMAIN jumps
                 /\ text[j].name \notin DOMAIN Clipped
                 /\ text[lines[i]].instr.ops[1].sym = text[j].name) =>
                    SubSeq(m.text, walk[i].field + 1, walk[i].field + 4)
                        = LE32(walk[FollowerOf(j) - 1].end - walk[i].end)

(* The symbol an instruction refers to, and how.                           *)
SymOps(i) == {k \in 1..Len(i.ops) : ~Lacking(i) /\ i.ops[k].form = "rip"}
             \cup (IF i.m = "call" THEN {1} ELSE {})
RelocType(i, k) == IF i.m = "call" THEN "PLT32" ELSE IF i.ops[k].got THEN "GOTPCREL" ELSE "PC32"

(* The relocations are exactly those of the encoded instructions that name *)
(* a symbol: at the instruction's field, of its type, with the addend that   *)
(* makes the field relative to the end of the instruction, and with the    *)
(* index of that symbol in the table as it is written, where undefined     *)
(* symbols come last and locals first (write_elf64_object).                *)
RelocsName ==
    phase = "done" =>
        LET lines == InstrLines
            walk  == Disassemble(m.text, Len(lines))
            wanted == {<<i, k>> \in (1..Len(lines)) \X (1..2) : k \in SymOps(text[lines[i]].instr)}
            Resolved(r) == [r EXCEPT !.sym = IF @ \in 1..Len(object.symtab)
                                             THEN object.symtab[@].name ELSE "?"]
        IN  /\ Len(object.rela) = Cardinality(wanted)
            /\ {Resolved(object.rela[i]) : i \in 1..Len(object.rela)}
                 = {[offset |-> walk[w[1]].field, sym |-> text[lines[w[1]]].instr.ops[w[2]].sym,
                     type |-> RelocType(text[lines[w[1]]].instr, w[2]),
                     addend |-> walk[w[1]].field - walk[w[1]].end] : w \in wanted}

(* What the text declares: the section a line is in, the lines a data      *)
(* label covers, the binding of a name.                                    *)
SectionAt(j) ==
    LET before == {k \in LinesOf({"section"}) : k < j}
    IN  IF before = {} THEN "none" ELSE text[Max(before)].name
Covers(j) == {k \in j + 1..Len(text) :
                 \A i \in j + 1..k : text[i].k \in DOMAIN Width \cup {".zero", ".asciz", "other"}}

(* The bytes a data line asks for.  An address is known to the linker only:*)
(* its eight bytes are none the assembler could write, and only a          *)
(* relocation would supply them.  In a string a backslash and up to three  *)
(* octal digits are one byte.                                              *)
Unknown == -1
EscapeMeaning == (98 :> 8) @@ (102 :> 12) @@ (110 :> 10) @@ (114 :> 13) @@ (116 :> 9)
IsOctal(c) == c \in 48..55
StringMeaning(s) ==
    LET digits(i) == Max({k \in 0..3 : /\ i + k <= Len(s)
                                      /\ \A j \in i + 1..i + k : IsOctal(s[j])})
        from[i \in 1..Len(s) + 1] ==
            CASE i > Len(s) -> <<>>
              [] i <= Len(s) /\ s[i] # 92 -> <<s[i]>> \o from[i + 1]
              [] i <= Len(s) /\ s[i] = 92 /\ digits(i) > 0 ->
                    <<FoldLeft(LAMBDA n, c : 8 * n + c - 48, 0, SubSeq(s, i + 1, i + digits(i)))>>
                    \o from[i + 1 + digits(i)]
              [] OTHER -> <<IF s[i + 1] \in DOMAIN EscapeMeaning THEN EscapeMeaning[s[i + 1]]
                            ELSE s[i + 1]>> \o from[i + 2]
    IN  from[1]
AllBytes(line) ==
    CASE line.sym # "" -> [i \in 1..Width[line.k] |-> Unknown]
      [] line.k \in DOMAIN Width /\ line.sym = "" ->
            FlattenSeq([i \in 1..Len(line.v) |-> LEBytes(line.v[i], Width[line.k])])
      [] line.k = ".zero"  -> [i \in 1..line.n |-> 0]
      [] line.k = ".asciz" -> Append(StringMeaning(line.v), 0)
      [] OTHER             -> <<>>

(* The data lines the assembler does not write as they stand: an address,  *)
(* a list of values, a string longer than the line buffer, and one with an *)
(* escape \b, \f or \ooo.                                                  *)
OddEscape(s, i) ==
    /\ s[i] = 92 /\ (i = 1 \/ s[i - 1] # 92)
    /\ \/ s[i + 1] \in {98, 102} \cup 49..55
       \/ s[i + 1] = 48 /\ i + 1 < Len(s) /\ IsOctal(s[i + 2])
Cut(line) ==
    \/ line.sym # ""
    \/ line.k \in DOMAIN Width /\ Len(line.v) > 1
    \/ /\ line.k = ".asciz"
       /\ Len(line.v) > StringRoom \/ \E i \in 1..Len(line.v) - 1 : OddEscape(line.v, i)
Declared(kind, n) == \E j \in LinesOf({kind}) : text[j].name = n
BindWanted(n) == CASE Declared("weak", n) -> "WEAK" [] Declared("globl", n) -> "GLOBAL"
                   [] OTHER -> "LOCAL"
SectionBytes(s) == CASE s = ".text" -> m.text [] s = ".data" -> m.data
                     [] s = ".rodata" -> m.rodata [] OTHER -> <<>>

Labelled(j) == IF text[j].dot THEN SectionAt(j) # "text" ELSE Declared("type", text[j].name)
SymbolsOf(j) == {i \in 1..Len(object.symtab) : object.symtab[i].name = text[j].name}
SymbolOf(j)  == object.symtab[Min(SymbolsOf(j))]

(* The object's bytes at the symbol of label j are the data behind it.     *)
Holds(j) ==
    LET bytes == FlattenSeq([k \in 1..Cardinality(Covers(j)) |-> AllBytes(text[j + k])])
        sec   == SectionBytes("." \o SectionAt(j))
        at    == SymbolOf(j).value
    IN  at + Len(bytes) <= Len(sec) /\ SubSeq(sec, at + 1, at + Len(bytes)) = bytes


(* The file holds together: every section starts where its header says,    *)
(* aligned as it says, ahead of the next one and of the headers; the       *)
(* indices in links, in sh_info and in the ELF header name the section     *)
(* they are meant for, although indices, headers and contents are written  *)
(* in three orders; and the symbol table's locals end where sh_info says.  *)
ObjectWellFormed ==
    phase = "done" =>
        LET h(i) == object.headers[i]
            named(i, s) == i \in 1..Len(object.headers) /\ h(i).name = s
            filed == {i \in 1..Len(object.headers) : h(i).name # ".bss"}
        IN  /\ object.shnum = 1 + Len(object.headers)
            /\ named(object.shstrndx, ".shstrtab")
            /\ object.placed["headers"] = object.shoff /\ object.shoff % 8 = 0
            /\ \A i \in filed : /\ object.placed[h(i).name] = h(i).offset
                                /\ h(i).offset % h(i).align = 0
                                /\ h(i).offset + h(i).size <= object.shoff
            /\ \A i, j \in filed : i # j /\ h(i).size > 0 /\ h(j).size > 0 =>
                    \/ h(i).offset + h(i).size <= h(j).offset
                    \/ h(j).offset + h(j).size <= h(i).offset
            /\ \A i \in 1..Len(object.headers) :
                  /\ h(i).name \in {".rela.text", ".rela.debug_line"} => named(h(i).link, ".symtab")
                  /\ h(i).name = ".rela.text" => named(h(i).info, ".text")
                  /\ h(i).name = ".rela.debug_line" => named(h(i).info, ".debug_line")
                  /\ h(i).name = ".symtab" =>
                        /\ named(h(i).link, ".strtab")
                        /\ \A k \in 1..Len(object.symtab) :
                              (object.symtab[k].bind = "LOCAL") <=> k < h(i).info

-----------------------------------------------------------------------------
(***************************************************************************)
(* A DWARF consumer: the line machine run over a line program.  Rows are   *)
(* what copy and the special opcodes append.                               *)
(***************************************************************************)
LebLen(p, i) == Min({k \in 1..5 : p[i + k - 1] < 128})
Uleb(p, i) == FoldLeft(LAMBDA acc, k : acc + (p[i + k - 1] % 128) * 128 ^ (k - 1),
                       0, [k \in 1..LebLen(p, i) |-> k])
Sleb(p, i) == LET k == LebLen(p, i)
              IN  Uleb(p, i) - IF p[i + k - 1] >= 64 THEN 128 ^ k ELSE 0

(* An address, which is below 2^31 here.                                   *)
Word(p, i) == p[i] + 256 * p[i + 1] + 65536 * p[i + 2] + 16777216 * p[i + 3]

MachineStep(p, s) ==
    LET op == p[s.i]
        arg == s.i + 1
        skip == [s EXCEPT !.i = arg + LebLen(p, arg)]
        Row(r) == [r EXCEPT !.rows = Append(@, [offset |-> r.addr, file |-> r.file,
                                                line |-> r.line, col |-> r.col])]
    IN  CASE op = 0 /\ p[s.i + 2] = 2 -> [s EXCEPT !.i = @ + 11, !.addr = Word(p, s.i + 3)]
          [] op = 0 /\ p[s.i + 2] # 2 -> [s EXCEPT !.on = FALSE, !.ended = p[s.i + 2] = 1]
          [] op = 1 -> Row([s EXCEPT !.i = arg])
          [] op = 2 -> [skip EXCEPT !.addr = @ + Uleb(p, arg)]
          [] op = 3 -> [skip EXCEPT !.line = @ + Sleb(p, arg)]
          [] op = 4 -> [skip EXCEPT !.file = Uleb(p, arg)]
          [] op = 5 -> [skip EXCEPT !.col = Uleb(p, arg)]
          [] op \in 6..9 -> [s EXCEPT !.on = FALSE]
          [] OTHER  -> Row([s EXCEPT !.i = arg,
                                     !.addr = @ + ((op - OPCODE_BASE) \div LINE_RANGE),
                                     !.line = @ + LINE_BASE + ((op - OPCODE_BASE) % LINE_RANGE)])

RunLines(program) ==
    LET p == program \o [i \in 1..16 |-> 0]
        start == [i |-> 1, addr |-> 0, file |-> 1, line |-> 1, col |-> 0, rows |-> <<>>,
                  on |-> TRUE, ended |-> FALSE]
    IN  FoldLeft(LAMBDA s, k : IF s.on /\ s.i <= Len(program) THEN MachineStep(p, s) ELSE s,
                 start, [k \in 1..Len(program) |-> k])

(* The rows the text asks for: each .loc names the instruction behind it.  *)
RowsWanted ==
    LET walk == Disassemble(m.text, Len(InstrLines))
        locs == InOrder("loc")
    IN  [i \in 1..Len(locs) |-> [offset |-> walk[FollowerOf(locs[i]) - 1].end, file |-> 1,
                                 line |-> text[locs[i]].n, col |-> text[locs[i]].col]]

(* The line program after a linker has put .text at an address and applied *)
(* the relocation of .debug_line, on bytes further than it says.  Byte i   *)
(* of the program is the section's byte prologue + i - 1.                  *)
TextAddress == 4194304
Relocated(line, on) ==
    [i \in 1..Len(line.program) |->
        LET k == line.prologue + i - line.reloc - on
        IN  IF k \in 1..8 THEN (LE32(TextAddress) \o <<0, 0, 0, 0>>)[k] ELSE line.program[i]]
LengthField == 4

(* In a linked program the line program gives back exactly the .loc lines, *)
(* each at the address of the instruction it stands before, if the         *)
(* relocation is applied four bytes further than it says, by the length    *)
(* put ahead of the body it was recorded in; where it says, it does not    *)
(* (build_debug_line).                                                     *)
LineRows ==
    phase = "done" /\ m.locs # <<>> =>
        \A on \in {0, LengthField} :
            LET r == RunLines(Relocated(object.line, on))
                rows == [i \in 1..Len(RowsWanted) |->
                            [RowsWanted[i] EXCEPT !.offset = @ + TextAddress]]
            IN  (r.rows = rows /\ r.ended) <=> on = LengthField
=============================================================================
