----------------------------- MODULE ElfObject -----------------------------
(***************************************************************************)
(* write_elf64_object of elf_writer.c: an assembled module (section bytes, *)
(* symbols, relocations, source lines) becomes a relocatable ELF file.     *)
(*                                                                         *)
(* The file is its section headers, where each section's content really    *)
(* starts, and the tables the headers point at.  Names of sections stand   *)
(* for the shidx_* variables and for the sh_name offsets.                  *)
(***************************************************************************)
EXTENDS Integers, Sequences, SequencesExt, FiniteSetsExt

EHDR64_SIZE == 64
SYM64_SIZE  == 24
RELA64_SIZE == 24

AlignUp(n, a) == a * ((n + a - 1) \div a)

-----------------------------------------------------------------------------
(***************************************************************************)
(* build_debug_line: the header, then the line program.  A row that fits a *)
(* special opcode is one byte; another advances the address and the line   *)
(* one by one and copies.                                                  *)
(***************************************************************************)
uleb128[v \in Nat] == IF v < 128 THEN <<v>> ELSE <<128 + (v % 128)>> \o uleb128[v \div 128]

sleb128[v \in Int] ==
    LET low == v % 128
    IN  IF (v \div 128 = 0 /\ low < 64) \/ (v \div 128 = -1 /\ low >= 64)
        THEN <<low>> ELSE <<128 + low>> \o sleb128[v \div 128]

LINE_BASE   == -5
LINE_RANGE  == 14
OPCODE_BASE == 10

(* The registers of the line machine as the writer tracks them.            *)
LineStart == [address |-> 0, file |-> 1, line |-> 1, col |-> 0]

\* Mutant of RowBytes: an opcode past 255 loses its upper bits.
RowBytes_wraps(r, loc) ==
    LET dl == loc.line - r.line
        dp == loc.offset - r.address
        op == (dl - LINE_BASE) + LINE_RANGE * dp + OPCODE_BASE
    IN  (IF loc.col # r.col THEN <<5>> \o uleb128[loc.col] ELSE <<>>)
        \o IF op >= OPCODE_BASE /\ dl \in LINE_BASE..8 THEN <<op % 256>>
           ELSE (IF dp > 0 THEN <<2>> \o uleb128[dp] ELSE <<>>) \o <<3>> \o sleb128[dl] \o <<1>>

RowBytes(r, loc) ==
    LET dl == loc.line - r.line
        dp == loc.offset - r.address
        op == (dl - LINE_BASE) + LINE_RANGE * dp + OPCODE_BASE
    IN  (IF loc.file # r.file THEN <<4>> \o uleb128[loc.file] ELSE <<>>)
        \o (IF loc.col # r.col THEN <<5>> \o uleb128[loc.col] ELSE <<>>)
        \o IF op \in OPCODE_BASE..255 /\ dl \in LINE_BASE..8 THEN <<op>>
           ELSE (IF dp > 0 THEN <<2>> \o uleb128[dp] ELSE <<>>)
                \o (IF dl # 0 THEN <<3>> \o sleb128[dl] ELSE <<>>) \o <<1>>

RowsBytes(locs) ==
    LET before(i) == IF i = 1 THEN LineStart
                     ELSE [address |-> locs[i-1].offset, file |-> locs[i-1].file,
                           line |-> locs[i-1].line, col |-> locs[i-1].col]
    IN  FlattenSeq([i \in 1..Len(locs) |-> RowBytes(before(i), locs[i])])

(* version, header_length, five parameters, nine opcode lengths, no        *)
(* directory, the files with three zero attributes each, the terminator.   *)
LineHeaderSize(files) == 2 + 4 + 5 + 9 + 1 + FoldSeq(LAMBDA f, n : n + Len(f) + 4, 0, files) + 1

(* DW_LNE_set_address, whose eight-byte operand is relocated against .text.*)
LineProgram(locs) == <<0, 9, 2>> \o [i \in 1..8 |-> 0] \o RowsBytes(locs) \o <<0, 1, 1>>

(* The section: the four-byte length written ahead of the body, and the    *)
(* relocation, recorded at the operand's offset in the body.               *)
build_debug_line(files, locs) ==
    [prologue |-> 4 + LineHeaderSize(files), program |-> LineProgram(locs),
     reloc    |-> LineHeaderSize(files) + 3]

-----------------------------------------------------------------------------
(***************************************************************************)
(* Sections.  Three orders are written down separately in the code: the    *)
(* one indices are assigned in, the one headers are written in, and the    *)
(* one contents are laid out and written in.                               *)
(***************************************************************************)
Present(m, s) ==
    CASE s = ".data"      -> m.data # <<>>
      [] s = ".rodata"    -> m.rodata # <<>>
      [] s = ".bss"       -> m.bss > 0
      [] s = ".rela.text" -> m.relocs # <<>>
      [] s \in {".debug_line", ".rela.debug_line", ".debug_info", ".debug_abbrev",
                ".debug_frame"} -> m.locs # <<>>
      [] OTHER            -> TRUE

IndexOrder(m) ==
    SelectSeq(<<".text", ".data", ".rodata", ".bss", ".rela.text", ".symtab", ".debug_line",
                ".rela.debug_line", ".debug_info", ".debug_abbrev", ".debug_frame",
                ".strtab", ".shstrtab">>, LAMBDA s : Present(m, s))
HeaderOrder(m) ==
    SelectSeq(<<".text", ".data", ".rodata", ".bss", ".rela.text", ".symtab", ".debug_line",
                ".rela.debug_line", ".debug_info", ".debug_abbrev", ".debug_frame",
                ".strtab", ".shstrtab">>, LAMBDA s : Present(m, s))

(* shidx_*, with the -1 of an absent section.                              *)
Shidx(m, s) == IF Present(m, s) THEN CHOOSE i \in 1..Len(IndexOrder(m)) : IndexOrder(m)[i] = s
               ELSE -1

-----------------------------------------------------------------------------
(***************************************************************************)
(* Symbols.  The parser leaves 3 for .data and 4 for .rodata in an object  *)
(* symbol; a symbol that is neither function nor object keeps the 0 it was *)
(* made with.                                                              *)
(***************************************************************************)
Symbol(n, sh, v, b, ty, def) ==
    [name |-> n, shndx |-> sh, value |-> v, size |-> 0, bind |-> b, type |-> ty, defined |-> def]


PatchIndex(m, s) ==
    LET at(sec) == IF Present(m, sec) THEN Shidx(m, sec) ELSE 0
    IN  CASE s.type = "FUNC" -> [s EXCEPT !.shndx = Shidx(m, ".text")]
          [] s.type = "OBJECT" /\ s.shndx = 3 -> [s EXCEPT !.shndx = at(".data")]
          [] s.type = "OBJECT" /\ s.shndx = 4 -> [s EXCEPT !.shndx = at(".rodata")]
          [] OTHER -> s

Names(syms) == {syms[i].name : i \in 1..Len(syms)}

(* Relocations against names no symbol has yet add an undefined global,    *)
(* once each.                                                              *)
AddUndefined(syms, relocs) ==
    FoldLeft(LAMBDA acc, r : IF r.sym \in Names(acc) THEN acc
                             ELSE Append(acc, Symbol(r.sym, 0, 0, "GLOBAL", "NOTYPE", FALSE)),
             syms, relocs)

AllSyms(m) ==
    LET patched == [i \in 1..Len(m.syms) |-> PatchIndex(m, m.syms[i])]
        section == IF m.locs = <<>> THEN <<>>
                   ELSE <<Symbol(".text", Shidx(m, ".text"), 0, "LOCAL", "SECTION", TRUE)>>
    IN  AddUndefined(patched \o section, m.relocs)

Locals(syms)  == SelectSeq(syms, LAMBDA s : s.bind = "LOCAL")
Globals(syms) == SelectSeq(syms, LAMBDA s : s.bind # "LOCAL")

(* Entries 1.. of .symtab; entry 0 is the null symbol.                     *)
Symtab(syms) == Locals(syms) \o Globals(syms)

(* sh_info of .symtab: the number of entries ahead of the first global.    *)
SymtabInfo(syms) == 1 + Len(Locals(syms))

(* The index a relocation names: the first local of the name, else the     *)
(* first other, else 0.                                                    *)
FirstNamed(syms, n) ==
    LET at == {i \in 1..Len(syms) : syms[i].name = n}
    IN  IF at = {} THEN 0 ELSE Min(at)

\* Mutant of SymIdx: globals are numbered as if no local stood ahead of them.
SymIdx_globalsFirst(syms, n) ==
    LET l == FirstNamed(Locals(syms), n)
        g == FirstNamed(Globals(syms), n)
    IN  IF l # 0 THEN l ELSE g

SymIdx(syms, n) ==
    LET l == FirstNamed(Locals(syms), n)
        g == FirstNamed(Globals(syms), n)
    IN  CASE l # 0 -> l [] g # 0 -> SymtabInfo(syms) + g - 1 [] OTHER -> 0

Rela(syms, relocs) ==
    [i \in 1..Len(relocs) |-> [offset |-> relocs[i].offset, sym |-> SymIdx(syms, relocs[i].sym),
                               type |-> relocs[i].type, addend |-> relocs[i].addend]]

-----------------------------------------------------------------------------
(***************************************************************************)
(* Layout and headers.                                                     *)
(***************************************************************************)
StrtabSize(names) == 1 + FoldSeq(LAMBDA n, k : k + Len(n) + 1, 0, names)

(* debug_frame: a CIE of 18 and an FDE of 24 bytes, each padded until its  *)
(* length field is a multiple of 8.                                        *)
FrameSize == (4 + AlignUp(18 - 4, 8)) + (4 + AlignUp(24 - 4, 8))

SizeOf(m, syms, s) ==
    IF ~Present(m, s) THEN 0
    ELSE CASE s = ".text"   -> Len(m.text)
           [] s = ".data"   -> Len(m.data)
           [] s = ".rodata" -> Len(m.rodata)
           [] s = ".bss"    -> m.bss
           [] s = ".rela.text" -> RELA64_SIZE * Len(m.relocs)
           [] s = ".symtab" -> SYM64_SIZE * (1 + Len(syms))
           [] s = ".strtab" -> StrtabSize([i \in 1..Len(syms) |-> syms[i].name])
           [] s = ".shstrtab" -> StrtabSize(HeaderOrder(m))
           [] s = ".debug_line" ->
                LET d == build_debug_line(m.files, m.locs) IN d.prologue + Len(d.program)
           [] s = ".rela.debug_line" -> RELA64_SIZE
           [] s = ".debug_info"   -> 44
           [] s = ".debug_abbrev" -> 16
           [] s = ".debug_frame"  -> FrameSize

(* Contents in file order, with the alignment applied ahead of each.       *)
FileOrder == <<".text", ".data", ".rodata", ".rela.text", ".debug_line", ".rela.debug_line",
               ".debug_info", ".debug_abbrev", ".debug_frame", ".symtab", ".strtab",
               ".shstrtab", "headers">>
FileAlign == <<1, 16, 16, 8, 8, 8, 8, 8, 8, 1, 1, 1, 8>>

(* Compute layout: *_off.                                                  *)
LayoutOf(m, syms) ==
    LET off[k \in 1..Len(FileOrder)] ==
            IF k = 1 THEN EHDR64_SIZE
            ELSE AlignUp(off[k-1] + SizeOf(m, syms, FileOrder[k-1]), FileAlign[k])
    IN  off

\* Mutant of Padded: the second debug section follows the first directly.
Padded_notDebugInfo == {".data", ".rodata", ".rela.text", ".debug_line", "headers"}

(* Write section content: pads to the layout's offset ahead of the         *)
(* sections that are aligned there, and appends the others.                *)
Padded == {".data", ".rodata", ".rela.text", ".debug_line", ".rela.debug_line", ".debug_info",
           ".debug_abbrev", ".debug_frame", "headers"}
Written(m, syms, off) ==
    LET pos[k \in 1..Len(FileOrder)] ==
            IF k = 1 THEN EHDR64_SIZE
            ELSE LET end == pos[k-1] + SizeOf(m, syms, FileOrder[k-1])
                 IN  IF FileOrder[k] \in Padded /\ end < off[k] THEN off[k] ELSE end
    IN  pos

Pos(s) == CHOOSE k \in 1..Len(FileOrder) : FileOrder[k] = s
ShAlign(s) ==
    CASE s = ".text" -> 16
      [] s \in {".debug_line", ".debug_info", ".debug_abbrev", ".strtab", ".shstrtab"} -> 1
      [] OTHER -> 8

Header(m, syms, off, s) ==
    [name |-> s, size |-> SizeOf(m, syms, s), align |-> ShAlign(s),
     offset |-> IF s = ".bss" THEN off[Pos(".rodata")] + SizeOf(m, syms, ".rodata")
                ELSE off[Pos(s)],
     link |-> CASE s \in {".rela.text", ".rela.debug_line"} -> Shidx(m, ".symtab")
                [] s = ".symtab" -> Shidx(m, ".strtab") [] OTHER -> 0,
     info |-> CASE s = ".rela.text" -> Shidx(m, ".text")
                [] s = ".rela.debug_line" -> Shidx(m, ".debug_line")
                [] s = ".symtab" -> SymtabInfo(syms) [] OTHER -> 0]

write_elf64_object(m) ==
    LET syms == AllSyms(m)
        off  == LayoutOf(m, syms)
    IN  [headers  |-> [i \in 1..Len(HeaderOrder(m)) |-> Header(m, syms, off, HeaderOrder(m)[i])],
         placed   |-> [s \in ToSet(FileOrder) |-> Written(m, syms, off)[Pos(s)]],
         shoff    |-> off[Len(FileOrder)],
         shnum    |-> 1 + Len(IndexOrder(m)),
         shstrndx |-> Shidx(m, ".shstrtab"),
         symtab   |-> Symtab(syms),
         rela     |-> Rela(syms, m.relocs),
         line     |-> build_debug_line(m.files, m.locs),
         linesym  |-> SymIdx(syms, ".text")]
=============================================================================
