---------------------------- MODULE StaticLink ----------------------------
(***************************************************************************)
(* What the two linking paths of linker.c share after the layout, and the  *)
(* static one, elf_link_static steps 3 to 7, from the layout of the        *)
(* resolved objects to the bytes of the ET_EXEC file: relocations are      *)
(* applied one by one, the entry point is looked up, and each section is   *)
(* appended to the file after zero filling up to its file offset.          *)
(***************************************************************************)
EXTENDS Layout, Integers, FiniteSets

CONSTANTS
    Wrap,            \* 2^32: what a 32-bit relocation field can tell apart
    Ehdr, Phdr       \* 64 and 56: the sizes of the ELF and program headers

\* What resolution makes of a symbol (sym_addr): a definition in section id
\* at offset val, COMMON symbol id, a bound of .init_array, undefined, or (in
\* a dynamic link) the name id left to the loader.
SymKinds == {"sec", "com", "init_start", "init_end", "weak", "undef", "import"}
SymRef == [kind : SymKinds, id : Nat, val : Nat]
RelTypes == {"R64", "PC32", "PLT32", "R32", "R32S", "GOT", "OTHER"}
\* Those elf_link_static applies; it gives up at any other.
StaticTypes == {"R64", "PC32", "PLT32", "R32", "R32S"}
Modes == {"static", "pie", "shared"}
Rel == [sec : Nat, off : Nat, type : RelTypes, add : Int, sym : SymRef]
NoEntry == [kind |-> "undef", id |-> 0, val |-> 0]

ASSUME HeaderAssumption == Ehdr \in Nat /\ Phdr \in Nat /\ Ehdr + 6 * Phdr <= Page
ASSUME WrapAssumption == Wrap \in Nat \ {0} /\ Wrap % 2 = 0
ASSUME RelsAssumption ==
    \A l \in Links : l.rels \in Seq(Rel) /\ l.entry \in SymRef /\ l.mode \in Modes

VARIABLES
    pc,              \* "layout"; "reloc", "entry", "emit" of the static path;
                     \* those of DynLink; "done" or "failed"
    r,               \* the next relocation
    patch,           \* the value each relocation wrote
    entry,           \* e_entry
    len,             \* out.len: the file so far
    es, ek,          \* the slot and section being emitted
    fileoff          \* where each section's bytes went, -1 if nowhere

linkVars == <<pc, r, patch, entry, len>>
staticVars == <<es, ek, fileoff>>

Rels == link.rels
HasData(i) == Secs[i].slot # BSS /\ Secs[i].size > 0

\* sym_addr, with a weak undefined symbol at 0.
SymAddr(y) ==
    CASE y.kind = "sec" -> addr[y.id] + y.val
      [] y.kind = "com" -> comaddr[y.id]
      [] y.kind = "init_start" -> InitStart
      [] y.kind = "init_end" -> InitEnd
      [] OTHER -> 0

\* The bytes a relocation leaves at its place.
Field(rel) ==
    LET SA == SymAddr(rel.sym) + rel.add
        P == addr[rel.sec] + rel.off
    IN CASE rel.type = "R64" -> SA
         [] rel.type \in {"PC32", "PLT32"} -> (SA - P) % Wrap
         [] OTHER -> SA % Wrap

FileOffset(v) == Page + (v - Start)
Longer(a, b) == IF a > b THEN a ELSE b
NLoad == Cardinality({s \in Slots : outSize[s] > 0})

-----------------------------------------------------------------------------
LinkInit ==
    /\ LayoutInit
    /\ pc = "layout" /\ r = 1
    /\ patch = [i \in 1 .. Len(Rels) |-> 0]
    /\ entry = 0 /\ len = 0

StaticInit == es = TEXT /\ ek = 0 /\ fileoff = [i \in SecIds |-> -1]

Lay ==
    /\ pc = "layout" /\ LayoutNext
    /\ pc' = IF lpc' # "laid" THEN pc ELSE IF link.mode = "static" THEN "reloc" ELSE "scan"
    /\ UNCHANGED <<r, patch, entry, len>>

\* Mutant of Relocate: the place is taken to be the start of the section.
Relocate_sectionStart ==
    /\ pc = "reloc" /\ r <= Len(Rels)
    /\ Rels[r].sym.kind # "undef" /\ Rels[r].type \in StaticTypes
    /\ patch' = [patch EXCEPT ![r] = Field([Rels[r] EXCEPT !.off = 0])]
    /\ r' = r + 1
    /\ UNCHANGED <<layoutVars, pc, entry, es, ek, len, fileoff>>

Relocate ==
    /\ pc = "reloc" /\ r <= Len(Rels)
    /\ Rels[r].sym.kind # "undef" /\ Rels[r].type \in StaticTypes
    /\ patch' = [patch EXCEPT ![r] = Field(Rels[r])]
    /\ r' = r + 1
    /\ UNCHANGED <<layoutVars, pc, entry, es, ek, len, fileoff>>

\* "undefined symbol" or "unsupported relocation type": return 1.
RelocateFails ==
    /\ pc = "reloc" /\ r <= Len(Rels)
    /\ Rels[r].sym.kind = "undef" \/ Rels[r].type \notin StaticTypes
    /\ pc' = "failed"
    /\ UNCHANGED <<layoutVars, r, patch, entry, es, ek, len, fileoff>>

Relocated ==
    /\ pc = "reloc" /\ r > Len(Rels)
    /\ pc' = "entry"
    /\ UNCHANGED <<layoutVars, r, patch, entry, es, ek, len, fileoff>>

FindEntry ==
    /\ pc = "entry" /\ link.entry # NoEntry
    /\ entry' = SymAddr(link.entry)
    /\ len' = Ehdr + Phdr * (NLoad + 1)
    /\ pc' = "emit"
    /\ UNCHANGED <<layoutVars, r, patch, es, ek, fileoff>>

EntryMissing ==
    /\ pc = "entry" /\ link.entry = NoEntry
    /\ pc' = "failed"
    /\ UNCHANGED <<layoutVars, r, patch, entry, es, ek, len, fileoff>>

\* A slot with contents begins at its file offset; .bss has none in the file.
EmitSlot ==
    /\ pc = "emit" /\ es < BSS /\ ek = 0
    /\ IF outSize[es] > 0
       THEN ek' = 1 /\ es' = es /\ len' = Longer(len, FileOffset(outVa[es]))
       ELSE ek' = 0 /\ es' = es + 1 /\ len' = len
    /\ UNCHANGED <<layoutVars, pc, r, patch, entry, fileoff>>

Emitted(i) == Secs[i].slot = es /\ HasData(i)

\* Mutant of EmitSection: sections are appended without their padding.
EmitSection_noPadding ==
    /\ pc = "emit" /\ ek \in SecIds /\ Emitted(ek)
    /\ fileoff' = [fileoff EXCEPT ![ek] = len]
    /\ len' = len + Secs[ek].size
    /\ ek' = ek + 1
    /\ UNCHANGED <<layoutVars, pc, r, patch, entry, es>>

EmitSection ==
    /\ pc = "emit" /\ ek \in SecIds /\ Emitted(ek)
    /\ fileoff' = [fileoff EXCEPT ![ek] = Longer(len, FileOffset(addr[ek]))]
    /\ len' = fileoff'[ek] + Secs[ek].size
    /\ ek' = ek + 1
    /\ UNCHANGED <<layoutVars, pc, r, patch, entry, es>>

EmitNothing ==
    /\ pc = "emit" /\ ek \in SecIds /\ ~Emitted(ek)
    /\ ek' = ek + 1
    /\ UNCHANGED <<layoutVars, pc, r, patch, entry, es, len, fileoff>>

SlotEmitted ==
    /\ pc = "emit" /\ ek > Len(Secs)
    /\ es' = es + 1 /\ ek' = 0
    /\ UNCHANGED <<layoutVars, pc, r, patch, entry, len, fileoff>>

WriteFile ==
    /\ pc = "emit" /\ es = BSS
    /\ pc' = "done"
    /\ UNCHANGED <<layoutVars, r, patch, entry, es, ek, len, fileoff>>

StaticStep ==
    \/ Relocate \/ RelocateFails \/ Relocated
    \/ FindEntry \/ EntryMissing
    \/ EmitSlot \/ EmitSection \/ EmitNothing \/ SlotEmitted \/ WriteFile

-----------------------------------------------------------------------------
(* The loader's view.  A PT_LOAD entry per slot maps file offset           *)
(* FileOffset(outVa) to outVa, outSize bytes of it from the file except    *)
(* for .bss.                                                               *)
LoadedAt(i) ==
    LET s == Secs[i].slot IN fileoff[i] - FileOffset(outVa[s]) + outVa[s]

(* In the finished file every section with contents lies where its         *)
(* segment's program header makes the loader map it to the address the     *)
(* layout gave it, inside the part read from the file: forward-only        *)
(* appending never pushed a section away.                                  *)
LoadedInPlace ==
    pc = "done" /\ link.mode = "static" =>
        \A i \in SecIds :
            HasData(i) /\ Secs[i].slot # DISCARD =>
                LET s == Secs[i].slot IN
                /\ LoadedAt(i) = addr[i]
                /\ fileoff[i] + Secs[i].size <= FileOffset(outVa[s]) + outSize[s]
                /\ fileoff[i] >= Ehdr + Phdr * (NLoad + 1)

(* The finished program finds what its relocated fields refer to: adding   *)
(* what the processor adds to the field gives the loaded address of the    *)
(* definition plus the addend, 0 for a weak undefined symbol; and no       *)
(* program is written with an undefined symbol or with a field it skipped. *)
Signed(v) == IF v >= Wrap \div 2 THEN v - Wrap ELSE v
LoadedSym(y) ==
    IF y.kind = "sec" /\ HasData(y.id) THEN LoadedAt(y.id) + y.val ELSE SymAddr(y)
Denotes(rel, v) ==
    CASE rel.type \in {"PC32", "PLT32"} -> Signed(v) + LoadedAt(rel.sec) + rel.off
      [] rel.type = "R32S" -> Signed(v)
      [] OTHER -> v
FieldsReach ==
    pc = "done" /\ link.mode = "static" =>
        \A i \in 1 .. Len(Rels) : Secs[Rels[i].sec].slot # DISCARD =>
            /\ Rels[i].sym.kind # "undef" /\ Rels[i].type \in StaticTypes
            /\ Denotes(Rels[i], patch[i]) = LoadedSym(Rels[i].sym) + Rels[i].add
=============================================================================
