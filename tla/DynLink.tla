------------------------------ MODULE DynLink ------------------------------
(***************************************************************************)
(* The dynamic linking path, elf_link steps 2 to 9 for a PIE or a shared   *)
(* object.  The layout (module Layout) comes first; the relocation walk    *)
(* patches what it can with the addresses of that layout and collects      *)
(* imports, PLT entries, GOT slots and dynamic relocations; then the       *)
(* synthesized sections are laid out, the writable sections are shifted    *)
(* above the read-only region, deferred fields are filled, and everything  *)
(* is appended to the file in address order.                               *)
(***************************************************************************)
EXTENDS StaticLink, SequencesExt

CONSTANTS
    ElfHash,         \* elf_sysv_hash, of each name that can reach .dynsym
    StrSize,         \* the bytes .dynstr takes
    Headers          \* the bytes the ELF header and program headers take

\* Entry sizes of the synthesized sections.
PltEnt == 16
GotEnt == 8
RelaEnt == 24
SymEnt == 24
HashWord == 4
DynEnt == 16

ASSUME ReserveAssumption ==
    Headers \in 0 .. Page /\ StrSize \in Nat /\ Start % Page = 0 /\ Start >= Page

\* The hash is any function of the names, the same here and in the loader;
\* the exports are the canonical definitions of the link's non-local names.
NameIds == DOMAIN ElfHash
ExportRef == [name : NameIds, sym : SymRef]
ASSUME HashAssumption == \A n \in NameIds : ElfHash[n] \in Nat
ASSUME DynAssumption ==
    \A l \in Links : l.mode # "static" =>
        /\ l.exports \in Seq(ExportRef)
        /\ \A i \in 1 .. Len(l.rels) :
            l.rels[i].sym.kind = "import" => l.rels[i].sym.id \in NameIds

\* pc: "scan", "synth", "fill", "fix", "dynentry", "hash" and "dynemit".
VARIABLES
    dsyms,           \* .dynsym without its null entry: name and value
    gots, plts,      \* GOT slots; the dynamic symbol of each PLT entry
    rdyn,            \* dynamic relocations of data fields
    fixups,          \* PLT and GOT references waiting for addresses
    exps, xi,        \* exports: position in dsyms and definition; the next to list
    nbucket,         \* how many buckets .hash has
    buckets, chain,  \* .hash: the symbol at each bucket, the one after each symbol
    meta,            \* addresses of the synthesized sections
    left,            \* emit targets not yet in the file
    filepos          \* where each emit target went

hashVars == <<nbucket, buckets, chain>>
dynVars == <<dsyms, gots, plts, rdyn, fixups, exps, xi, hashVars, meta, left, filepos>>

\* The relocation types the walk knows.
DynTypes == {"PC32", "PLT32", "GOT", "R64"}
Internal(y) == y.kind # "import"
IsShared == link.mode = "shared"

\* Positions in a list of records by name, 0 if there is none.  The code's
\* dynidx counts from 0: it is Position - 1.
Position(seq, n) ==
    IF \E i \in 1 .. Len(seq) : seq[i].name = n
    THEN CHOOSE i \in 1 .. Len(seq) : seq[i].name = n
    ELSE 0

DynSym(n) == [name |-> n, value |-> 0]

\* GET_DYNIDX_INTO: the dynamic symbols with n among them.
WithSym(ds, n) == IF Position(ds, n) = 0 THEN Append(ds, DynSym(n)) ELSE ds

-----------------------------------------------------------------------------
DynInit ==
    /\ dsyms = << >> /\ gots = << >> /\ plts = << >>
    /\ rdyn = << >> /\ fixups = << >> /\ exps = << >> /\ xi = 1
    /\ nbucket = 1 /\ buckets = << >> /\ chain = << >> /\ meta = << >>
    /\ left = {} /\ filepos = {}

(* Step 3, one relocation.  Rela, S, P and A as in the code.               *)
Rela == Rels[r]
S == SymAddr(Rela.sym)
P == addr[Rela.sec] + Rela.off
Sym == Rela.sym.id
Scanned(t) ==
    /\ pc = "scan" /\ r <= Len(Rels)
    /\ Secs[Rela.sec].slot # DISCARD /\ Rela.type = t
    /\ r' = r + 1 /\ pc' = pc
    /\ UNCHANGED <<layoutVars, exps, xi, hashVars, meta, entry, left, len, filepos>>
PatchNow == patch' = [patch EXCEPT ![r] = (S + Rela.add - P) % Wrap]
Defer(kd, i) == fixups' = Append(fixups, [rel |-> r, P |-> P, kind |-> kd, slot |-> i])

ScanPc32 ==
    /\ Scanned("PC32")
    /\ PatchNow
    /\ UNCHANGED <<dsyms, gots, plts, rdyn, fixups>>

ScanPlt32 ==
    /\ Scanned("PLT32")
    /\ IF Internal(Rela.sym)
       THEN PatchNow /\ UNCHANGED <<dsyms, plts, fixups>>
       ELSE LET di == Position(WithSym(dsyms, Sym), Sym) - 1
                known == {i \in 1 .. Len(plts) : plts[i] = di}
            IN /\ dsyms' = WithSym(dsyms, Sym)
               /\ plts' = IF known = {} THEN Append(plts, di) ELSE plts
               /\ Defer("plt", IF known = {} THEN Len(plts) ELSE Min(known) - 1)
               /\ UNCHANGED patch
    /\ UNCHANGED <<gots, rdyn>>

\* An internal reference gets a slot of its own each time, imports share.
ScanGot ==
    /\ Scanned("GOT")
    /\ IF Internal(Rela.sym)
       THEN /\ gots' = Append(gots, [import |-> FALSE, di |-> 0, target |-> S])
            /\ Defer("got", Len(gots))
            /\ UNCHANGED dsyms
       ELSE LET di == Position(WithSym(dsyms, Sym), Sym) - 1
                g == [import |-> TRUE, di |-> di, target |-> 0]
                known == {i \in 1 .. Len(gots) : gots[i] = g}
            IN /\ dsyms' = WithSym(dsyms, Sym)
               /\ gots' = IF known = {} THEN Append(gots, g) ELSE gots
               /\ Defer("got", IF known = {} THEN Len(gots) ELSE Min(known) - 1)
    /\ UNCHANGED <<patch, plts, rdyn>>

ScanR64 ==
    /\ Scanned("R64")
    /\ IF Internal(Rela.sym)
       THEN /\ rdyn' = Append(rdyn, [off |-> P, type |-> "RELATIVE", sym |-> 0,
                                     add |-> S + Rela.add, rel |-> r])
            /\ UNCHANGED dsyms
       ELSE /\ dsyms' = WithSym(dsyms, Sym)
            /\ rdyn' = Append(rdyn, [off |-> P, type |-> "R64",
                                     sym |-> Position(dsyms', Sym) - 1,
                                     add |-> Rela.add, rel |-> r])
    /\ UNCHANGED <<patch, gots, plts, fixups>>

SkipDiscarded ==
    /\ pc = "scan" /\ r <= Len(Rels) /\ Secs[Rela.sec].slot = DISCARD
    /\ r' = r + 1
    /\ UNCHANGED <<layoutVars, pc, patch, dsyms, gots, plts, rdyn, fixups, exps, xi, hashVars,
                   meta, entry, left, len, filepos>>

\* "unsupported relocation": return 1.
ScanFails ==
    /\ pc = "scan" /\ r <= Len(Rels)
    /\ Secs[Rela.sec].slot # DISCARD /\ Rela.type \notin DynTypes
    /\ pc' = "failed"
    /\ UNCHANGED <<layoutVars, r, patch, dsyms, gots, plts, rdyn, fixups, exps, xi, hashVars,
                   meta, entry, left, len, filepos>>

\* Step 3b: a shared object's definitions follow the imports.
Export ==
    /\ pc = "scan" /\ r > Len(Rels) /\ IsShared /\ xi <= Len(link.exports)
    /\ LET x == link.exports[xi]
       IN IF Position(dsyms, x.name) = 0
          THEN /\ dsyms' = Append(dsyms, DynSym(x.name))
               /\ exps' = Append(exps, [pos |-> Len(dsyms) + 1, sym |-> x.sym])
          ELSE UNCHANGED <<dsyms, exps>>
    /\ xi' = xi + 1
    /\ UNCHANGED <<layoutVars, pc, r, patch, gots, plts, rdyn, fixups, hashVars, meta,
                   entry, left, len, filepos>>

Listed ==
    /\ pc = "scan" /\ r > Len(Rels) /\ (IsShared => xi > Len(link.exports))
    /\ pc' = "synth"
    /\ UNCHANGED <<layoutVars, r, patch, dsyms, gots, plts, rdyn, fixups, exps, xi, hashVars,
                   meta, entry, left, len, filepos>>

\* Step 4: the number of hash buckets is doubled until it is at least half
\* that of the symbols.
Total == Len(dsyms) + 1
DoubleBuckets ==
    /\ pc = "synth" /\ nbucket * 2 < Total
    /\ nbucket' = nbucket * 2
    /\ UNCHANGED <<layoutVars, pc, r, patch, dsyms, gots, plts, rdyn, fixups, exps, xi, buckets,
                   chain, meta, entry, left, len, filepos>>

OutEnd(s) == outVa[s] + outSize[s]
SynthR ==
    LET pltVa == AlignUp(OutEnd(TEXT), 16)
        rOff == Longer(AlignUp(pltVa + Len(plts) * PltEnt, Page), AlignUp(OutEnd(RODATA), Page))
        hashSize == (2 + nbucket + Total) * HashWord
        dynsym == AlignUp(rOff + hashSize, 8)
        dynstr == dynsym + Total * SymEnt
        reladyn == AlignUp(dynstr + StrSize, 8)
    IN [plt |-> pltVa, hash |-> rOff, hashSize |-> hashSize, dynsym |-> dynsym,
        dynstr |-> dynstr, reladyn |-> reladyn,
        regionEnd |-> reladyn + (Len(rdyn) + Len(plts)) * RelaEnt]

\* How far the writable sections move up to clear the read-only region.
Shift(R) ==
    IF outVa[DATA] < R.regionEnd THEN AlignUp(R.regionEnd - outVa[DATA], Page) ELSE 0

Synthesize ==
    /\ pc = "synth" /\ nbucket * 2 >= Total
    /\ LET R == SynthR
           delta == Shift(R)
           floor == Longer(R.regionEnd, OutEnd(BSS) + delta)
           got == AlignUp(floor, Page)
           gotplt == got + Len(gots) * GotEnt
       IN meta' = [plt |-> R.plt, hash |-> R.hash, hashSize |-> R.hashSize,
                    dynsym |-> R.dynsym, dynstr |-> R.dynstr, reladyn |-> R.reladyn,
                    relaplt |-> R.reladyn + (Len(rdyn) + Len(gots)) * RelaEnt,
                    got |-> got, gotplt |-> gotplt,
                    dynamic |-> gotplt + Len(plts) * GotEnt, delta |-> delta]
    /\ pc' = "fill"
    /\ UNCHANGED <<layoutVars, r, patch, dsyms, gots, plts, rdyn, fixups, exps, xi, hashVars,
                   entry, left, len, filepos>>

\* s->va and the output slots after the shift, and sym_addr on them: a COMMON
\* symbol was made absolute by the layout and does not move.
MovedBy(s) == IF Writable(s) THEN meta.delta ELSE 0
Va(i) == addr[i] + MovedBy(Secs[i].slot)
ShiftedAddr(y) ==
    SymAddr(y) + CASE y.kind = "sec" -> MovedBy(Secs[y.id].slot)
                   [] y.kind \in {"init_start", "init_end"} -> MovedBy(INIT_ARRAY)
                   [] OTHER -> 0

\* Mutant of FillExports: the values of the layout before the shift.
FillExports_early ==
    /\ pc = "fill"
    /\ dsyms' = [i \in 1 .. Len(dsyms) |->
                    IF \E x \in ToSet(exps) : x.pos = i
                    THEN [dsyms[i] EXCEPT !.value =
                            SymAddr((CHOOSE x \in ToSet(exps) : x.pos = i).sym)]
                    ELSE dsyms[i]]
    /\ pc' = "fix"
    /\ UNCHANGED <<layoutVars, r, patch, gots, plts, rdyn, fixups, exps, xi, hashVars, meta,
                   entry, left, len, filepos>>

\* Step 5b: the exported values, from the shifted addresses.
FillExports ==
    /\ pc = "fill"
    /\ dsyms' = [i \in 1 .. Len(dsyms) |->
                    IF \E x \in ToSet(exps) : x.pos = i
                    THEN [dsyms[i] EXCEPT !.value =
                            ShiftedAddr((CHOOSE x \in ToSet(exps) : x.pos = i).sym)]
                    ELSE dsyms[i]]
    /\ pc' = "fix"
    /\ UNCHANGED <<layoutVars, r, patch, gots, plts, rdyn, fixups, exps, xi, hashVars, meta,
                   entry, left, len, filepos>>

\* Step 5: the deferred fields.
SlotVa(fx) == IF fx.kind = "plt" THEN meta.plt + fx.slot * PltEnt
                                 ELSE meta.got + fx.slot * GotEnt
ApplyFixups ==
    /\ pc = "fix"
    /\ patch' = [i \in 1 .. Len(Rels) |->
                    IF \E fx \in ToSet(fixups) : fx.rel = i
                    THEN LET fx == CHOOSE fx \in ToSet(fixups) : fx.rel = i
                         IN (SlotVa(fx) + Rels[i].add - fx.P) % Wrap
                    ELSE patch[i]]
    /\ pc' = "dynentry"
    /\ UNCHANGED <<layoutVars, r, dsyms, gots, plts, rdyn, fixups, exps, xi, hashVars, meta,
                   entry, left, len, filepos>>

(* Step 7: the relocation sections.  .rela.dyn holds the data relocations  *)
(* followed by one entry per GOT slot (the mutant leaves .dynsym's null    *)
(* entry out of account).                                                  *)
RelaDyn_offByOne ==
    [i \in 1 .. Len(rdyn) |->
        [off |-> rdyn[i].off, type |-> rdyn[i].type, sym |-> rdyn[i].sym, add |-> rdyn[i].add]]
    \o [i \in 1 .. Len(gots) |->
        [off |-> meta.got + (i - 1) * GotEnt,
         type |-> IF gots[i].import THEN "GLOB_DAT" ELSE "RELATIVE",
         sym |-> gots[i].di, add |-> gots[i].target]]

RelaDyn ==
    [i \in 1 .. Len(rdyn) |->
        [off |-> rdyn[i].off, type |-> rdyn[i].type, sym |-> rdyn[i].sym, add |-> rdyn[i].add]]
    \o [i \in 1 .. Len(gots) |->
        [off |-> meta.got + (i - 1) * GotEnt,
         type |-> IF gots[i].import THEN "GLOB_DAT" ELSE "RELATIVE",
         sym |-> IF gots[i].import THEN gots[i].di + 1 ELSE 0,
         add |-> gots[i].target]]
RelaPlt ==
    [i \in 1 .. Len(plts) |->
        [off |-> meta.gotplt + (i - 1) * GotEnt, sym |-> plts[i] + 1]]

\* Stub e of .plt is a jump through memory, of JumpEnd bytes, whose field
\* holds the distance to the .got.plt slot e.
JumpEnd == 6
JumpField(e) ==
    meta.gotplt + (e - 1) * GotEnt - (meta.plt + (e - 1) * PltEnt + JumpEnd)

\* Step 8: .dynamic has six tags always and more for what there is.
DynamicSize ==
    DynEnt * (6 + (IF RelaDyn = << >> THEN 0 ELSE 3) + (IF plts = << >> THEN 0 ELSE 4)
                + (IF outSize[INIT_ARRAY] = 0 THEN 0 ELSE 2))

(* Step 9: what is written to the file, and where it belongs.              *)
Target(what, id, v, n) == [what |-> what, id |-> id, va |-> v, size |-> n]
SectionTargets ==
    {Target("sec", i, Va(i), Secs[i].size) :
        i \in {j \in SecIds : HasData(j) /\ Secs[j].slot # DISCARD}}
Targets ==
    SectionTargets \cup
    {t \in {Target("plt", 0, meta.plt, Len(plts) * PltEnt),
            Target("hash", 0, meta.hash, meta.hashSize),
            Target("dynsym", 0, meta.dynsym, Total * SymEnt),
            Target("dynstr", 0, meta.dynstr, StrSize),
            Target("reladyn", 0, meta.reladyn, Len(RelaDyn) * RelaEnt),
            Target("relaplt", 0, meta.relaplt, Len(RelaPlt) * RelaEnt),
            Target("got", 0, meta.got, (Len(gots) + Len(plts)) * GotEnt),
            Target("dynamic", 0, meta.dynamic, DynamicSize)} : t.size > 0}

DynFindEntry ==
    /\ pc = "dynentry" /\ (IsShared \/ link.entry # NoEntry)
    /\ entry' = IF IsShared THEN 0 ELSE ShiftedAddr(link.entry)
    /\ buckets' = [h \in 0 .. nbucket - 1 |-> 0]
    /\ pc' = "hash"
    /\ UNCHANGED <<layoutVars, r, patch, dsyms, gots, plts, rdyn, fixups, exps, xi, nbucket,
                   chain, meta, left, len, filepos>>

DynEntryMissing ==
    /\ pc = "dynentry" /\ ~IsShared /\ link.entry = NoEntry
    /\ pc' = "failed"
    /\ UNCHANGED <<layoutVars, r, patch, dsyms, gots, plts, rdyn, fixups, exps, xi, hashVars,
                   meta, entry, left, len, filepos>>

(* Step 7, .hash: the dynamic symbols are pushed on their buckets' chains   *)
(* one by one.  The mutant does not link the chains.                       *)
Bucket(i) == ElfHash[dsyms[i].name] % nbucket
PushHash_noChain ==
    /\ pc = "hash" /\ Len(chain) < Len(dsyms)
    /\ chain' = Append(chain, 0)
    /\ buckets' = [buckets EXCEPT ![Bucket(Len(chain) + 1)] = Len(chain) + 1]
    /\ UNCHANGED <<layoutVars, pc, r, patch, dsyms, gots, plts, rdyn, fixups, exps, xi, nbucket,
                   meta, entry, left, len, filepos>>

PushHash ==
    /\ pc = "hash" /\ Len(chain) < Len(dsyms)
    /\ LET i == Len(chain) + 1
       IN /\ chain' = Append(chain, buckets[Bucket(i)])
          /\ buckets' = [buckets EXCEPT ![Bucket(i)] = i]
    /\ UNCHANGED <<layoutVars, pc, r, patch, dsyms, gots, plts, rdyn, fixups, exps, xi, nbucket,
                   meta, entry, left, len, filepos>>

\* Step 9 begins: the targets to emit are collected.
StartEmit ==
    /\ pc = "hash" /\ Len(chain) = Len(dsyms)
    /\ left' = Targets
    /\ len' = Headers /\ filepos' = {}
    /\ pc' = "dynemit"
    /\ UNCHANGED <<layoutVars, r, patch, dsyms, gots, plts, rdyn, fixups, exps, xi, hashVars,
                   meta, entry>>

\* Mutant of NextTarget: the sections first, then the tables.
NextTarget_sectionsFirst(t) ==
    /\ t \in left
    /\ \A u \in left : IF (t.what = "sec") = (u.what = "sec") THEN t.va <= u.va ELSE t.what = "sec"

\* The targets are sorted by address (the sort is stable and the sections
\* come first); EMIT_AT only ever fills forward.
NextTarget(t) ==
    /\ t \in left
    /\ \A u \in left : t.va < u.va \/ (t.va = u.va /\ (t.what = "sec" \/ u.what # "sec"))

EmitAt ==
    /\ pc = "dynemit"
    /\ \E t \in left :
        /\ NextTarget(t)
        /\ left' = left \ {t}
        /\ filepos' = filepos \cup {[target |-> t, pos |-> Longer(len, t.va)]}
        /\ len' = Longer(len, t.va) + t.size
    /\ UNCHANGED <<layoutVars, pc, r, patch, dsyms, gots, plts, rdyn, fixups, exps, xi, hashVars,
                   meta, entry>>

DynWriteFile ==
    /\ pc = "dynemit" /\ left = {}
    /\ pc' = "done"
    /\ UNCHANGED <<layoutVars, r, patch, dsyms, gots, plts, rdyn, fixups, exps, xi, hashVars,
                   meta, entry, left, len, filepos>>

DynStep ==
    \/ ScanPc32 \/ ScanPlt32 \/ ScanGot \/ ScanR64 \/ SkipDiscarded \/ ScanFails
    \/ Export \/ Listed \/ DoubleBuckets \/ Synthesize \/ FillExports \/ ApplyFixups
    \/ DynFindEntry \/ DynEntryMissing \/ PushHash \/ StartEmit \/ EmitAt \/ DynWriteFile

-----------------------------------------------------------------------------
DynDone == pc = "done" /\ link.mode # "static"

\* The program headers (step 9), the file offset being the address.
REnd == meta.relaplt + Len(plts) * RelaEnt
RwStart == AlignUp(Longer(REnd, outVa[DATA] + meta.delta), Page)
RwEnd == meta.dynamic + DynamicSize

\* The address a reference means in the finished image.
FinalAddr(y) == IF y.kind = "com" THEN comaddr[y.id] + meta.delta ELSE ShiftedAddr(y)
Place(rel) == Va(rel.sec) + rel.off
Live == {i \in 1 .. Len(Rels) : Secs[Rels[i].sec].slot # DISCARD}
FieldTarget(i) == Signed(patch[i]) + Place(Rels[i]) - Rels[i].add

\* The name of entry n of .dynsym, whose entry 0 is null.
NoName == 0
DynName(n) == IF n \in 1 .. Len(dsyms) THEN dsyms[n].name ELSE NoName

(* When the PLT fits between code and .rodata and the relocations appended *)
(* for GOT slots fit in the rest of the read-only region's last page.      *)
Fits ==
    /\ meta.plt + Len(plts) * PltEnt <= outVa[RODATA]
    /\ REnd <= outVa[DATA] + meta.delta

\* The file, which the loader maps at addresses equal to its offsets, has
\* byte off of an emitted part at v.
FileHas(what, id, off, v) ==
    \E e \in filepos : e.target.what = what /\ e.target.id = id /\ e.pos + off = v

\* The field of relocation i, from where the file has it, leads to where the
\* file has byte off of an emitted part.
Leads(i, what, id, off) ==
    \E f \in filepos :
        /\ f.target.what = "sec" /\ f.target.id = Rels[i].sec
        /\ FileHas(what, id, off, Signed(patch[i]) + (f.pos + Rels[i].off) - Rels[i].add)

\* Code and read-only data are not moved by the shift.
FromUnmoved(i) == ~Writable(Secs[Rels[i].sec].slot)

(* A call of an imported function, from a section that is not moved, leads *)
(* to a stub of the PLT in the file, and the stub, from where it is, jumps *)
(* through a slot in the file's GOT that the loader fills with the address *)
(* of that very function: a JUMP_SLOT relocation of the table that         *)
(* DT_JMPREL points to has the slot's address and the function's name.     *)
CallsBound ==
    DynDone /\ Fits =>
        \A i \in Live : Rels[i].type = "PLT32" /\ ~Internal(Rels[i].sym) /\ FromUnmoved(i) =>
            \E e, j \in 1 .. Len(plts) :
                /\ Leads(i, "plt", 0, (e - 1) * PltEnt)
                /\ FileHas("plt", 0, (e - 1) * PltEnt + JumpEnd + JumpField(e), RelaPlt[j].off)
                /\ FileHas("got", 0, (Len(gots) + e - 1) * GotEnt, RelaPlt[j].off)
                /\ FileHas("relaplt", 0, 0, meta.relaplt)
                /\ DynName(RelaPlt[j].sym) = Rels[i].sym.id

(* Code that reads an imported object's address through the GOT, from a    *)
(* section that is not moved, leads to a slot of the GOT in the file; one  *)
(* relocation of the table that DT_RELA points to fills it, a GLOB_DAT     *)
(* one with the object's name.                                             *)
GotImportsBound ==
    DynDone /\ Fits =>
        \A i \in Live : Rels[i].type = "GOT" /\ ~Internal(Rels[i].sym) /\ FromUnmoved(i) =>
            \E s \in 1 .. Len(gots) : \E j \in 1 .. Len(RelaDyn) :
                /\ Leads(i, "got", 0, (s - 1) * GotEnt)
                /\ \A m \in 1 .. Len(RelaDyn) :
                    FileHas("got", 0, (s - 1) * GotEnt, RelaDyn[m].off) <=> m = j
                /\ FileHas("reladyn", 0, 0, meta.reladyn)
                /\ RelaDyn[j].type = "GLOB_DAT"
                /\ DynName(RelaDyn[j].sym) = Rels[i].sym.id

(* Between code and read-only data, which are not shifted, PC-relative     *)
(* fields lead to the bytes of their definition in the file.               *)
ReadOnlyRefsReach ==
    DynDone /\ Fits =>
        \A i \in Live :
            LET y == Rels[i].sym IN
            /\ Rels[i].type \in {"PC32", "PLT32"} /\ y.kind = "sec" /\ FromUnmoved(i)
            /\ Secs[y.id].slot \in {TEXT, RODATA} /\ HasData(y.id)
            => Leads(i, "sec", y.id, y.val)

(* In a finished image whose parts fit, calls and GOT reads of imports are *)
(* bound by the loader to the name they ask for, and fields between        *)
(* sections that are not moved reach their definition: all read from where *)
(* the file has the field, the stub, the slot and the tables (the          *)
(* relocation loop of elf_link, the tables its synthesis lays out, and     *)
(* EMIT_AT).  Words that hold an import's address are not covered: their   *)
(* relocations name the dynamic symbol before it (linker.c:971).           *)
ReferencesBound == CallsBound /\ GotImportsBound /\ ReadOnlyRefsReach

(* The loader, which takes a name's bucket and follows the chain until the *)
(* null entry, finds every dynamic symbol through .hash: what it visits is *)
(* the least set with the symbol at the bucket that the chain does not     *)
(* lead out of.                                                            *)
Followed(W, h) == buckets[h] \in W /\ \A j \in W \ {0} : chain[j] \in W
HashFindsAll ==
    DynDone =>
        \A i \in 1 .. Len(dsyms) : \A W \in SUBSET (0 .. Len(dsyms)) :
            Followed(W, Bucket(i)) => i \in W /\ 0 \in W

(* In an image whose parts fit, what another object binds to is what the   *)
(* file holds: every part lies at the offset that is its address, the      *)
(* writable ones in the writable segment, and an exported name's value is  *)
(* its place in its section's contents, although exports are listed before *)
(* the shift that moves them.  (COMMON exports have no contents.)          *)
ExportsInFile ==
    DynDone /\ Fits =>
        /\ \A e \in filepos :
            /\ e.pos = e.target.va
            /\ e.target.what \in {"got", "dynamic"}
                \/ (e.target.what = "sec" /\ Writable(Secs[e.target.id].slot))
               => RwStart <= e.target.va /\ e.target.va + e.target.size <= RwEnd
        /\ \A i \in 1 .. Len(exps) : exps[i].sym.kind = "sec" /\ HasData(exps[i].sym.id) =>
            \E e \in filepos :
                /\ e.target.what = "sec" /\ e.target.id = exps[i].sym.id
                /\ dsyms[exps[i].pos].value = e.pos + exps[i].sym.val

(* EMIT_AT, which only fills forward, puts every part at the offset that   *)
(* the program headers and the references to it give, exactly when the     *)
(* tables fit, if .rodata and .data begin with a section: otherwise a part *)
(* is appended behind its place, with what follows it in its segment.      *)
Begun(s) == \E i \in SecIds : Secs[i].slot = s /\ HasData(i) /\ addr[i] = outVa[s]
EmittedInPlace ==
    DynDone /\ Begun(RODATA) /\ Begun(DATA) =>
        ((\A e \in filepos : e.pos = e.target.va) <=> Fits)

-----------------------------------------------------------------------------
(* What the documents say of the dynamic path, and the code does not keep: *)
(* see the findings.                                                       *)

(* README.md: the internal linker supports PIC/PIE/shared ET_DYN with      *)
(* x86_64 relocations.  Every reference inside the image means the final   *)
(* address of its definition.                                              *)
InternalRefsReach ==
    DynDone =>
        \A i \in Live : LET rel == Rels[i] IN
            Internal(rel.sym) =>
                CASE rel.type \in {"PC32", "PLT32"} -> FieldTarget(i) = FinalAddr(rel.sym)
                  [] rel.type = "R64" ->
                        \E d \in ToSet(RelaDyn) :
                            /\ d.type = "RELATIVE" /\ d.off = Place(rel)
                            /\ d.add = FinalAddr(rel.sym) + rel.add
                  [] rel.type = "GOT" ->
                        \E d \in ToSet(RelaDyn) :
                            /\ d.type = "RELATIVE" /\ d.off = FieldTarget(i)
                            /\ d.add = FinalAddr(rel.sym)
                  [] OTHER -> TRUE
=============================================================================
