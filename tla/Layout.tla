------------------------------- MODULE Layout -------------------------------
(***************************************************************************)
(* The address layout both linking paths of src/linker.c begin with        *)
(* (elf_link_static step 3, elf_link step 2): for each output slot in      *)
(* linker.ld order, every input section of the slot is placed in object    *)
(* order, and COMMON symbols are allocated at the end of .bss.  A step is  *)
(* an iteration of the loops.                                              *)
(***************************************************************************)
EXTENDS Naturals, Sequences

CONSTANTS
    Page,        \* 0x1000
    Start,       \* the address layout begins at
    Links        \* the sets of input sections and symbols to be linked

\* The output slots, and where sections without SHF_ALLOC go.
TEXT == 1
RODATA == 2
DATA == 3
INIT_ARRAY == 4
BSS == 5
DISCARD == 0
Slots == TEXT .. BSS
WordAlign == 8

OutAlign(s) == IF s = INIT_ARRAY THEN WordAlign ELSE Page

\* (v + a - 1) & ~(a - 1), for the powers of two ELF alignments are.
AlignUp(v, a) == ((v + a - 1) \div a) * a

\* An input section: classify_section's slot, its size and its alignment
\* (parse_object has replaced an alignment of 0 by 1).
Section == [slot : {DISCARD} \cup Slots, size : Nat, align : Nat \ {0}]
Common == [size : Nat, align : Nat \ {0}]

ASSUME PageAssumption == Page \in Nat \ {0} /\ Start \in Nat
ASSUME LinksAssumption ==
    \A l \in Links : l.secs \in Seq(Section) /\ l.coms \in Seq(Common)

VARIABLES
    link,            \* the link's inputs, fixed
    lpc,             \* "open", "place", "common", "close" or "laid"
    slot,            \* the slot being laid out
    k,               \* the next section or COMMON symbol
    va,              \* the running address
    addr,            \* s->va of every input section, 0 until placed
    comaddr,         \* the address every COMMON symbol is given
    outVa, outSize   \* the output slots

layoutVars == <<link, lpc, slot, k, va, addr, comaddr, outVa, outSize>>

Secs == link.secs
Coms == link.coms
SecIds == 1 .. Len(Secs)
ComIds == 1 .. Len(Coms)

LayoutInit ==
    /\ link \in Links
    /\ lpc = "open" /\ slot = TEXT /\ k = 1
    /\ va = Start
    /\ addr = [i \in SecIds |-> 0]
    /\ comaddr = [c \in ComIds |-> 0]
    /\ outVa = [s \in Slots |-> 0]
    /\ outSize = [s \in Slots |-> 0]

\* Mutant of OpenSlot: the slot is not aligned to its own alignment.
OpenSlot_unaligned ==
    /\ lpc = "open"
    /\ outVa' = [outVa EXCEPT ![slot] = va]
    /\ k' = 1 /\ lpc' = "place"
    /\ UNCHANGED <<link, slot, va, addr, comaddr, outSize>>

OpenSlot ==
    /\ lpc = "open"
    /\ va' = AlignUp(va, OutAlign(slot))
    /\ outVa' = [outVa EXCEPT ![slot] = va']
    /\ k' = 1 /\ lpc' = "place"
    /\ UNCHANGED <<link, slot, addr, comaddr, outSize>>

\* Mutant of PlaceSection: the address is recorded before it is aligned.
PlaceSection_alignAfter ==
    /\ lpc = "place" /\ k <= Len(Secs) /\ Secs[k].slot = slot
    /\ addr' = [addr EXCEPT ![k] = va]
    /\ va' = AlignUp(va, Secs[k].align) + Secs[k].size
    /\ k' = k + 1
    /\ UNCHANGED <<link, lpc, slot, comaddr, outVa, outSize>>

PlaceSection ==
    /\ lpc = "place" /\ k <= Len(Secs) /\ Secs[k].slot = slot
    /\ LET a == AlignUp(va, Secs[k].align)
       IN addr' = [addr EXCEPT ![k] = a] /\ va' = a + Secs[k].size
    /\ k' = k + 1
    /\ UNCHANGED <<link, lpc, slot, comaddr, outVa, outSize>>

SkipSection ==
    /\ lpc = "place" /\ k <= Len(Secs) /\ Secs[k].slot # slot
    /\ k' = k + 1
    /\ UNCHANGED <<link, lpc, slot, va, addr, comaddr, outVa, outSize>>

SectionsPlaced ==
    /\ lpc = "place" /\ k > Len(Secs)
    /\ lpc' = IF slot = BSS THEN "common" ELSE "close"
    /\ k' = 1
    /\ UNCHANGED <<link, slot, va, addr, comaddr, outVa, outSize>>

\* The symbol becomes SHN_ABS with the address as its value.
PlaceCommon ==
    /\ lpc = "common" /\ k <= Len(Coms)
    /\ LET a == AlignUp(va, Coms[k].align)
       IN comaddr' = [comaddr EXCEPT ![k] = a] /\ va' = a + Coms[k].size
    /\ k' = k + 1
    /\ UNCHANGED <<link, lpc, slot, addr, outVa, outSize>>

CommonsPlaced ==
    /\ lpc = "common" /\ k > Len(Coms)
    /\ lpc' = "close"
    /\ UNCHANGED <<link, slot, k, va, addr, comaddr, outVa, outSize>>

CloseSlot ==
    /\ lpc = "close"
    /\ outSize' = [outSize EXCEPT ![slot] = va - outVa[slot]]
    /\ IF slot = BSS THEN lpc' = "laid" /\ slot' = slot
                     ELSE lpc' = "open" /\ slot' = slot + 1
    /\ UNCHANGED <<link, k, va, addr, comaddr, outVa>>

LayoutNext ==
    \/ OpenSlot \/ PlaceSection \/ SkipSection \/ SectionsPlaced
    \/ PlaceCommon \/ CommonsPlaced \/ CloseSlot

\* init_start and init_end, set once the layout is there.
InitStart == outVa[INIT_ARRAY]
InitEnd == outVa[INIT_ARRAY] + outSize[INIT_ARRAY]

-----------------------------------------------------------------------------
\* The layout on its own.
LayoutDone == lpc = "laid" /\ UNCHANGED layoutVars
LayoutSpec ==
    LayoutInit /\ [][LayoutNext \/ LayoutDone]_layoutVars /\ WF_layoutVars(LayoutNext)

(* The layout's state is well formed.                                      *)
LayoutTypeOK ==
    /\ Secs \in Seq(Section) /\ Coms \in Seq(Common)
    /\ lpc \in {"open", "place", "common", "close", "laid"}
    /\ slot \in Slots
    /\ k \in Nat \ {0}
    /\ va \in Nat
    /\ addr \in [SecIds -> Nat]
    /\ comaddr \in [ComIds -> Nat]
    /\ outVa \in [Slots -> Nat]
    /\ outSize \in [Slots -> Nat]

\* What the loops have gone past.
Placed(i) ==
    \/ Secs[i].slot \in TEXT .. slot - 1
    \/ Secs[i].slot = slot /\ lpc \in {"common", "close", "laid"}
    \/ Secs[i].slot = slot /\ lpc = "place" /\ i < k
ComPlaced(c) ==
    slot = BSS /\ (lpc \in {"close", "laid"} \/ (lpc = "common" /\ c < k))

\* linker.ld order, then object and section order.
Before(i, j) ==
    Secs[i].slot < Secs[j].slot \/ (Secs[i].slot = Secs[j].slot /\ i < j)

(* Input sections occupy disjoint addresses, in linker.ld order and within *)
(* a slot in the order of the objects; COMMON symbols lie after all of     *)
(* them, disjoint too.                                                     *)
InOrder ==
    /\ \A i, j \in SecIds :
        Placed(i) /\ Placed(j) /\ Before(i, j) => addr[i] + Secs[i].size <= addr[j]
    /\ \A i \in SecIds, c \in ComIds :
        Placed(i) /\ ComPlaced(c) => addr[i] + Secs[i].size <= comaddr[c]
    /\ \A c, d \in ComIds :
        ComPlaced(c) /\ ComPlaced(d) /\ c < d => comaddr[c] + Coms[c].size <= comaddr[d]

(* Every section and COMMON symbol is aligned as it asks, and lies within  *)
(* its output slot's extent, from which the program headers are made.      *)
WithinSlot ==
    lpc = "laid" =>
        /\ \A i \in SecIds : LET s == Secs[i].slot IN
            s # DISCARD =>
                /\ addr[i] % Secs[i].align = 0
                /\ outVa[s] <= addr[i]
                /\ addr[i] + Secs[i].size <= outVa[s] + outSize[s]
        /\ \A c \in ComIds :
            /\ comaddr[c] % Coms[c].align = 0
            /\ outVa[BSS] <= comaddr[c]
            /\ comaddr[c] + Coms[c].size <= outVa[BSS] + outSize[BSS]

(* Code, read-only data and writable data share no page, so that the       *)
(* segments' permissions can be enforced; the extents are page aligned     *)
(* where a segment with other permissions begins.                          *)
Writable(s) == s \in {DATA, INIT_ARRAY, BSS}
SamePermissions(s, t) == s = t \/ (Writable(s) /\ Writable(t))
PermissionPages ==
    lpc = "laid" =>
        \A s, t \in Slots :
            s < t /\ ~SamePermissions(s, t) /\ outSize[s] > 0 =>
                (outVa[s] + outSize[s] - 1) \div Page < outVa[t] \div Page
=============================================================================
