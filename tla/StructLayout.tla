---------------------------- MODULE StructLayout ----------------------------
(***************************************************************************)
(* Where the members of a structure go.  src/parser.c lays structures out  *)
(* twice: parse_base_type for definitions at file scope, and a copy in     *)
(* stmt for definitions that begin a statement of a block.  Both are       *)
(* translated, next to the layout that the x86-64 ABI prescribes.          *)
(*                                                                         *)
(* A member is [ty, bits, count, anon]: ty is a base type or a tag; bits   *)
(* is NoBits, or the width of a bit-field; count is the number of          *)
(* elements, 1 for a scalar and 0 for a flexible array; anon says that a   *)
(* structure has no declarator.  sptr is a pointer to a tagged structure,  *)
(* ptr any other.  Positions are in bits; a bit-field of width zero has    *)
(* none.                                                                   *)
(***************************************************************************)
EXTENDS Integers, Sequences, SequencesExt

NoBits == -1
Word == 8

BaseSize == [char |-> 1, short |-> 2, int |-> 4, long |-> 8, ptr |-> 8, sptr |-> 8,
             float |-> 4, double |-> 8, ldouble |-> 16]
Floats == {"float", "double", "ldouble"}
IsTag(ty) == ty \notin DOMAIN BaseSize

MaxOf(a, b) == IF a > b THEN a ELSE b
MinOf(a, b) == IF a < b THEN a ELSE b
RoundUp(x, a) == ((x + a - 1) \div a) * a

Placed(at, bits) == [at |-> at, bits |-> bits]
Shifted(fs, by) == [i \in 1 .. Len(fs) |-> [fs[i] EXCEPT !.at = @ + by]]

-----------------------------------------------------------------------------
(* The running values of a definition.  sses and ints are the eightbytes   *)
(* that a member of each class touches; outer is what an enclosing         *)
(* definition copies of the fields: no bit offsets and widths.             *)

Start(union) ==
    [offset |-> 0, max |-> 0, align |-> 1, bit |-> 0, unit |-> 0, flex |-> FALSE,
     hfa |-> ~union, elem |-> 0, count |-> 0, sysv |-> ~union, ints |-> {},
     sses |-> {}, fields |-> << >>, outer |-> << >>]

SizeOf(ty, structs) ==
    IF ~IsTag(ty) THEN BaseSize[ty]
    ELSE IF ty \in DOMAIN structs THEN structs[ty].size ELSE Word

FieldAlign(ty, aligns) ==
    MaxOf(1, MinOf(Word, IF ~IsTag(ty) THEN BaseSize[ty]
                         ELSE IF ty \in DOMAIN aligns THEN aligns[ty] ELSE Word))

\* sysv_fold_field
Folded(s, total, float, ld) ==
    LET hit == (s.offset \div 8) .. ((s.offset + total - 1) \div 8)
    IN IF total <= 0 THEN s
       ELSE IF s.offset + total > 16 THEN [s EXCEPT !.sysv = FALSE]
       ELSE IF float /\ ~ld THEN [s EXCEPT !.sses = @ \cup hit]
       ELSE [s EXCEPT !.ints = @ \cup hit]

\* A float member keeps the aggregate homogeneous if it is of the others' size.
Homogenised(s, float, size) ==
    IF ~float THEN [s EXCEPT !.hfa = FALSE]
    ELSE [s EXCEPT !.hfa = @ /\ s.elem \in {0, size} /\ s.count < 4,
                   !.elem = IF @ = 0 THEN size ELSE @, !.count = @ + 1]

\* A bit-field starts a unit if its type or the room left in the open one asks for it.
BitField(s, w, size, align, union) ==
    LET fresh == s.unit # size \/ s.bit + w > size * 8 \/ w = 0
        off == IF fresh THEN RoundUp(s.offset + (IF s.bit > 0 THEN s.unit ELSE 0), align)
               ELSE s.offset
        bit == IF fresh THEN 0 ELSE s.bit
    IN [s EXCEPT !.offset = off, !.bit = bit + w, !.unit = size, !.hfa = FALSE,
                 !.fields = IF w = 0 THEN @ ELSE Append(@, Placed(8 * off + bit, w)),
                 !.outer = IF w = 0 THEN @ ELSE Append(@, Placed(8 * off, 8 * size)),
                 !.max = IF union THEN MaxOf(@, size) ELSE @]

\* Another member first closes the open unit.
Flushed(s) ==
    IF s.bit = 0 THEN s
    ELSE [s EXCEPT !.offset = @ + s.unit, !.bit = 0, !.unit = 0]

Aligned(s, align, union) ==
    IF union THEN s ELSE [s EXCEPT !.offset = RoundUp(@, align)]

Occupied(s, total, union) ==
    [s EXCEPT !.fields = Append(@, Placed(8 * s.offset, 8 * total)),
              !.outer = Append(@, Placed(8 * s.offset, 8 * total)),
              !.max = IF union THEN MaxOf(@, total) ELSE @,
              !.offset = IF union THEN @ ELSE @ + total]

-----------------------------------------------------------------------------
(* parse_base_type: an anonymous structure is flattened where the last     *)
(* member ended, each bit-field as a member of its type's size; a pointer  *)
(* to a tagged structure counts as a structure where classes are decided.  *)

Flattened(s, m, size, union, structs) ==
    [s EXCEPT !.hfa = FALSE,
              !.fields = @ \o Shifted(structs[m.ty].outer, 8 * s.offset),
              !.outer = @ \o Shifted(structs[m.ty].outer, 8 * s.offset),
              !.max = IF union THEN MaxOf(@, size) ELSE @,
              !.offset = IF union THEN @ ELSE @ + size]

PlainFile(s, m, size, align, union) ==
    LET float == m.ty \in Floats
        ld == float /\ size >= 12
        t == Homogenised(Aligned(Flushed(s), align, union), float /\ ~ld, size)
        plain == m.count = 1 /\ ~IsTag(m.ty) /\ m.ty # "sptr"
        c == [t EXCEPT !.hfa = @ /\ plain, !.sysv = @ /\ plain,
                       !.flex = @ \/ m.count = 0]
    IN Occupied(Folded(c, size * m.count, float, ld), size * m.count, union)

FileMember(s, m, union, structs, aligns) ==
    LET size == SizeOf(m.ty, structs)
        align == FieldAlign(m.ty, aligns)
        t == [s EXCEPT !.align = MaxOf(@, align)]
    IN IF m.anon THEN Flattened(t, m, size, union, structs)
       ELSE IF m.bits # NoBits
            THEN [BitField(t, m.bits, size, align, union) EXCEPT !.sysv = FALSE]
       ELSE PlainFile(t, m, size, align, union)

\* The unit of a last bit-field is not counted.
StructSize_mutant(s, union, flexible) ==
    IF union THEN s.max ELSE IF flexible THEN s.offset ELSE RoundUp(s.offset, Word)

\* The size is a multiple of the word, whatever the alignment.
StructSize(s, union, flexible) ==
    LET end == Flushed(s).offset
    IN IF union THEN s.max ELSE IF flexible THEN end ELSE RoundUp(end, Word)

\* The eightbytes that travel in vector registers: all of a homogeneous
\* aggregate, the float ones of a mixed one (sysv_mixed_class).
VectorPart(s, size) ==
    IF s.hfa /\ s.count > 0 THEN 0 .. (size - 1) \div 8
    ELSE IF s.sysv /\ {0, 1} \subseteq s.ints \cup s.sses /\ Cardinality(s.sses \ s.ints) = 1
         THEN s.sses \ s.ints
    ELSE {}

FileLayout(members, union, structs, aligns) ==
    LET s == FoldLeft(LAMBDA a, m : FileMember(a, m, union, structs, aligns),
                      Start(union), members)
        size == StructSize(s, union, s.flex)
    IN [fields |-> s.fields, outer |-> s.outer, size |-> size, align |-> s.align,
        vec |-> VectorPart(s, size)]

-----------------------------------------------------------------------------
(* stmt: every member is aligned to its size, a flexible array has one     *)
(* element, a long double is like any float, there are no mixed classes,   *)
(* and no alignment is recorded for the tag.                               *)

LocalMember(s, m, union, structs) ==
    LET size == SizeOf(m.ty, structs)
        align == MaxOf(1, MinOf(Word, size))
        total == size * MaxOf(m.count, 1)
        t == Homogenised(Aligned(Flushed(s), align, union), m.ty \in Floats, size)
    IN IF m.bits # NoBits THEN BitField(s, m.bits, size, align, union)
       ELSE Occupied([t EXCEPT !.hfa = @ /\ m.count = 1 /\ ~IsTag(m.ty)], total, union)

LocalLayout(members, union, structs) ==
    LET s == FoldLeft(LAMBDA a, m : LocalMember(a, m, union, structs), Start(union), members)
        size == StructSize(s, union, FALSE)
    IN [fields |-> s.fields, outer |-> s.outer, size |-> size,
        vec |-> VectorPart([s EXCEPT !.sysv = FALSE], size)]

-----------------------------------------------------------------------------
(* The reference: the System V ABI for x86-64.  A bit-field shares the     *)
(* storage of what precedes it as long as it does not cross a boundary of  *)
(* its type; leaves are the scalars, with the class of each.               *)

AbiStart == [pos |-> 0, align |-> 1, end |-> 0, fields |-> << >>, leaves |-> {}]

LeafClass(ty) == IF ty \notin Floats THEN "int" ELSE IF ty = "ldouble" THEN "x87" ELSE "sse"
AbiSize(ty, abis) == IF IsTag(ty) THEN abis[ty].size ELSE BaseSize[ty]
AbiAlign(ty, abis) == IF IsTag(ty) THEN abis[ty].align ELSE BaseSize[ty]
AbiLeaves(ty, abis) == IF IsTag(ty) THEN abis[ty].leaves ELSE {<<0, 8 * BaseSize[ty], LeafClass(ty)>>}
Moved(leaves, by) == {<<l[1] + by, l[2], l[3]>> : l \in leaves}

AbiBits(s, w, size, union) ==
    LET base == IF union THEN 0 ELSE s.pos
        at == IF w = 0 \/ (base % (8 * size)) + w > 8 * size THEN RoundUp(base, 8 * size) ELSE base
    IN [s EXCEPT !.pos = at + w, !.end = MaxOf(@, at + w),
                 !.align = IF w = 0 THEN @ ELSE MaxOf(@, size),
                 !.leaves = IF w = 0 THEN @ ELSE @ \cup {<<at, w, "int">>},
                 !.fields = IF w = 0 THEN @ ELSE Append(@, Placed(at, w))]

AbiMember(s, m, union, abis) ==
    LET size == AbiSize(m.ty, abis)
        align == AbiAlign(m.ty, abis)
        at == IF union THEN 0 ELSE RoundUp(s.pos, 8 * align)
        past == at + 8 * size * m.count
    IN IF m.bits # NoBits THEN AbiBits(s, m.bits, size, union)
       ELSE [s EXCEPT !.pos = past, !.end = MaxOf(@, past), !.align = MaxOf(@, align),
                      !.leaves = @ \cup UNION {Moved(AbiLeaves(m.ty, abis), at + 8 * size * i) :
                                               i \in 0 .. m.count - 1},
                      !.fields = @ \o IF m.anon THEN Shifted(abis[m.ty].fields, at)
                                      ELSE <<Placed(at, 8 * size * m.count)>>]

\* The eightbytes of class SSE; none if the aggregate travels in memory.
AbiVector(leaves, size) ==
    LET touching(e) == {l \in leaves : l[1] < 64 * (e + 1) /\ l[1] + l[2] > 64 * e}
    IN IF size > 16 \/ \E l \in leaves : l[3] = "x87" THEN {}
       ELSE {e \in 0 .. (size - 1) \div 8 :
                touching(e) # {} /\ \A l \in touching(e) : l[3] = "sse"}

AbiRun(members, union, abis) ==
    FoldLeft(LAMBDA a, m : AbiMember(a, m, union, abis), AbiStart, members)

AbiLayout(members, union, abis) ==
    LET s == AbiRun(members, union, abis)
        end == (s.end + 7) \div 8
        size == RoundUp(end, s.align)
    IN [fields |-> s.fields, size |-> size, end |-> end, align |-> s.align,
        packed |-> \E m \in ToSet(members) : m.bits > 0,
        leaves |-> s.leaves, vec |-> AbiVector(s.leaves, size)]

=============================================================================
