------------------------------- MODULE MCLink -------------------------------
(* Links of both paths, with pages of 256 bytes and the real entry sizes.  *)
EXTENDS Link

Sect(s, n, a) == [slot |-> s, size |-> n, align |-> a]
Ref(kd, i, v) == [kind |-> kd, id |-> i, val |-> v]
Reloc(p, o, t, a, y) == [sec |-> p, off |-> o, type |-> t, add |-> a, sym |-> y]
OneCommon == <<[size |-> 4, align |-> 4]>>

-----------------------------------------------------------------------------
(* Static: a text section followed by two more sections of any kind, and   *)
(* up to two relocations.                                                  *)
Kinds == {Sect(TEXT, 6, 16), Sect(RODATA, 3, 1), Sect(DATA, 5, 4),
          Sect(DATA, 0, 512), Sect(INIT_ARRAY, 8, 8), Sect(BSS, 270, 2),
          Sect(DISCARD, 9, 1)}
SecLists == {<<Sect(TEXT, 240, 16), a, b>> : a \in Kinds, b \in Kinds}

StaticSyms(secs) ==
    {Ref("sec", i, 2) : i \in {j \in 1 .. 3 : secs[j].slot # DISCARD}}
    \cup {Ref(kd, 1, 0) : kd \in {"com", "init_start", "init_end", "weak", "undef"}}
Places(secs) == {i \in 1 .. 2 : secs[i].slot # BSS /\ secs[i].size > 0}
RelLists(secs) ==
    {<<Reloc(p, 1, t, IF t = "R32" THEN 4 ELSE -4, y)>> :
        p \in Places(secs), t \in RelTypes, y \in StaticSyms(secs)}
Then == Reloc(1, 8, "PC32", 3, Ref("com", 1, 0))
TwoCommons == <<[size |-> 1, align |-> 1], [size |-> 8, align |-> 8]>>

StaticLinkOf(secs, coms, rels, ent) ==
    [mode |-> "static", secs |-> secs, coms |-> coms, rels |-> rels, entry |-> ent]
StaticLinks ==
    UNION {{StaticLinkOf(s, OneCommon, Append(q, Then), Ref("sec", 1, 4)) : q \in RelLists(s)} :
            s \in SecLists}
    \cup {StaticLinkOf(s, c, << >>, NoEntry) : s \in SecLists, c \in {<< >>, TwoCommons}}

-----------------------------------------------------------------------------
(* Dynamic: five sections and up to four relocations.                      *)
\* .text of tn bytes, .rodata, .data, .bss and a debug section.  After 220
\* bytes of .text two PLT entries end where .rodata begins, after 250 none fits.
Secs5(tn) == <<Sect(TEXT, tn, 16), Sect(RODATA, 10, 4), Sect(DATA, 24, 8),
               Sect(BSS, 40, 8), Sect(DISCARD, 16, 1)>>

Imports == {Ref("import", 1, 0), Ref("import", 2, 0)}
Defined == {Ref("sec", 1, 8), Ref("sec", 2, 2), Ref("sec", 3, 8), Ref("sec", 4, 0), Ref("com", 1, 0),
            Ref("init_end", 0, 0)}
Exported == <<[name |-> 7, sym |-> Ref("sec", 1, 0)], [name |-> 8, sym |-> Ref("sec", 3, 8)]>>

\* One of: calls, PC-relative reads, GOT reads, pointers in .data.
AnyReloc ==
    {Reloc(1, 4, "PLT32", -4, y) : y \in Imports \cup {Ref("sec", 1, 8)}}
    \cup {Reloc(1, 12, "PC32", -4, y) : y \in Defined}
    \cup {Reloc(1, 20, "GOT", -4, y) : y \in Imports \cup Defined}
    \cup {Reloc(3, 8, "R64", 2, y) : y \in Imports \cup Defined}
    \cup {Reloc(5, 0, "R64", 0, Ref("sec", 1, 0))}
    \cup {Reloc(1, 28, t, 0, Ref("sec", 1, 0)) : t \in {"R32", "R32S", "OTHER"}}

\* Names 1 and 2 have the same hash.
MCHash == [n \in 1 .. 8 |-> IF n <= 2 THEN 9 ELSE n]

\* Several references to the same import, which share entries and slots.
Shared == <<Reloc(1, 36, "PLT32", -4, Ref("import", 2, 0)),
            Reloc(1, 44, "GOT", -4, Ref("import", 2, 0))>>

DynLinkOf(tn, rels, md, ent) ==
    [mode |-> md, secs |-> Secs5(tn), coms |-> OneCommon, rels |-> rels, exports |-> Exported,
     entry |-> ent]
Start1 == Ref("sec", 1, 0)

DynLinks ==
    {DynLinkOf(tn, <<a>> \o Shared \o <<b>>, md, Start1) :
        tn \in {220, 250}, a \in AnyReloc, b \in AnyReloc, md \in {"pie", "shared"}}
    \cup {DynLinkOf(60, <<>>, "pie", NoEntry)}

MCLinks == StaticLinks \cup DynLinks

\* The link of the finding: a field made before the shift.
StaleLinks == {DynLinkOf(60, <<Reloc(1, 12, "PC32", -4, Ref("sec", 3, 8))>>, "pie", Start1)}
=============================================================================
