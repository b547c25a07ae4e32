--------------------------- MODULE Resolve_proof ---------------------------
(* Theorems about Resolve, for any files, any number of inputs and any     *)
(* number of archives.                                                     *)
EXTENDS Resolve, WellFoundedInduction, TLAPS

(* A non-empty set of naturals has a least element: the first symbol of a  *)
(* table that matches.                                                     *)
LEMMA LeastElement ==
    ASSUME NEW T, T \subseteq Nat, T # {}
    PROVE  \E x \in T : \A y \in T : x <= y
<1>1. IsWellFoundedOn(OpToRel(<, Nat), Nat)
  BY NatLessThanWellFounded
<1>2. PICK x \in T : \A y \in T : ~(<<y, x>> \in OpToRel(<, Nat))
  BY <1>1, WFMin
<1>3. \A y \in T : ~(y < x)
  BY <1>2 DEF OpToRel
<1> QED
  BY <1>3

-----------------------------------------------------------------------------
(* The operators                                                           *)

(* The table of a parsed object is a sequence of symbols in which a        *)
(* non-local name occurs once.                                             *)
LEMMA TabType ==
    ASSUME img \in Image, NEW o \in Parsed
    PROVE  Tab(o) \in SymTables /\ Tab(o) \in Seq(Sym)
BY DEF Parsed, Tab, Objs, Image, SymTables

(* An object does not define a name both strongly and weakly.              *)
LEMMA OneBinding ==
    ASSUME img \in Image, NEW o \in Parsed, NEW n \in Names,
           DefinesStrong(o, n), DefinesWeak(o, n)
    PROVE  FALSE
<1>1. Tab(o) \in SymTables
  BY TabType
<1>2. PICK i \in 1 .. Len(Tab(o)) :
        Tab(o)[i] = [name |-> n, bind |-> "GLOBAL", def |-> TRUE]
  BY DEF DefinesStrong, Defines, TableDefines
<1>3. PICK j \in 1 .. Len(Tab(o)) :
        Tab(o)[j] = [name |-> n, bind |-> "WEAK", def |-> TRUE]
  BY DEF DefinesWeak, Defines, TableDefines
<1>4. i = j
  BY <1>1, <1>2, <1>3 DEF SymTables
<1> QED
  BY <1>2, <1>3, <1>4

(* If some archive lists a name, the supplier is a member listed for it by *)
(* one of them.                                                            *)
LEMMA SupplierListed ==
    ASSUME NEW sm \in [1 .. NArch -> [Names -> Offsets \cup {None}]],
           NEW n \in Names, Listed(sm, n)
    PROVE  \E a \in 1 .. NArch :
                sm[a][n] # None /\ Supplier(sm, n) = <<a, sm[a][n]>>
<1> DEFINE T == {a \in 1 .. NArch : sm[a][n] # None}
<1>1. T \subseteq Nat /\ T # {}
  BY CountAssumption DEF Listed
<1>2. PICK x \in T : \A y \in T : x <= y
  <2> HIDE DEF T
  <2> QED BY <1>1, LeastElement
<1>3. x \in 1 .. NArch /\ sm[x][n] # None /\ \A b \in 1 .. x - 1 : sm[b][n] = None
  BY <1>2, CountAssumption
<1> QED
  BY <1>3 DEF Supplier

(* The supplier of a listed name is an archive member.                     *)
LEMMA SupplierType ==
    ASSUME NEW sm \in [1 .. NArch -> [Names -> Offsets \cup {None}]],
           NEW n \in Names, Listed(sm, n)
    PROVE  \E a \in 1 .. NArch, m \in Offsets : Supplier(sm, n) = <<a, m>>
<1>1. PICK a \in 1 .. NArch : sm[a][n] # None /\ Supplier(sm, n) = <<a, sm[a][n]>>
  BY SupplierListed
<1>2. sm[a][n] \in Offsets
  BY <1>1
<1> QED
  BY <1>1, <1>2

(* The map archive_load builds: a listed name has one of its entries, an   *)
(* unlisted one has none.                                                  *)
LEMMA FirstListedFacts ==
    ASSUME NEW am \in ArMaps
    PROVE  /\ FirstListed(am) \in [Names -> Offsets \cup {None}]
           /\ \A n \in Names :
                /\ FirstListed(am)[n] # None =>
                     \E i \in 1 .. Len(am) : am[i] = <<n, FirstListed(am)[n]>>
                /\ FirstListed(am)[n] = None =>
                     \A i \in 1 .. Len(am) : am[i][1] # n
<1> SUFFICES ASSUME NEW n \in Names
             PROVE  \/ /\ FirstListed(am)[n] = None
                       /\ \A i \in 1 .. Len(am) : am[i][1] # n
                    \/ /\ FirstListed(am)[n] \in Offsets
                       /\ \E i \in 1 .. Len(am) : am[i] = <<n, FirstListed(am)[n]>>
  BY NoneAssumption DEF FirstListed
<1> DEFINE T == {i \in 1 .. Len(am) : am[i][1] = n}
<1>0. Len(am) \in Nat /\ \A i \in 1 .. Len(am) : am[i] \in Names \X Offsets
  BY DEF ArMaps
<1>1. CASE T = {}
  BY <1>1 DEF FirstListed
<1>2. CASE T # {}
  <2>1. T \subseteq Nat
    BY <1>0
  <2>2. PICK x \in T : \A y \in T : x <= y
    <3> HIDE DEF T
    <3> QED BY <1>2, <2>1, LeastElement
  <2>3. x \in 1 .. Len(am) /\ am[x][1] = n /\ \A j \in 1 .. x - 1 : am[j][1] # n
    BY <1>0, <2>2
  <2> DEFINE i == CHOOSE i \in 1 .. Len(am) :
                    am[i][1] = n /\ \A j \in 1 .. i - 1 : am[j][1] # n
  <2>4. i \in 1 .. Len(am) /\ am[i][1] = n
    BY <2>3
  <2>5. FirstListed(am)[n] = am[i][2]
    BY <2>3 DEF FirstListed
  <2> HIDE DEF i
  <2>6. am[i] = <<n, am[i][2]>> /\ am[i][2] \in Offsets
    BY <1>0, <2>4
  <2> QED
    BY <2>4, <2>5, <2>6
<1> QED
  BY <1>1, <1>2

(* include_object on a map from names to parsed objects gives such a map;  *)
(* no name loses its definition.                                           *)
LEMMA RegisterFacts ==
    ASSUME NEW h \in [Names -> Parsed \cup {None}], NEW o \in Parsed
    PROVE  /\ Register(h, o) \in [Names -> Parsed \cup {None}]
           /\ \A n \in Names : h[n] # None => Register(h, o)[n] # None
<1>1. o # None
  BY NoneAssumption DEF Parsed
<1> QED
  BY <1>1 DEF Register

-----------------------------------------------------------------------------
(* The inductive invariant                                                 *)

\* Inputs are included one by one; the scan has not begun.
LoadingInv ==
    /\ pc = "inputs" => Len(objs) = next - 1 /\ next <= NInputs + 1
    /\ pc = "archives" => Len(objs) = NInputs
    /\ pc \in {"inputs", "archives"} => /\ oi = 1 /\ si = 1
                                        /\ \A k \in 1 .. Len(objs) : objs[k].file = <<0, k>>

\* The symbol maps of the loaded archives are those of their indexes.
SymmapInv ==
    \A a \in 1 .. NArch :
        \/ pc \in {"resolve", "resolved"}
        \/ pc = "archives" /\ a < next
        => img.armap[a] # Bad /\ symmap[a] = FirstListed(img.armap[a])

\* What the cursor of the current pass has gone over is settled.
Passed(k, j) == k < oi \/ (k = oi /\ j < si)
SymSettled(y) == ~y.def /\ y.bind # "LOCAL" => Settled(y.name)
ScanInv ==
    /\ pc \in {"resolve", "resolved"} =>
         \A k \in 1 .. Len(objs) : \A j \in 1 .. Len(Tab(objs[k])) :
            Passed(k, j) => SymSettled(Tab(objs[k])[j])
    /\ pc = "resolved" => oi > Len(objs)

\* The cache against the list: objects are told apart by their place in it,
\* the cache of an archive holds included objects under their offsets, and
\* an included member is cached.
HeldAt(o, a, m) ==
    \E k \in 1 .. Len(objs) : objs[k] = o /\ objs[k].file = <<a, m>>
CacheInv ==
    /\ \A k \in 1 .. Len(objs) : objs[k].addr = k
    /\ \A a \in 1 .. NArch, m \in Offsets :
         parsed[a][m] # None => HeldAt(parsed[a][m], a, m)
    /\ \A k \in 1 .. Len(objs) : \A a \in 1 .. NArch, m \in Offsets :
         objs[k].file = <<a, m>> => parsed[a][m] = objs[k]

IInv == /\ TypeOK /\ LoadingInv /\ SymmapInv /\ ScanInv /\ CacheInv
        /\ BindingRule /\ NoDoubleInclusion

LEMMA InitInv == Init => IInv
<1> SUFFICES ASSUME Init PROVE IInv
  OBVIOUS
<1>1. img \in Image
  BY ImagesAssumption DEF Init
<1>2. objs = << >> /\ Len(objs) = 0
  BY DEF Init
<1>3. TypeOK
  <2>1. globals \in [Names -> Parsed \cup {None}]
    BY DEF Init
  <2>2. symmap \in [1 .. NArch -> [Names -> Offsets \cup {None}]]
    BY DEF Init
  <2>3. progress \in BOOLEAN
    BY Zenon DEF Init
  <2>5. parsed \in [1 .. NArch -> [Offsets -> Parsed \cup {None}]]
    BY DEF Init
  <2>4. objs \in Seq(Parsed) /\ oi \in 1 .. Len(objs) + 1 /\ si \in Nat \ {0}
        /\ (oi <= Len(objs) => si <= Len(Tab(objs[oi])) + 1) /\ next \in Nat \ {0}
    BY <1>2 DEF Init
  <2> QED
    BY <1>1, <2>1, <2>2, <2>3, <2>4, <2>5 DEF Init, TypeOK
<1>4. LoadingInv /\ SymmapInv /\ ScanInv /\ CacheInv /\ NoDoubleInclusion
  BY <1>2, CountAssumption
     DEF Init, LoadingInv, SymmapInv, ScanInv, CacheInv, NoDoubleInclusion
<1>5. BindingRule
  <2>1. \A k \in 1 .. Len(objs) : FALSE
    BY <1>2
  <2>2. \A n \in Names : globals[n] = None
    BY DEF Init
  <2> QED
    BY <2>1, <2>2 DEF BindingRule, NobodyDefines
<1> QED
  BY <1>3, <1>4, <1>5 DEF IInv
-----------------------------------------------------------------------------
(* What including an object preserves                                      *)

(* Appending an object leaves the earlier entries of the list alone.       *)
LEMMA AppendFacts ==
    ASSUME TypeOK, NEW o \in Parsed
    PROVE  /\ Append(objs, o) \in Seq(Parsed)
           /\ Len(objs) \in Nat
           /\ Len(Append(objs, o)) = Len(objs) + 1
           /\ \A k \in 1 .. Len(objs) : Append(objs, o)[k] = objs[k]
           /\ Append(objs, o)[Len(objs) + 1] = o
BY DEF TypeOK

(* include_object keeps the binding rule.                                  *)
LEMMA IncludeKeepsBinding ==
    ASSUME TypeOK, BindingRule, NEW o \in Parsed, Include(o), img' = img
    PROVE  BindingRule'
<1> SUFFICES ASSUME NEW n \in Names
             PROVE  \/ FirstWith(n, "GLOBAL", globals[n])'
                    \/ NobodyDefines(n, "GLOBAL")' /\ FirstWith(n, "WEAK", globals[n])'
                    \/ /\ NobodyDefines(n, "GLOBAL")' /\ NobodyDefines(n, "WEAK")'
                       /\ globals'[n] = None
  BY Zenon DEF BindingRule
<1> DEFINE Len0 == Len(objs)
<1>1. /\ Len0 \in Nat /\ Len(objs') = Len0 + 1 /\ objs'[Len0 + 1] = o
      /\ \A k \in 1 .. Len0 : objs'[k] = objs[k]
  BY AppendFacts DEF Include
<1>2. \A p, b : Defines(p, n, b)' <=> Defines(p, n, b)
  BY DEF Defines, TableDefines, Tab
<1>3. globals'[n] = IF \/ DefinesStrong(o, n) /\ (globals[n] = None \/ DefinesWeak(globals[n], n))
                       \/ DefinesWeak(o, n) /\ globals[n] = None
                    THEN o ELSE globals[n]
  BY DEF Include, Register
<1>4. \A k \in 1 .. Len0 : objs[k] \in Parsed /\ objs[k] # None
  BY NoneAssumption DEF TypeOK, Parsed
<1>5. ASSUME NEW b, NEW p, FirstWith(n, b, p)
      PROVE  FirstWith(n, b, p)'
  <2>1. PICK k \in 1 .. Len0 : /\ objs[k] = p /\ Defines(p, n, b)
                               /\ \A j \in 1 .. k - 1 : ~Defines(objs[j], n, b)
    BY <1>5 DEF FirstWith
  <2>2. k \in 1 .. Len(objs') /\ objs'[k] = p /\ \A j \in 1 .. k - 1 : objs'[j] = objs[j]
    BY <1>1, <2>1
  <2>3. Defines(p, n, b)' /\ \A j \in 1 .. k - 1 : ~Defines(objs[j], n, b)'
    BY <1>2, <2>1, <2>2
  <2> QED
    BY <2>2, <2>3 DEF FirstWith
<1>6. ASSUME NEW b, NobodyDefines(n, b), ~Defines(o, n, b)
      PROVE  NobodyDefines(n, b)'
  <2>1. \A k \in 1 .. Len0 + 1 : ~Defines(objs'[k], n, b)
    BY <1>1, <1>6 DEF NobodyDefines
  <2> QED
    BY <1>1, <1>2, <2>1 DEF NobodyDefines
<1>7. ASSUME NEW b, NobodyDefines(n, b), Defines(o, n, b)
      PROVE  FirstWith(n, b, o)'
  <2>1. \A j \in 1 .. Len0 : ~Defines(objs'[j], n, b)
    BY <1>1, <1>7 DEF NobodyDefines
  <2>2. Len0 + 1 \in 1 .. Len(objs') /\ (Len0 + 1) - 1 = Len0
    BY <1>1
  <2> QED
    BY <1>1, <1>2, <1>7, <2>1, <2>2 DEF FirstWith
<1>8. CASE FirstWith(n, "GLOBAL", globals[n])
  <2>1. globals[n] \in Parsed /\ globals[n] # None /\ DefinesStrong(globals[n], n)
    BY <1>4, <1>8 DEF FirstWith, DefinesStrong
  <2>2. ~DefinesWeak(globals[n], n)
    BY <2>1, OneBinding DEF TypeOK
  <2> QED
    BY <1>3, <1>5, <1>8, <2>1, <2>2
<1>9. CASE NobodyDefines(n, "GLOBAL") /\ FirstWith(n, "WEAK", globals[n])
  <2>1. globals[n] # None /\ DefinesWeak(globals[n], n)
    BY <1>4, <1>9 DEF FirstWith, DefinesWeak
  <2>2. CASE Defines(o, n, "GLOBAL")
    BY <1>3, <1>7, <1>9, <2>1, <2>2 DEF DefinesStrong
  <2>3. CASE ~Defines(o, n, "GLOBAL")
    BY <1>3, <1>5, <1>6, <1>9, <2>1, <2>3 DEF DefinesStrong
  <2> QED
    BY <2>2, <2>3
<1>10. CASE NobodyDefines(n, "GLOBAL") /\ NobodyDefines(n, "WEAK") /\ globals[n] = None
  <2>1. CASE Defines(o, n, "GLOBAL")
    BY <1>3, <1>7, <1>10, <2>1 DEF DefinesStrong
  <2>2. CASE ~Defines(o, n, "GLOBAL") /\ Defines(o, n, "WEAK")
    BY <1>3, <1>6, <1>7, <1>10, <2>2 DEF DefinesStrong, DefinesWeak
  <2>3. CASE ~Defines(o, n, "GLOBAL") /\ ~Defines(o, n, "WEAK")
    BY <1>3, <1>6, <1>10, <2>3 DEF DefinesStrong, DefinesWeak
  <2> QED
    BY <2>1, <2>2, <2>3
<1> QED
  BY <1>8, <1>9, <1>10 DEF BindingRule

(* A name once settled stays settled.                                      *)
LEMMA IncludeKeepsSettled ==
    ASSUME TypeOK, NEW o \in Parsed, Include(o), symmap' = symmap,
           NEW n \in Names, Settled(n)
    PROVE  Settled(n)'
<1>1. globals[n] # None => globals'[n] # None
  BY RegisterFacts DEF Include, TypeOK
<1>2. Included \subseteq Included'
  BY AppendFacts DEF Include, Included
<1>3. IncludedFiles \subseteq IncludedFiles'
  BY <1>2 DEF IncludedFiles
<1> QED
  BY <1>1, <1>3 DEF Settled, Listed, Supplier

(* An object of a file that is not in the list yet may be included.        *)
LEMMA IncludeKeepsDistinct ==
    ASSUME TypeOK, NoDoubleInclusion, NEW o \in Parsed, Include(o),
           o.file \notin IncludedFiles
    PROVE  NoDoubleInclusion'
<1>1. /\ Len(objs) \in Nat /\ Len(objs') = Len(objs) + 1
      /\ objs'[Len(objs) + 1] = o
      /\ \A k \in 1 .. Len(objs) : objs'[k] = objs[k] /\ objs[k].file # o.file
  BY AppendFacts DEF Include, Included, IncludedFiles
<1> QED
  BY <1>1 DEF NoDoubleInclusion
-----------------------------------------------------------------------------
(* Every step keeps the invariant                                          *)

\* The variables the lists and maps are made of.
data == <<img, objs, globals, symmap, parsed>>

(* A step that leaves lists and maps alone keeps what is said of them.     *)
LEMMA DataUnchanged ==
    ASSUME UNCHANGED data
    PROVE  /\ BindingRule => BindingRule'
           /\ NoDoubleInclusion => NoDoubleInclusion'
           /\ CacheInv => CacheInv'
           /\ Included' = Included /\ IncludedFiles' = IncludedFiles
           /\ \A n : Settled(n)' <=> Settled(n)
<1>1. img' = img /\ objs' = objs /\ globals' = globals /\ symmap' = symmap
      /\ parsed' = parsed
  BY DEF data
<1>2. BindingRule => BindingRule'
  BY <1>1 DEF BindingRule, FirstWith, NobodyDefines, Defines, TableDefines, Tab
<1>3. NoDoubleInclusion => NoDoubleInclusion'
  BY <1>1 DEF NoDoubleInclusion
<1>4. Included' = Included /\ IncludedFiles' = IncludedFiles
  BY <1>1 DEF Included, IncludedFiles
<1>5. \A n : Settled(n)' <=> Settled(n)
  BY <1>1, <1>4 DEF Settled, Listed, Supplier
<1>6. \A o, a, m : HeldAt(o, a, m)' <=> HeldAt(o, a, m)
  BY <1>1 DEF HeldAt
<1>7. CacheInv => CacheInv'
  BY <1>1, <1>6 DEF CacheInv
<1> QED
  BY <1>2, <1>3, <1>4, <1>5, <1>7

(* The symbol under the cursor.                                            *)
LEMMA ScannedType ==
    ASSUME TypeOK, Scanning
    PROVE  /\ objs[oi] \in Parsed
           /\ oi \in 1 .. Len(objs) /\ si \in 1 .. Len(Tab(objs[oi]))
           /\ Len(Tab(objs[oi])) \in Nat
           /\ ScannedSym \in Sym
<1>1. oi \in 1 .. Len(objs) /\ objs[oi] \in Parsed
  BY DEF TypeOK, Scanning
<1>2. Tab(objs[oi]) \in Seq(Sym)
  BY <1>1, TabType DEF TypeOK
<1> QED
  BY <1>1, <1>2 DEF TypeOK, Scanning, ScannedSym

(* What archive_member_at returns for a member: its object if the member   *)
(* is in the list, a new object otherwise.                                 *)
LEMMA MemberFacts ==
    ASSUME TypeOK, CacheInv, NEW a \in 1 .. NArch, NEW m \in Offsets
    PROVE  /\ MemberAt(<<a, m>>) \in Included <=> <<a, m>> \in IncludedFiles
           /\ MemberAt(<<a, m>>) \in Objs /\ MemberAt(<<a, m>>).file = <<a, m>>
           /\ MemberAt(<<a, m>>) \notin Included => MemberAt(<<a, m>>) = NewObj(<<a, m>>)
<1>1. Len(objs) \in Nat /\ \A k \in 1 .. Len(objs) : objs[k] \in Objs
  BY DEF TypeOK, Parsed
<1>2. <<a, m>> \in Files
  BY DEF Files, Members
<1>3. CASE parsed[a][m] # None
  <2>1. PICK k \in 1 .. Len(objs) : objs[k] = parsed[a][m] /\ objs[k].file = <<a, m>>
    BY <1>3 DEF CacheInv, HeldAt
  <2>2. MemberAt(<<a, m>>) = objs[k]
    BY <1>3, <2>1 DEF MemberAt, Cached
  <2> QED
    BY <1>1, <2>1, <2>2 DEF Included, IncludedFiles
<1>4. CASE parsed[a][m] = None
  <2>1. MemberAt(<<a, m>>) = NewObj(<<a, m>>)
    BY <1>4 DEF MemberAt, Cached
  <2>2. NewObj(<<a, m>>) \in Objs /\ NewObj(<<a, m>>).file = <<a, m>>
        /\ NewObj(<<a, m>>).addr = Len(objs) + 1
    BY <1>1, <1>2 DEF NewObj, Objs
  <2>3. \A k \in 1 .. Len(objs) : objs[k].addr # Len(objs) + 1
    BY <1>1 DEF CacheInv
  <2>4. NewObj(<<a, m>>) \notin Included
    BY <2>2, <2>3 DEF Included
  <2>5. \A k \in 1 .. Len(objs) : objs[k].file # <<a, m>>
    BY <1>1, <1>4, NoneAssumption DEF CacheInv
  <2>6. <<a, m>> \notin IncludedFiles
    BY <2>5 DEF Included, IncludedFiles
  <2> QED
    BY <2>1, <2>2, <2>4, <2>6
<1> QED
  BY <1>3, <1>4

(* A symbol that asks for no new member is settled.                        *)
LEMMA NotAskingSettled ==
    ASSUME TypeOK, CacheInv, NEW y \in Sym, ~AsksForNew(y)
    PROVE  SymSettled(y)
<1> SUFFICES ASSUME ~y.def, y.bind # "LOCAL", globals[y.name] = None,
                    Listed(symmap, y.name)
             PROVE  Supplier(symmap, y.name) \in IncludedFiles
  BY DEF SymSettled, Settled
<1>1. PICK a \in 1 .. NArch, m \in Offsets : Supplier(symmap, y.name) = <<a, m>>
  BY SupplierType DEF TypeOK, Sym
<1>2. MemberAt(<<a, m>>) \in Included
  BY <1>1 DEF AsksForNew, Asks
<1> QED
  BY <1>1, <1>2, MemberFacts

(* The member AsksForNew asks for.                                         *)
LEMMA AskedMember ==
    ASSUME TypeOK, CacheInv, NEW y \in Sym, AsksForNew(y),
           img.table[Supplier(symmap, y.name)] # Bad
    PROVE  \E a \in 1 .. NArch, m \in Offsets :
             /\ Supplier(symmap, y.name) = <<a, m>>
             /\ MemberAt(<<a, m>>) \in Parsed
             /\ MemberAt(<<a, m>>) = NewObj(<<a, m>>)
             /\ MemberAt(<<a, m>>).file = <<a, m>>
             /\ <<a, m>> \notin IncludedFiles
<1>1. PICK a \in 1 .. NArch, m \in Offsets : Supplier(symmap, y.name) = <<a, m>>
  BY SupplierType DEF TypeOK, AsksForNew, Sym
<1>2. MemberAt(<<a, m>>) \notin Included
  BY <1>1 DEF AsksForNew
<1>3. /\ MemberAt(<<a, m>>) \in Objs /\ MemberAt(<<a, m>>).file = <<a, m>>
      /\ MemberAt(<<a, m>>) = NewObj(<<a, m>>) /\ <<a, m>> \notin IncludedFiles
  BY <1>2, MemberFacts
<1>4. MemberAt(<<a, m>>) \in Parsed
  BY <1>1, <1>3 DEF Parsed, Tab
<1> QED
  BY <1>1, <1>3, <1>4

LEMMA LoadInputInv == IInv /\ LoadInput => IInv'
<1> SUFFICES ASSUME IInv, LoadInput PROVE IInv'
  OBVIOUS
<1> USE DEF IInv
<1> DEFINE o == NewObj(<<0, next>>)
<1>1. o \in Parsed /\ o.file = <<0, next>> /\ o.addr = Len(objs) + 1
  <2>1. next \in 1 .. NInputs /\ Len(objs) \in Nat /\ img.table[<<0, next>>] # Bad
    BY CountAssumption DEF LoadInput, TypeOK
  <2>2. <<0, next>> \in Files
    BY <2>1 DEF Files, InputFiles
  <2>3. o \in Objs /\ o.file = <<0, next>> /\ o.addr = Len(objs) + 1
    BY <2>1, <2>2 DEF NewObj, Objs
  <2>4. Tab(o) # Bad
    BY <2>1, <2>3 DEF Tab
  <2> QED
    BY <2>3, <2>4 DEF Parsed
<1>2. Include(o) /\ img' = img /\ symmap' = symmap /\ parsed' = parsed /\ pc' = pc /\ pc = "inputs"
      /\ next' = next + 1 /\ oi' = oi /\ si' = si /\ progress' = progress
  BY DEF LoadInput
<1>3. <<0, next>> \notin IncludedFiles
  BY DEF LoadingInv, LoadInput, TypeOK, Included, IncludedFiles
<1>4. Parsed' = Parsed
  BY <1>2 DEF Parsed, Tab
<1> HIDE DEF o
<1>5. /\ objs' = Append(objs, o) /\ objs' \in Seq(Parsed) /\ Len(objs') = Len(objs) + 1
      /\ Len(objs) \in Nat /\ objs'[Len(objs) + 1] = o
      /\ \A k \in 1 .. Len(objs) : objs'[k] = objs[k]
  BY <1>1, <1>2, AppendFacts DEF Include
<1>6. globals' \in [Names -> Parsed \cup {None}]
  BY <1>1, <1>2, RegisterFacts DEF Include, TypeOK
<1>7. TypeOK'
  <2>1. objs'[1] \in Parsed /\ oi = 1 /\ si = 1
    BY <1>2, <1>5 DEF LoadingInv
  <2>2. Len(Tab(objs'[1])) \in Nat
    BY <2>1, TabType DEF TypeOK
  <2>3. Len(Tab(objs[1]))' \in Nat
    BY <1>2, <2>2 DEF Tab
  <2> QED
    BY <1>2, <1>4, <1>5, <1>6, <2>1, <2>3 DEF TypeOK
<1>8. LoadingInv'
  <2>1. next <= NInputs /\ Len(objs) = next - 1 /\ next \in Nat /\ oi = 1 /\ si = 1
        /\ \A k \in 1 .. Len(objs) : objs[k].file = <<0, k>>
    BY <1>2 DEF LoadInput, LoadingInv, TypeOK
  <2>2. \A k \in 1 .. Len(objs') : objs'[k].file = <<0, k>>
    <3> SUFFICES ASSUME NEW k \in 1 .. Len(objs) + 1 PROVE objs'[k].file = <<0, k>>
      BY <1>5
    <3>1. CASE k = Len(objs) + 1
      BY <1>1, <1>5, <2>1, <3>1
    <3>2. CASE k # Len(objs) + 1
      BY <1>5, <2>1, <3>2
    <3> QED
      BY <3>1, <3>2
  <2> QED
    BY <1>2, <1>5, <2>1, <2>2, CountAssumption DEF LoadingInv
<1>9. SymmapInv' /\ ScanInv'
  BY <1>2 DEF SymmapInv, ScanInv
<1>10. BindingRule' /\ NoDoubleInclusion'
  BY <1>1, <1>2, <1>3, IncludeKeepsBinding, IncludeKeepsDistinct
<1>11. CacheInv'
  <2>1. \A k \in 1 .. Len(objs) : \A a \in 1 .. NArch, m \in Offsets :
          objs[k].file # <<a, m>>
    BY <1>2 DEF LoadingInv
  <2>2. \A a \in 1 .. NArch, m \in Offsets : o.file # <<a, m>> /\ parsed[a][m] = None
    <3> SUFFICES ASSUME NEW a \in 1 .. NArch, NEW m \in Offsets
                 PROVE  o.file # <<a, m>> /\ parsed[a][m] = None
      OBVIOUS
    <3>1. ~HeldAt(parsed[a][m], a, m)
      BY <2>1 DEF HeldAt
    <3> QED
      BY <1>1, <3>1 DEF CacheInv
  <2> QED
    BY <1>1, <1>2, <1>5, <2>1, <2>2 DEF CacheInv
<1> QED
  BY <1>7, <1>8, <1>9, <1>10, <1>11

LEMMA InputsLoadedInv == IInv /\ InputsLoaded => IInv'
<1> SUFFICES ASSUME IInv, InputsLoaded PROVE IInv'
  OBVIOUS
<1>1. UNCHANGED data /\ pc' = "archives" /\ next' = 1 /\ oi' = oi /\ si' = si
      /\ progress' = progress /\ pc = "inputs"
  BY DEF InputsLoaded, data
<1>2. TypeOK'
  BY <1>1 DEF IInv, TypeOK, Parsed, Tab, data
<1>3. LoadingInv'
  <2>1. Len(objs) = NInputs
    BY <1>1, CountAssumption DEF InputsLoaded, IInv, LoadingInv, TypeOK
  <2> QED
    BY <1>1, <2>1 DEF IInv, LoadingInv, data
<1>4. SymmapInv' /\ ScanInv'
  BY <1>1, CountAssumption DEF SymmapInv, ScanInv
<1> QED
  BY <1>1, <1>2, <1>3, <1>4, DataUnchanged DEF IInv

LEMMA LoadArchiveInv == IInv /\ LoadArchive => IInv'
<1> SUFFICES ASSUME IInv, LoadArchive PROVE IInv'
  OBVIOUS
<1>1. /\ img' = img /\ objs' = objs /\ globals' = globals /\ parsed' = parsed /\ pc' = pc /\ pc = "archives"
      /\ next' = next + 1 /\ oi' = oi /\ si' = si /\ progress' = progress
      /\ next \in 1 .. NArch /\ img.armap[next] # Bad
      /\ symmap' = [symmap EXCEPT ![next] = FirstListed(img.armap[next])]
  BY CountAssumption DEF LoadArchive, IInv, TypeOK
<1>2. img.armap[next] \in ArMaps
  BY <1>1 DEF IInv, TypeOK, Image
<1>3. FirstListed(img.armap[next]) \in [Names -> Offsets \cup {None}]
  BY <1>2, FirstListedFacts
<1>4. symmap' \in [1 .. NArch -> [Names -> Offsets \cup {None}]]
  BY <1>1, <1>3 DEF IInv, TypeOK
<1>5. TypeOK'
  BY <1>1, <1>4 DEF IInv, TypeOK, Parsed, Tab
<1>6. LoadingInv' /\ ScanInv'
  BY <1>1 DEF IInv, LoadingInv, ScanInv
<1>7. SymmapInv'
  <2> SUFFICES ASSUME NEW a \in 1 .. NArch, a < next + 1
               PROVE  img.armap[a] # Bad /\ symmap'[a] = FirstListed(img.armap[a])
    BY <1>1 DEF SymmapInv
  <2>1. CASE a = next
    BY <1>1, <2>1 DEF IInv, TypeOK
  <2>2. CASE a < next
    BY <1>1, <2>2 DEF IInv, TypeOK, SymmapInv
  <2> QED
    BY <1>1, <2>1, <2>2
<1>8. BindingRule'
  BY <1>1 DEF IInv, BindingRule, FirstWith, NobodyDefines, Defines, TableDefines, Tab
<1>9. NoDoubleInclusion'
  BY <1>1 DEF IInv, NoDoubleInclusion
<1>10. CacheInv'
  <2>1. \A o, a, m : HeldAt(o, a, m)' <=> HeldAt(o, a, m)
    BY <1>1 DEF HeldAt
  <2> QED
    BY <1>1, <2>1 DEF IInv, CacheInv
<1> QED
  BY <1>5, <1>6, <1>7, <1>8, <1>9, <1>10 DEF IInv

LEMMA ArchivesLoadedInv == IInv /\ ArchivesLoaded => IInv'
<1> SUFFICES ASSUME IInv, ArchivesLoaded PROVE IInv'
  OBVIOUS
<1>1. UNCHANGED data /\ pc' = "resolve" /\ pc = "archives" /\ next' = next /\ next > NArch
      /\ oi' = oi /\ si' = si /\ progress' = progress
  BY DEF ArchivesLoaded, data
<1>2. TypeOK'
  BY <1>1 DEF IInv, TypeOK, Parsed, Tab, data
<1>3. oi = 1 /\ si = 1
  BY <1>1 DEF IInv, LoadingInv
<1>4. LoadingInv' /\ SymmapInv'
  BY <1>1, CountAssumption DEF IInv, TypeOK, LoadingInv, SymmapInv, data
<1>5. \A k \in 1 .. Len(objs') : \A j \in 1 .. Len(Tab(objs[k]))' : ~Passed(k, j)'
  BY <1>1, <1>3 DEF Passed
<1>6. ScanInv'
  BY <1>1, <1>5 DEF ScanInv
<1> QED
  BY <1>1, <1>2, <1>4, <1>6, DataUnchanged DEF IInv
LEMMA SkipSymInv == IInv /\ SkipSym => IInv'
<1> SUFFICES ASSUME IInv, SkipSym PROVE IInv'
  OBVIOUS
<1>1. UNCHANGED data /\ pc' = pc /\ pc = "resolve" /\ next' = next
      /\ oi' = oi /\ si' = si + 1 /\ progress' = progress /\ Scanning
  BY DEF SkipSym, Advance, data, Scanning
<1>2. SymSettled(ScannedSym)
  BY <1>1, ScannedType, NotAskingSettled DEF SkipSym, IInv
<1>3. TypeOK'
  BY <1>1, ScannedType DEF IInv, TypeOK, Parsed, Tab, data
<1>4. LoadingInv' /\ SymmapInv'
  BY <1>1 DEF IInv, LoadingInv, SymmapInv, data
<1>5. ScanInv'
  <2> SUFFICES ASSUME NEW k \in 1 .. Len(objs), NEW j \in 1 .. Len(Tab(objs[k])),
                      k < oi \/ (k = oi /\ j < si + 1)
               PROVE  SymSettled(Tab(objs[k])[j])
    BY <1>1, DataUnchanged DEF ScanInv, Passed, SymSettled, Tab, data
  <2>1. CASE k = oi /\ j = si
    BY <1>2, <2>1 DEF ScannedSym
  <2>2. CASE k < oi \/ (k = oi /\ j < si)
    BY <1>1, <2>2 DEF IInv, ScanInv, Passed
  <2>3. j = si \/ j < si \/ k < oi
    BY ScannedType, <1>1 DEF IInv
  <2> QED
    BY <2>1, <2>2, <2>3
<1> QED
  BY <1>1, <1>3, <1>4, <1>5, DataUnchanged DEF IInv

LEMMA PullSymInv == IInv /\ PullSym => IInv'
<1> SUFFICES ASSUME IInv, PullSym PROVE IInv'
  OBVIOUS
<1> DEFINE f == Supplier(symmap, ScannedSym.name)
           m == MemberAt(f)
<1>1. /\ img' = img /\ symmap' = symmap /\ pc' = pc /\ pc = "resolve" /\ next' = next
      /\ oi' = oi /\ si' = si + 1 /\ progress' = TRUE /\ Scanning /\ Include(m)
      /\ AsksForNew(ScannedSym) /\ img.table[f] # Bad
      /\ parsed' = [parsed EXCEPT ![f[1]][f[2]] = m]
  BY DEF PullSym, Advance, Scanning
<1>2. /\ oi \in 1 .. Len(objs) /\ si \in 1 .. Len(Tab(objs[oi]))
      /\ Len(Tab(objs[oi])) \in Nat /\ ScannedSym \in Sym
  BY <1>1, ScannedType DEF IInv
<1>3. PICK a \in 1 .. NArch, x \in Offsets :
        /\ f = <<a, x>> /\ m \in Parsed /\ m = NewObj(f) /\ m.file = f
        /\ f \notin IncludedFiles
  BY <1>1, <1>2, AskedMember DEF IInv
<1> HIDE DEF m, f
<1>4. /\ objs' \in Seq(Parsed) /\ Len(objs') = Len(objs) + 1
      /\ Len(objs) \in Nat /\ objs'[Len(objs) + 1] = m
      /\ \A k \in 1 .. Len(objs) : objs'[k] = objs[k]
  BY <1>1, <1>3, AppendFacts DEF Include, IInv
<1>5. Parsed' = Parsed
  BY <1>1 DEF Parsed, Tab
<1>6. TypeOK'
  <2>1. globals' \in [Names -> Parsed \cup {None}]
    BY <1>1, <1>3, RegisterFacts DEF Include, IInv, TypeOK
  <2>2. oi' <= Len(objs') => si' <= Len(Tab(objs[oi]))' + 1
    BY <1>1, <1>2, <1>4 DEF Tab
  <2>3. progress' \in BOOLEAN
    BY <1>1, Zenon
  <2>4. parsed' \in [1 .. NArch -> [Offsets -> Parsed \cup {None}]]
    BY <1>1, <1>3 DEF IInv, TypeOK
  <2> QED
    BY <1>1, <1>2, <1>4, <1>5, <2>1, <2>2, <2>3, <2>4 DEF IInv, TypeOK
<1>7. LoadingInv' /\ SymmapInv'
  BY <1>1 DEF IInv, LoadingInv, SymmapInv
<1>8. ScanInv'
  <2>1. \A n \in Names : Settled(n) => Settled(n)'
    BY <1>1, <1>3, IncludeKeepsSettled DEF IInv
  <2>2. PICK nm \in Names : nm = ScannedSym.name
    BY SMTT(30), <1>2 DEF Sym
  <2>3. Settled(nm)'
    <3>1. f \in IncludedFiles'
      BY <1>3, <1>4 DEF Included, IncludedFiles
    <3> QED
      BY <1>1, <2>2, <3>1 DEF Settled, f, Supplier
  <2>4. \A k \in 1 .. Len(objs) : \A j \in 1 .. Len(Tab(objs[k])) : Tab(objs[k])[j] \in Sym
    BY TabType DEF IInv, TypeOK
  <2>5. ASSUME NEW k \in 1 .. Len(objs), NEW j \in 1 .. Len(Tab(objs[k])),
               k < oi \/ (k = oi /\ j < si + 1), NEW n \in Names,
               n = Tab(objs[k])[j].name,
               ~Tab(objs[k])[j].def, Tab(objs[k])[j].bind # "LOCAL"
        PROVE  Settled(n)'
    <3>1. CASE k = oi /\ j = si
      BY <2>2, <2>3, <2>5, <3>1 DEF ScannedSym
    <3>2. CASE k < oi \/ (k = oi /\ j < si)
      <4>1. Settled(n)
        BY <1>1, <2>5, <3>2 DEF IInv, ScanInv, Passed, SymSettled
      <4> QED
        BY <2>1, <4>1
    <3>3. j = si \/ j < si \/ k < oi
      BY <1>2, <2>5
    <3> QED
      BY <2>5, <3>1, <3>2, <3>3
  <2>6. ASSUME NEW k \in 1 .. Len(objs'), NEW j \in 1 .. Len(Tab(objs[k]))', Passed(k, j)'
        PROVE  SymSettled(Tab(objs[k])[j])'
    <3>1. k \in 1 .. Len(objs) /\ objs'[k] = objs[k] /\ (k < oi \/ (k = oi /\ j < si + 1))
      BY <1>1, <1>2, <1>4, <2>6 DEF Passed
    <3>2. Tab(objs[k])' = Tab(objs[k])
      BY <1>1, <3>1 DEF Tab
    <3>3. PICK y \in Sym : y = Tab(objs[k])[j]
      BY <2>4, <3>1, <3>2
    <3>4. y = (Tab(objs[k])[j])'
      BY <3>2, <3>3
    <3>5. ~y.def /\ y.bind # "LOCAL" => Settled(y.name)'
      BY <2>5, <3>1, <3>2, <3>3 DEF Sym
    <3> QED
      BY <3>4, <3>5 DEF SymSettled
  <2> QED
    BY <1>1, <2>6 DEF ScanInv
<1>9. BindingRule' /\ NoDoubleInclusion'
  BY <1>1, <1>3, IncludeKeepsBinding, IncludeKeepsDistinct DEF IInv
<1>10. CacheInv'
  <2>1. m.addr = Len(objs) + 1
    BY <1>3 DEF NewObj
  <2>2. /\ parsed'[a][x] = m
        /\ \A c \in 1 .. NArch, z \in Offsets :
             c # a \/ z # x => parsed'[c][z] = parsed[c][z]
    BY <1>1, <1>3 DEF IInv, TypeOK
  <2>3. \A k \in 1 .. Len(objs) : objs[k].file # f
    BY <1>3 DEF Included, IncludedFiles
  <2>4. \A k \in 1 .. Len(objs') : objs'[k].addr = k
    BY <1>4, <2>1 DEF IInv, CacheInv
  <2>5. ASSUME NEW c \in 1 .. NArch, NEW z \in Offsets, parsed'[c][z] # None
        PROVE  HeldAt(parsed[c][z], c, z)'
    <3>1. CASE c = a /\ z = x
      <4>1. Len(objs) + 1 \in 1 .. Len(objs')
        BY <1>4
      <4> QED
        BY <1>3, <1>4, <2>2, <3>1, <4>1 DEF HeldAt
    <3>2. CASE c # a \/ z # x
      <4>1. parsed'[c][z] = parsed[c][z]
        BY <2>2, <3>2
      <4>2. PICK k \in 1 .. Len(objs) : objs[k] = parsed[c][z] /\ objs[k].file = <<c, z>>
        BY <2>5, <4>1 DEF IInv, CacheInv, HeldAt
      <4>3. k \in 1 .. Len(objs') /\ objs'[k] = objs[k]
        BY <1>4
      <4> QED
        BY <4>1, <4>2, <4>3 DEF HeldAt
    <3> QED
      BY <3>1, <3>2
  <2>6. ASSUME NEW k \in 1 .. Len(objs'), NEW c \in 1 .. NArch, NEW z \in Offsets,
               objs'[k].file = <<c, z>>
        PROVE  parsed'[c][z] = objs'[k]
    <3>1. CASE k = Len(objs) + 1
      BY <1>3, <1>4, <2>2, <2>6, <3>1
    <3>2. CASE k \in 1 .. Len(objs)
      <4>1. objs'[k] = objs[k] /\ parsed[c][z] = objs[k]
        BY <1>4, <2>6, <3>2 DEF IInv, CacheInv
      <4>2. c # a \/ z # x
        BY <1>3, <2>3, <2>6, <3>2, <4>1
      <4> QED
        BY <2>2, <4>1, <4>2
    <3> QED
      BY <1>4, <3>1, <3>2
  <2> QED
    BY <2>4, <2>5, <2>6 DEF CacheInv
<1> QED
  BY <1>6, <1>7, <1>8, <1>9, <1>10 DEF IInv

LEMMA NextObjInv == IInv /\ NextObj => IInv'
<1> SUFFICES ASSUME IInv, NextObj PROVE IInv'
  OBVIOUS
<1>1. UNCHANGED data /\ pc' = pc /\ pc = "resolve" /\ next' = next /\ progress' = progress
      /\ oi' = oi + 1 /\ si' = 1 /\ oi \in 1 .. Len(objs) /\ si > Len(Tab(objs[oi]))
  BY DEF NextObj, data, IInv, TypeOK
<1>2. \A k \in 1 .. Len(objs) : Len(Tab(objs[k])) \in Nat
  BY TabType DEF IInv, TypeOK
<1>3. TypeOK'
  BY <1>1, <1>2 DEF IInv, TypeOK, Parsed, Tab, data
<1>4. LoadingInv' /\ SymmapInv'
  BY <1>1 DEF IInv, LoadingInv, SymmapInv, data
<1>5. ScanInv'
  <2> SUFFICES ASSUME NEW k \in 1 .. Len(objs), NEW j \in 1 .. Len(Tab(objs[k])),
                      k < oi + 1 \/ (k = oi + 1 /\ j < 1)
               PROVE  SymSettled(Tab(objs[k])[j])
    BY <1>1, DataUnchanged DEF ScanInv, Passed, SymSettled, Tab, data
  <2>1. k < oi \/ (k = oi /\ j < si)
    BY <1>1, <1>2 DEF IInv, TypeOK
  <2> QED
    BY <1>1, <2>1 DEF IInv, ScanInv, Passed
<1> QED
  BY <1>1, <1>3, <1>4, <1>5, DataUnchanged DEF IInv

LEMMA RepeatPassInv == IInv /\ RepeatPass => IInv'
<1> SUFFICES ASSUME IInv, RepeatPass PROVE IInv'
  OBVIOUS
<1>1. UNCHANGED data /\ pc' = pc /\ pc = "resolve" /\ next' = next /\ progress' = FALSE
      /\ oi' = 1 /\ si' = 1
  BY DEF RepeatPass, PassDone, data
<1>2. \A k \in 1 .. Len(objs) : Len(Tab(objs[k])) \in Nat
  BY TabType DEF IInv, TypeOK
<1>3. TypeOK'
  <2>1. progress' \in BOOLEAN
    BY <1>1, Zenon
  <2> QED
    BY <1>1, <1>2, <2>1 DEF IInv, TypeOK, Parsed, Tab, data
<1>4. LoadingInv' /\ SymmapInv'
  BY <1>1 DEF IInv, LoadingInv, SymmapInv, data
<1>5. ScanInv'
  BY <1>1, <1>2 DEF ScanInv, Passed
<1> QED
  BY <1>1, <1>3, <1>4, <1>5, DataUnchanged DEF IInv

LEMMA FixpointInv == IInv /\ Fixpoint => IInv'
<1> SUFFICES ASSUME IInv, Fixpoint PROVE IInv'
  OBVIOUS
<1>1. UNCHANGED data /\ pc' = "resolved" /\ pc = "resolve" /\ next' = next
      /\ progress' = progress /\ oi' = oi /\ si' = si /\ oi > Len(objs)
  BY DEF Fixpoint, PassDone, data
<1>2. TypeOK'
  BY <1>1 DEF IInv, TypeOK, Parsed, Tab, data
<1>3. LoadingInv' /\ SymmapInv'
  BY <1>1 DEF IInv, LoadingInv, SymmapInv, data
<1>4. ScanInv'
  BY <1>1, DataUnchanged DEF IInv, ScanInv, Passed, SymSettled, Tab, data
<1> QED
  BY <1>1, <1>2, <1>3, <1>4, DataUnchanged DEF IInv

(* The three calls of diagnostics_fatal: the process is gone.              *)
LEMMA FatalInv == IInv /\ (LoadInputFails \/ LoadArchiveFails \/ PullFails) => IInv'
<1> SUFFICES ASSUME IInv, LoadInputFails \/ LoadArchiveFails \/ PullFails PROVE IInv'
  OBVIOUS
<1>1. UNCHANGED data /\ pc' = "fatal" /\ next' = next /\ oi' = oi /\ si' = si
      /\ progress' = progress
  BY DEF LoadInputFails, LoadArchiveFails, PullFails, data
<1>2. TypeOK'
  BY <1>1 DEF IInv, TypeOK, Parsed, Tab, data
<1>3. LoadingInv' /\ SymmapInv' /\ ScanInv'
  BY <1>1 DEF LoadingInv, SymmapInv, ScanInv
<1> QED
  BY <1>1, <1>2, <1>3, DataUnchanged DEF IInv

LEMMA StutterInv == IInv /\ UNCHANGED vars => IInv'
<1> SUFFICES ASSUME IInv, UNCHANGED vars PROVE IInv'
  OBVIOUS
<1>1. UNCHANGED data /\ pc' = pc /\ next' = next /\ oi' = oi /\ si' = si
      /\ progress' = progress
  BY DEF vars, data
<1>2. TypeOK'
  BY <1>1 DEF IInv, TypeOK, Parsed, Tab, data
<1>3. LoadingInv' /\ SymmapInv'
  BY <1>1 DEF IInv, LoadingInv, SymmapInv, data
<1>4. ScanInv'
  BY <1>1, DataUnchanged DEF IInv, ScanInv, Passed, SymSettled, Tab, data
<1> QED
  BY <1>1, <1>2, <1>3, <1>4, DataUnchanged DEF IInv
LEMMA NextInv == IInv /\ [Next]_vars => IInv'
<1> SUFFICES ASSUME IInv, [Next]_vars PROVE IInv'
  OBVIOUS
<1>1. CASE LoadInput
  BY <1>1, LoadInputInv
<1>2. CASE InputsLoaded
  BY <1>2, InputsLoadedInv
<1>3. CASE LoadArchive
  BY <1>3, LoadArchiveInv
<1>4. CASE ArchivesLoaded
  BY <1>4, ArchivesLoadedInv
<1>5. CASE SkipSym
  BY <1>5, SkipSymInv
<1>6. CASE PullSym
  BY <1>6, PullSymInv
<1>7. CASE NextObj
  BY <1>7, NextObjInv
<1>8. CASE RepeatPass
  BY <1>8, RepeatPassInv
<1>9. CASE Fixpoint
  BY <1>9, FixpointInv
<1>10. CASE LoadInputFails \/ LoadArchiveFails \/ PullFails
  BY <1>10, FatalInv
<1>11. CASE UNCHANGED vars
  BY <1>11, StutterInv
<1> QED
  BY <1>1, <1>2, <1>3, <1>4, <1>5, <1>6, <1>7, <1>8, <1>9, <1>10, <1>11
     DEF Next, Step, Terminated

LEMMA Inductive == Spec => []IInv
<1>1. Init => IInv
  BY InitInv
<1>2. IInv /\ [Next]_vars => IInv'
  BY NextInv
<1> QED
  BY <1>1, <1>2, PTL DEF Spec

-----------------------------------------------------------------------------
(* The state stays well formed: resolve_pass indexes neither past the      *)
(* object list, which grows under it, nor past a symbol table.             *)
THEOREM TypeCorrect == Spec => []TypeOK
<1>1. IInv => TypeOK
  BY DEF IInv
<1> QED
  BY <1>1, Inductive, PTL

(* include_object binds every name to its first strong definition, or to   *)
(* its first weak one if there is no strong one, in whatever order         *)
(* resolve_pass brings the objects in.                                     *)
THEOREM BindingCorrect == Spec => []BindingRule
<1>1. IInv => BindingRule
  BY DEF IInv
<1> QED
  BY <1>1, Inductive, PTL

(* No file is linked in twice, although resolve_pass may turn to a member  *)
(* any number of times and parse_object makes a new object on each call:   *)
(* the cache of archive_member_at holds every member that is in the list.  *)
THEOREM InclusionOnce == Spec => []NoDoubleInclusion
<1>1. IInv => NoDoubleInclusion
  BY DEF IInv
<1> QED
  BY <1>1, Inductive, PTL

LEMMA InvCloses == IInv => EveryPassCloses
<1> SUFFICES ASSUME IInv, PassDone \/ pc = "resolved",
                    NEW o \in Included, NEW n \in Names, Refers(o, n)
             PROVE  Settled(n)
  BY DEF EveryPassCloses
<1>1. PICK k \in 1 .. Len(objs) : objs[k] = o
  BY DEF Included
<1>2. PICK i \in 1 .. Len(Tab(o)) :
        Tab(o)[i].name = n /\ Tab(o)[i].bind # "LOCAL" /\ ~Tab(o)[i].def
  BY DEF Refers, TableRefers
<1>3. k < oi /\ pc \in {"resolve", "resolved"}
  BY <1>1 DEF PassDone, IInv, TypeOK, ScanInv
<1>4. SymSettled(Tab(o)[i])
  BY <1>1, <1>2, <1>3 DEF IInv, ScanInv, Passed
<1> QED
  BY <1>2, <1>4 DEF SymSettled

(* Every pass of resolve_pass leaves nothing to ask for, so the loop to    *)
(* the fixpoint only confirms the first pass.                              *)
THEOREM PassCloses == Spec => []EveryPassCloses
BY InvCloses, Inductive, PTL

LEMMA InvDemand == IInv => DemandMet
<1> SUFFICES ASSUME IInv, pc = "resolved", IndexAccurate,
                    NEW o \in Included, NEW n \in Names, Refers(o, n), globals[n] = None,
                    NEW a \in 1 .. NArch, NEW m \in Offsets, Exports(<<a, m>>, n)
             PROVE  FALSE
  BY DEF DemandMet
<1>1. \A c \in 1 .. NArch : img.armap[c] \in ArMaps /\ symmap[c] = FirstListed(img.armap[c])
  BY DEF IInv, SymmapInv, TypeOK, Image
<1>2. symmap[a][n] # None
  <2>1. PICK i \in 1 .. Len(img.armap[a]) : img.armap[a][i] = <<n, m>>
    BY DEF IndexAccurate
  <2>2. img.armap[a][i][1] = n
    BY <2>1
  <2>3. FirstListed(img.armap[a])[n] # None
    BY <1>1, <2>2, FirstListedFacts
  <2> QED
    BY <1>1, <2>3
<1>3. Listed(symmap, n)
  BY <1>2 DEF Listed
<1>4. Supplier(symmap, n) \in IncludedFiles
  BY <1>3, InvCloses DEF EveryPassCloses, Settled
<1>5. PICK c \in 1 .. NArch : symmap[c][n] # None /\ Supplier(symmap, n) = <<c, symmap[c][n]>>
  BY <1>3, SupplierListed DEF IInv, TypeOK
<1>6. Exports(<<c, symmap[c][n]>>, n)
  <2>0. FirstListed(img.armap[c])[n] # None
    BY <1>1, <1>5
  <2> DEFINE am == img.armap[c]
  <2>a. am \in ArMaps /\ symmap[c] = FirstListed(am)
    BY <1>1
  <2>b. \E i \in 1 .. Len(am) : am[i] = <<n, FirstListed(am)[n]>>
    <3> HIDE DEF am
    <3> QED BY <2>0, <2>a, FirstListedFacts DEF am
  <2>1. \E i \in 1 .. Len(am) : am[i] = <<n, symmap[c][n]>>
    BY <2>a, <2>b
  <2>2. symmap[c][n] \in Offsets
    BY <1>5 DEF IInv, TypeOK
  <2> QED
    BY <2>1, <2>2 DEF IndexAccurate
<1>7. PICK k \in 1 .. Len(objs) : objs[k].file = <<c, symmap[c][n]>>
  BY <1>4, <1>5 DEF Included, IncludedFiles
<1>8. ~(NobodyDefines(n, "GLOBAL") /\ NobodyDefines(n, "WEAK"))
  BY <1>6, <1>7 DEF Exports, Defines, Tab, NobodyDefines
<1>9. \A b : FirstWith(n, b, globals[n]) => globals[n] \in Objs
  BY DEF FirstWith, IInv, TypeOK, Parsed
<1> QED
  BY <1>8, <1>9, NoneAssumption DEF IInv, BindingRule

(* With accurate indexes the archives leave no name undefined that they    *)
(* could define.                                                           *)
THEOREM DemandsAreMet == Spec => []DemandMet
BY InvDemand, Inductive, PTL

-----------------------------------------------------------------------------
(* Resolve implements LinkClosure                                          *)

(* The files, as LinkClosure sees them, do not change.                     *)
LEMMA FilesFixed ==
    ASSUME img' = img
    PROVE  UNCHANGED <<AbsRefs, AbsDefs, AbsSupply>>
<1>1. AbsRefs' = AbsRefs
  BY DEF AbsRefs
<1>2. AbsDefs' = AbsDefs
  BY DEF AbsDefs, Exports
<1>3. FileMap' = FileMap
  BY DEF FileMap
<1>4. AbsSupply' = AbsSupply
  BY <1>3 DEF AbsSupply
<1> QED
  BY <1>1, <1>2, <1>4

(* The map read off an index is a map of member offsets, whether or not    *)
(* the archive is readable.                                                *)
LEMMA FileMapType ==
    ASSUME img \in Image
    PROVE  FileMap \in [1 .. NArch -> [Names -> Offsets \cup {None}]]
<1> SUFFICES ASSUME NEW a \in 1 .. NArch
             PROVE  FileMap[a] \in [Names -> Offsets \cup {None}]
  BY DEF FileMap
<1>1. CASE img.armap[a] = Bad
  BY <1>1 DEF FileMap
<1>2. CASE img.armap[a] # Bad
  <2>1. img.armap[a] \in ArMaps
    BY <1>2 DEF Image
  <2> QED
    BY <1>2, <2>1, FirstListedFacts DEF FileMap
<1> QED
  BY <1>1, <1>2

LEMMA AbsInitial == Init => Closure!AbsInit
<1> SUFFICES ASSUME Init PROVE Closure!AbsInit
  OBVIOUS
<1>1. img \in Image
  BY ImagesAssumption DEF Init
<1>2. AbsRefs \in [Files -> SUBSET Names] /\ AbsDefs \in [Files -> SUBSET Names]
  BY DEF AbsRefs, AbsDefs
<1>3. AbsSupply \in [Names -> Files \cup {None}]
  BY <1>1, FileMapType, SupplierType DEF AbsSupply, Files, Members
<1>4. IncludedFiles = {}
  BY DEF Init, Included, IncludedFiles
<1>5. AbsStage = "loading"
  BY DEF Init, AbsStage
<1> QED
  BY <1>2, <1>3, <1>4, <1>5 DEF Closure!AbsInit

(* While resolve_pass runs, the symbol maps are those of the files.        *)
LEMMA MapsLoaded ==
    ASSUME IInv, pc \in {"resolve", "resolved"}
    PROVE  symmap = FileMap
<1>1. \A a \in 1 .. NArch : symmap[a] = FileMap[a]
  BY DEF IInv, SymmapInv, FileMap
<1>2. symmap \in [1 .. NArch -> [Names -> Offsets \cup {None}]]
  BY DEF IInv, TypeOK
<1>3. FileMap \in [1 .. NArch -> [Names -> Offsets \cup {None}]]
  BY FileMapType DEF IInv, TypeOK
<1>4. symmap = [a \in 1 .. NArch |-> symmap[a]] /\ FileMap = [a \in 1 .. NArch |-> FileMap[a]]
  BY <1>2, <1>3
<1> QED
  BY <1>1, <1>4, Zenon

(* An included file is a parsed one.                                       *)
LEMMA IncludedParsed ==
    ASSUME TypeOK, NEW f \in IncludedFiles
    PROVE  /\ f \in Files /\ img.table[f] # Bad
           /\ \E k \in 1 .. Len(objs) : objs[k].file = f /\ Tab(objs[k]) = img.table[f]
<1>1. PICK k \in 1 .. Len(objs) : objs[k].file = f
  BY DEF Included, IncludedFiles
<1>2. objs[k] \in Objs /\ Tab(objs[k]) # Bad
  BY DEF TypeOK, Parsed
<1> QED
  BY <1>1, <1>2 DEF Objs, Tab

(* A name is without a definition in globals exactly when no included      *)
(* file exports it.                                                        *)
LEMMA UnboundIffUndefined ==
    ASSUME IInv, NEW n \in Names
    PROVE  globals[n] = None <=> \A f \in IncludedFiles : ~Exports(f, n)
<1>1. \A k \in 1 .. Len(objs) :
        /\ objs[k] \in Parsed /\ objs[k] \in Objs /\ Tab(objs[k]) # Bad
        /\ Tab(objs[k]) = img.table[objs[k].file] /\ objs[k].file \in IncludedFiles
  BY DEF IInv, TypeOK, Parsed, Tab, Included, IncludedFiles
<1>2. ASSUME globals[n] = None PROVE NobodyDefines(n, "GLOBAL") /\ NobodyDefines(n, "WEAK")
  BY <1>1, <1>2, NoneAssumption DEF IInv, BindingRule, FirstWith
<1>3. ASSUME NobodyDefines(n, "GLOBAL"), NobodyDefines(n, "WEAK") PROVE globals[n] = None
  BY <1>3 DEF IInv, BindingRule, FirstWith, NobodyDefines
<1>4. ASSUME NEW f \in IncludedFiles, Exports(f, n)
      PROVE  ~(NobodyDefines(n, "GLOBAL") /\ NobodyDefines(n, "WEAK"))
  BY <1>4, IncludedParsed DEF IInv, Exports, Defines, NobodyDefines
<1>5. ASSUME NEW b \in {"GLOBAL", "WEAK"}, ~NobodyDefines(n, b)
      PROVE  \E f \in IncludedFiles : Exports(f, n)
  BY <1>1, <1>5 DEF Exports, Defines, NobodyDefines
<1> QED
  BY <1>2, <1>3, <1>4, <1>5

(* The names LinkClosure calls undefined are those resolve_pass asks for.  *)
LEMMA UndefinedMeans ==
    ASSUME IInv, NEW n \in Names
    PROVE  n \in Closure!Undefined(IncludedFiles)
             <=> globals[n] = None /\ \E o \in Included : Refers(o, n)
<1>1. \A f \in IncludedFiles : f \in Files /\ img.table[f] # Bad
  BY IncludedParsed DEF IInv
<1>2. \A f \in IncludedFiles : n \in AbsRefs[f] <=> TableRefers(img.table[f], n)
  BY <1>1 DEF AbsRefs
<1>3. \A f \in IncludedFiles : n \in AbsDefs[f] <=> Exports(f, n)
  BY <1>1 DEF AbsDefs
<1>4. n \in Closure!Undefined(IncludedFiles)
        <=> (\E f \in IncludedFiles : n \in AbsRefs[f])
            /\ (\A f \in IncludedFiles : n \notin AbsDefs[f])
  BY DEF Closure!Undefined
<1>5. (\E f \in IncludedFiles : TableRefers(img.table[f], n))
        <=> \E o \in Included : Refers(o, n)
  BY DEF Refers, Tab, IncludedFiles
<1> QED
  BY <1>2, <1>3, <1>4, <1>5, UnboundIffUndefined

(* Including an object adds its file to the image.                         *)
LEMMA ImageGrows ==
    ASSUME TypeOK, NEW o \in Parsed, Include(o)
    PROVE  IncludedFiles' = IncludedFiles \cup {o.file}
<1>1. /\ Len(objs') = Len(objs) + 1 /\ Len(objs) \in Nat /\ objs'[Len(objs) + 1] = o
      /\ \A k \in 1 .. Len(objs) : objs'[k] = objs[k]
  BY AppendFacts DEF Include
<1>2. \A x : x \in Included' <=> x \in Included \/ x = o
  BY <1>1 DEF Included
<1> QED
  BY <1>2 DEF IncludedFiles

(* An input read is TakeInput.                                             *)
LEMMA AbsLoadInput == IInv /\ LoadInput => Closure!TakeInput(<<0, next>>) /\ <<0, next>> \in Files
<1> SUFFICES ASSUME IInv, LoadInput
             PROVE  Closure!TakeInput(<<0, next>>) /\ <<0, next>> \in Files
  OBVIOUS
<1> DEFINE f == <<0, next>>
           o == NewObj(f)
<1>1. f \in InputFiles /\ f \in Files
  BY CountAssumption DEF LoadInput, IInv, TypeOK, Files, InputFiles
<1>2. o \in Parsed /\ o.file = f /\ Include(o)
  BY <1>1 DEF LoadInput, IInv, TypeOK, Parsed, Tab, NewObj, Objs
<1>3. f \notin IncludedFiles
  BY DEF LoadingInv, LoadInput, IInv, TypeOK, Included, IncludedFiles
<1> HIDE DEF o, f
<1>4. IncludedFiles' = IncludedFiles \cup {f}
  BY <1>2, ImageGrows DEF IInv
<1>5. AbsStage = "loading" /\ AbsStage' = AbsStage
  BY DEF LoadInput, AbsStage
<1>6. UNCHANGED <<AbsRefs, AbsDefs, AbsSupply>>
  BY FilesFixed DEF LoadInput
<1>7. Closure!TakeInput(f)
  BY <1>1, <1>3, <1>4, <1>5, <1>6 DEF Closure!TakeInput, Closure!files
<1> QED
  BY <1>1, <1>7 DEF f

(* When the archives are loaded, exactly the inputs are in the image.      *)
LEMMA AbsArchivesLoaded == IInv /\ ArchivesLoaded => Closure!StartPulling
<1> SUFFICES ASSUME IInv, ArchivesLoaded PROVE Closure!StartPulling
  OBVIOUS
<1>1. Len(objs) = NInputs /\ \A k \in 1 .. Len(objs) : objs[k].file = <<0, k>>
  BY DEF ArchivesLoaded, IInv, LoadingInv
<1>2. IncludedFiles = InputFiles
  <2>1. ASSUME NEW x \in IncludedFiles PROVE x \in InputFiles
    <3>1. PICK k \in 1 .. Len(objs) : x = objs[k].file
      BY DEF Included, IncludedFiles
    <3>2. k \in 1 .. NInputs /\ x = <<0, k>>
      BY <1>1, <3>1
    <3> QED
      BY <3>2 DEF InputFiles
  <2>2. ASSUME NEW x \in InputFiles PROVE x \in IncludedFiles
    <3>1. PICK k \in 1 .. NInputs : x = <<0, k>>
      BY DEF InputFiles
    <3> QED
      BY <1>1, <3>1 DEF Included, IncludedFiles
  <2> QED
    BY <2>1, <2>2
<1>3. IncludedFiles' = IncludedFiles /\ AbsStage = "loading" /\ AbsStage' = "pulling"
  BY DEF ArchivesLoaded, Included, IncludedFiles, AbsStage
<1>4. UNCHANGED <<AbsRefs, AbsDefs, AbsSupply>>
  BY FilesFixed DEF ArchivesLoaded
<1> QED
  BY <1>2, <1>3, <1>4 DEF Closure!StartPulling, Closure!files

(* A member pulled is one that LinkClosure wants.                          *)
LEMMA AbsPullSym ==
    IInv /\ PullSym => \E f \in Files : Closure!PullMember(f)
<1> SUFFICES ASSUME IInv, PullSym PROVE \E f \in Files : Closure!PullMember(f)
  OBVIOUS
<1> DEFINE n == ScannedSym.name
           f == Supplier(symmap, n)
           m == MemberAt(f)
<1>1. Scanning /\ AsksForNew(ScannedSym) /\ Asks(ScannedSym) /\ Listed(symmap, n)
      /\ img.table[f] # Bad /\ Include(m) /\ pc' = pc /\ pc = "resolve" /\ img' = img
  BY DEF PullSym, AsksForNew, Scanning
<1>2. ScannedSym \in Sym /\ n \in Names /\ objs[oi] \in Included /\ Refers(objs[oi], n)
  <2>1. oi \in 1 .. Len(objs) /\ si \in 1 .. Len(Tab(objs[oi])) /\ ScannedSym \in Sym
    BY <1>1, ScannedType DEF IInv
  <2>2. Refers(objs[oi], n)
    BY <1>1, <2>1 DEF Refers, TableRefers, Asks, ScannedSym
  <2> QED
    BY <2>1, <2>2 DEF Sym, Included
<1>3. globals[n] = None
  BY <1>1 DEF Asks
<1>4. symmap = FileMap
  BY <1>1, MapsLoaded
<1>5. PICK a \in 1 .. NArch, x \in Offsets :
        f = <<a, x>> /\ m \in Parsed /\ m.file = f /\ f \notin IncludedFiles
  BY <1>1, <1>2, AskedMember DEF IInv
<1>6. f \in Files /\ f # None
  BY <1>5, NoneAssumption DEF Files, Members
<1>7. AbsSupply[n] = f
  BY <1>1, <1>2, <1>4 DEF AbsSupply
<1> HIDE DEF n, f, m
<1>8. n \in Closure!Undefined(IncludedFiles)
  BY <1>2, <1>3, UndefinedMeans
<1>9. f \in Closure!Wanted(IncludedFiles) \ IncludedFiles
  BY <1>5, <1>6, <1>7, <1>8 DEF Closure!Wanted
<1>10. IncludedFiles' = IncludedFiles \cup {f}
  BY <1>1, <1>5, ImageGrows DEF IInv
<1>11. AbsStage = "pulling" /\ AbsStage' = AbsStage
  BY <1>1 DEF AbsStage
<1>12. UNCHANGED <<AbsRefs, AbsDefs, AbsSupply>>
  BY <1>1, FilesFixed
<1>13. Closure!PullMember(f)
  BY <1>9, <1>10, <1>11, <1>12 DEF Closure!PullMember, Closure!files
<1> QED
  BY <1>6, <1>13

(* A pass without progress means that nothing is wanted any more.          *)
LEMMA AbsFixpoint == IInv /\ Fixpoint => Closure!Close
<1> SUFFICES ASSUME IInv, Fixpoint PROVE Closure!Close
  OBVIOUS
<1>1. PassDone /\ pc = "resolve" /\ pc' = "resolved" /\ img' = img /\ objs' = objs
  BY DEF Fixpoint, PassDone
<1>2. Closure!Wanted(IncludedFiles) \subseteq IncludedFiles
  <2> SUFFICES ASSUME NEW x \in Closure!Wanted(IncludedFiles) PROVE x \in IncludedFiles
    OBVIOUS
  <2>1. PICK n \in Closure!Undefined(IncludedFiles) : x = AbsSupply[n] /\ x # None
    BY DEF Closure!Wanted
  <2>2. n \in Names
    <3>1. PICK f \in IncludedFiles : n \in AbsRefs[f]
      BY DEF Closure!Undefined
    <3>2. f \in Files
      BY IncludedParsed DEF IInv
    <3> QED
      BY <3>1, <3>2 DEF AbsRefs
  <2>3. globals[n] = None /\ \E o \in Included : Refers(o, n)
    BY <2>2, UndefinedMeans
  <2>4. Settled(n)
    BY <1>1, <2>2, <2>3, InvCloses DEF EveryPassCloses
  <2>5. Listed(FileMap, n) /\ x = Supplier(FileMap, n)
    BY <2>1, <2>2 DEF AbsSupply
  <2>6. symmap = FileMap
    BY <1>1, MapsLoaded
  <2> QED
    BY <2>3, <2>4, <2>5, <2>6 DEF Settled
<1>3. IncludedFiles' = IncludedFiles /\ AbsStage = "pulling" /\ AbsStage' = "closed"
  BY <1>1 DEF Included, IncludedFiles, AbsStage
<1>4. UNCHANGED <<AbsRefs, AbsDefs, AbsSupply>>
  BY <1>1, FilesFixed
<1> QED
  BY <1>2, <1>3, <1>4 DEF Closure!Close, Closure!files

(* The calls of diagnostics_fatal are Abort.                               *)
LEMMA AbsFatal == LoadInputFails \/ LoadArchiveFails \/ PullFails => Closure!Abort
<1> SUFFICES ASSUME LoadInputFails \/ LoadArchiveFails \/ PullFails PROVE Closure!Abort
  OBVIOUS
<1>1. pc \in {"inputs", "archives", "resolve"} /\ pc' = "fatal" /\ img' = img /\ objs' = objs
  BY DEF LoadInputFails, LoadArchiveFails, PullFails, Scanning
<1>2. AbsStage \in {"loading", "pulling"} /\ AbsStage' = "fatal" /\ IncludedFiles' = IncludedFiles
  BY <1>1 DEF AbsStage, Included, IncludedFiles
<1>3. UNCHANGED <<AbsRefs, AbsDefs, AbsSupply>>
  BY <1>1, FilesFixed
<1> QED
  BY <1>2, <1>3 DEF Closure!Abort, Closure!files

(* The other steps move a cursor that LinkClosure does not have.           *)
LEMMA AbsStutter ==
    InputsLoaded \/ LoadArchive \/ SkipSym \/ NextObj \/ RepeatPass \/ UNCHANGED vars
        => UNCHANGED Closure!absVars
<1> SUFFICES ASSUME InputsLoaded \/ LoadArchive \/ SkipSym \/ NextObj \/ RepeatPass
                    \/ UNCHANGED vars
             PROVE  UNCHANGED Closure!absVars
  OBVIOUS
<1>1. img' = img /\ objs' = objs
  BY DEF InputsLoaded, LoadArchive, SkipSym, NextObj, RepeatPass, vars
<1>2. pc' = pc \/ (pc = "inputs" /\ pc' = "archives")
  BY DEF InputsLoaded, LoadArchive, SkipSym, NextObj, RepeatPass, vars
<1>3. AbsStage' = AbsStage /\ IncludedFiles' = IncludedFiles
  BY <1>1, <1>2 DEF AbsStage, Included, IncludedFiles
<1> QED
  BY <1>1, <1>3, FilesFixed DEF Closure!absVars

LEMMA AbsStep == IInv /\ [Next]_vars => [Closure!AbsNext]_(Closure!absVars)
<1> SUFFICES ASSUME IInv, [Next]_vars PROVE [Closure!AbsNext]_(Closure!absVars)
  OBVIOUS
<1>1. CASE LoadInput
  BY <1>1, AbsLoadInput DEF Closure!AbsNext
<1>2. CASE ArchivesLoaded
  BY <1>2, AbsArchivesLoaded DEF Closure!AbsNext
<1>3. CASE PullSym
  BY <1>3, AbsPullSym DEF Closure!AbsNext
<1>4. CASE Fixpoint
  BY <1>4, AbsFixpoint DEF Closure!AbsNext
<1>5. CASE LoadInputFails \/ LoadArchiveFails \/ PullFails
  BY <1>5, AbsFatal DEF Closure!AbsNext
<1>6. CASE InputsLoaded \/ LoadArchive \/ SkipSym \/ NextObj \/ RepeatPass \/ UNCHANGED vars
  BY <1>6, AbsStutter
<1> QED
  BY <1>1, <1>2, <1>3, <1>4, <1>5, <1>6 DEF Next, Step, Terminated

(* The loops of elf_link_static and resolve_pass implement the closure     *)
(* under demands, whatever the files are: members enter the image only     *)
(* because an object in it leaves their name undefined, and resolution     *)
(* ends only when no member is wanted.                                     *)
THEOREM ImplementsClosure == Spec => Closure!AbsSafety
<1>1. Init => Closure!AbsInit
  BY AbsInitial
<1>2. IInv /\ [Next]_vars => [Closure!AbsNext]_(Closure!absVars)
  BY AbsStep
<1> QED
  BY <1>1, <1>2, Inductive, PTL DEF Spec, Closure!AbsSafety
=============================================================================
