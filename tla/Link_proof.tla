----------------------------- MODULE Link_proof -----------------------------
(***************************************************************************)
(* The internal linker from the layout to the file, for every link, page   *)
(* size and start address.  First the address layout by itself: input      *)
(* sections and COMMON symbols are disjoint and in order, aligned and      *)
(* inside their slots, and slots of different permissions share no page.   *)
(* Its argument is about the running address: everything placed lies below *)
(* it, and it never moves down.  Then the layout as the first part of the  *)
(* link.                                                                   *)
(***************************************************************************)
EXTENDS Link, WellFoundedInduction, FiniteSetTheorems, TLAPS

(* A non-empty set of naturals has a least element: the first symbol, or   *)
(* the first dependency, that a loop meets.                                *)
LEMMA LeastElement ==
    ASSUME NEW T, T \subseteq Nat, T # {}
    PROVE  \E x \in T : \A y \in T : x <= y
<1>1. IsWellFoundedOn(OpToRel(<, Nat), Nat)
  BY NatLessThanWellFounded
<1>2. PICK x \in T : \A y \in T : ~(<<y, x>> \in OpToRel(<, Nat))
  BY <1>1, WFMin
<1>3. \A y \in T : ~(y < x)
  BY <1>2 DEF OpToRel
<1> QED
  BY <1>3

-----------------------------------------------------------------------------
\* Arithmetic of alignment.

(* A quotient rounds down by less than the divisor.                        *)
LEMMA DivBounds ==
    ASSUME NEW x \in Nat, NEW a \in Nat \ {0}
    PROVE  /\ x \div a \in Nat
           /\ (x \div a) * a <= x
           /\ x < (x \div a) * a + a
  OBVIOUS

(* A multiple leaves no remainder.                                         *)
LEMMA MulMod ==
    ASSUME NEW q \in Nat, NEW a \in Nat \ {0}
    PROVE  (q * a) % a = 0 /\ q * a \in Nat
  OBVIOUS

(* Rounding up an address, as the layout loops of src/linker.c do, gives a *)
(* multiple of the alignment that is no lower.                             *)
LEMMA AlignUpFacts ==
    ASSUME NEW v \in Nat, NEW a \in Nat \ {0}
    PROVE  AlignUp(v, a) \in Nat /\ v <= AlignUp(v, a) /\ AlignUp(v, a) % a = 0
<1> DEFINE q == (v + a - 1) \div a
<1>1. q \in Nat /\ q * a <= v + a - 1 /\ v + a - 1 < q * a + a
  <2>1. v + a - 1 \in Nat
    OBVIOUS
  <2> QED BY <2>1, DivBounds
<1>2. q * a \in Nat /\ (q * a) % a = 0
  BY <1>1, MulMod
<1>3. v <= q * a
  <2> HIDE DEF q
  <2> QED BY <1>1, <1>2
<1> QED BY <1>2, <1>3 DEF AlignUp

(* An address below a page boundary is on an earlier page.                 *)
LEMMA PageBelow ==
    ASSUME NEW x \in Nat, NEW y \in Nat, NEW a \in Nat \ {0}, y % a = 0, x < y
    PROVE  x \div a < y \div a
  OBVIOUS

(* Pages are in the order of their addresses.                              *)
LEMMA PageOrder ==
    ASSUME NEW x \in Nat, NEW y \in Nat, NEW a \in Nat \ {0}, x <= y
    PROVE  x \div a <= y \div a
  OBVIOUS

(* Every slot has a positive alignment.                                    *)
LEMMA OutAlignPositive == \A s \in Slots : OutAlign(s) \in Nat \ {0}
  BY PageAssumption DEF OutAlign, WordAlign

-----------------------------------------------------------------------------
(* The inductive invariant.                                                *)
Opened(s) == s < slot \/ (s = slot /\ lpc # "open")
Closed(s) == s < slot \/ (s = slot /\ lpc = "laid")

\* What is placed lies below the running address.
Below ==
    /\ \A i \in SecIds : Placed(i) => addr[i] + Secs[i].size <= va
    /\ \A c \in ComIds : ComPlaced(c) => comaddr[c] + Coms[c].size <= va

\* What is placed is aligned and lies in its slot, once that is closed.
Fitted ==
    /\ \A i \in SecIds : Placed(i) =>
        /\ addr[i] % Secs[i].align = 0
        /\ outVa[Secs[i].slot] <= addr[i]
        /\ Closed(Secs[i].slot) =>
            addr[i] + Secs[i].size <= outVa[Secs[i].slot] + outSize[Secs[i].slot]
    /\ \A c \in ComIds : ComPlaced(c) =>
        /\ comaddr[c] % Coms[c].align = 0
        /\ outVa[BSS] <= comaddr[c]
        /\ Closed(BSS) => comaddr[c] + Coms[c].size <= outVa[BSS] + outSize[BSS]

\* The slots lie one after the other.
Extents ==
    /\ \A s \in Slots : Opened(s) => outVa[s] % OutAlign(s) = 0 /\ outVa[s] <= va
    /\ \A s \in Slots : Closed(s) => outVa[s] + outSize[s] <= va
    /\ \A s, t \in Slots :
        Closed(s) /\ Opened(t) /\ s < t => outVa[s] + outSize[s] <= outVa[t]

\* Where the loops are: COMMON symbols come with the last slot.
Where == lpc \in {"common", "laid"} => slot = BSS

LInv == LayoutTypeOK /\ Where /\ Below /\ InOrder /\ Fitted /\ Extents

(* Sizes and alignments of sections and COMMON symbols are numbers.        *)
LEMMA Inputs ==
    ASSUME LayoutTypeOK
    PROVE  /\ \A i \in SecIds : /\ Secs[i].size \in Nat /\ Secs[i].align \in Nat \ {0}
                                /\ Secs[i].slot \in {DISCARD} \cup Slots
                                /\ addr[i] \in Nat
           /\ \A c \in ComIds : /\ Coms[c].size \in Nat /\ Coms[c].align \in Nat \ {0}
                                /\ comaddr[c] \in Nat
           /\ \A i \in SecIds : Secs[i].slot \in Nat
           /\ Len(Secs) \in Nat /\ Len(Coms) \in Nat
           /\ \A s \in Slots : outVa[s] \in Nat /\ outSize[s] \in Nat
           /\ slot \in Slots /\ slot \in Nat /\ k \in Nat \ {0} /\ va \in Nat
           /\ addr \in [SecIds -> Nat] /\ comaddr \in [ComIds -> Nat]
           /\ outVa \in [Slots -> Nat] /\ outSize \in [Slots -> Nat]
<1>1. \A i \in SecIds : Secs[i] \in Section
  BY DEF LayoutTypeOK, SecIds
<1>2. \A c \in ComIds : Coms[c] \in Common
  BY DEF LayoutTypeOK, ComIds
<1>3. Len(Secs) \in Nat /\ Len(Coms) \in Nat
  BY DEF LayoutTypeOK
<1>4. /\ \A i \in SecIds : addr[i] \in Nat
      /\ \A c \in ComIds : comaddr[c] \in Nat
      /\ \A s \in Slots : outVa[s] \in Nat /\ outSize[s] \in Nat
      /\ addr \in [SecIds -> Nat] /\ comaddr \in [ComIds -> Nat]
      /\ outVa \in [Slots -> Nat] /\ outSize \in [Slots -> Nat]
  BY DEF LayoutTypeOK
<1>5. slot \in Slots /\ slot \in Nat /\ k \in Nat \ {0} /\ va \in Nat
  <2>1. slot \in Slots /\ k \in Nat \ {0} /\ va \in Nat
    BY DEF LayoutTypeOK
  <2> QED BY <2>1 DEF Slots, TEXT, BSS
<1>6. Slots \subseteq Nat /\ DISCARD \in Nat
  BY DEF Slots, TEXT, BSS, DISCARD
<1>7. \A i \in SecIds : /\ Secs[i].size \in Nat /\ Secs[i].align \in Nat \ {0}
                         /\ Secs[i].slot \in {DISCARD} \cup Slots
  BY <1>1 DEF Section
<1>8. \A c \in ComIds : Coms[c].size \in Nat /\ Coms[c].align \in Nat \ {0}
  BY <1>2 DEF Common
<1> QED BY <1>3, <1>4, <1>5, <1>6, <1>7, <1>8

(* Only sections of the slots gone through are placed.                     *)
LEMMA PlacedSlot ==
    ASSUME LayoutTypeOK, NEW i \in SecIds, Placed(i)
    PROVE  /\ Secs[i].slot \in Slots /\ Secs[i].slot <= slot
           /\ lpc = "open" => Secs[i].slot # slot
<1>1. Secs[i].slot \in Nat /\ slot \in Nat /\ slot \in Slots
  BY Inputs
<1>2. CASE Secs[i].slot \in TEXT .. slot - 1
  BY <1>1, <1>2 DEF Slots, TEXT, BSS
<1>3. CASE Secs[i].slot = slot /\ lpc # "open"
  BY <1>1, <1>3
<1> QED BY <1>2, <1>3 DEF Placed

(* The layout starts in the invariant: nothing is placed.                  *)
LEMMA LInit == LayoutInit => LInv
<1> SUFFICES ASSUME LayoutInit PROVE LInv
  OBVIOUS
<1>1. LayoutTypeOK
  BY PageAssumption, LinksAssumption
  DEF LayoutInit, LayoutTypeOK, Secs, Coms, SecIds, ComIds, Slots, TEXT, BSS
<1>2. \A i \in SecIds : ~Placed(i)
  BY <1>1, Inputs DEF LayoutInit, Placed, SecIds, TEXT
<1>3. \A c \in ComIds : ~ComPlaced(c)
  BY DEF LayoutInit, ComPlaced
<1>4. \A s \in Slots : ~Opened(s) /\ ~Closed(s)
  BY DEF LayoutInit, Opened, Closed, Slots, TEXT, BSS
<1> QED BY <1>1, <1>2, <1>3, <1>4 DEF LInv, Where, Below, InOrder, Fitted, Extents, LayoutInit

(* A slot is opened at an aligned address: nothing is placed by that.      *)
LEMMA OpenSlotKeeps == LInv /\ OpenSlot => LInv'
<1> SUFFICES ASSUME LInv, OpenSlot PROVE LInv'
  OBVIOUS
<1>t. LayoutTypeOK
  BY DEF LInv
<1>b. Where /\ Below /\ InOrder /\ Fitted /\ Extents
  BY DEF LInv
<1>1. Secs' = Secs /\ Coms' = Coms /\ SecIds' = SecIds /\ ComIds' = ComIds
  BY DEF OpenSlot, Secs, Coms, SecIds, ComIds
<1>2. va' \in Nat /\ va <= va' /\ va' % OutAlign(slot) = 0
  BY AlignUpFacts, OutAlignPositive, <1>t, Inputs DEF OpenSlot
<1>3. LayoutTypeOK'
  BY <1>t, <1>1, <1>2 DEF LayoutTypeOK, OpenSlot
<1>4. \A i \in SecIds : Placed(i)' <=> Placed(i)
  BY <1>1, <1>t, Inputs DEF Placed, OpenSlot, SecIds
<1>5. \A c \in ComIds : ~ComPlaced(c) /\ ~ComPlaced(c)'
  BY DEF ComPlaced, OpenSlot
<1>6. \A s \in Slots : Closed(s)' <=> Closed(s)
  BY DEF Closed, OpenSlot
<1>7. \A s \in Slots : Opened(s)' <=> (Opened(s) \/ s = slot)
  BY DEF Opened, OpenSlot
<1>8. /\ \A s \in Slots : s # slot => outVa'[s] = outVa[s]
      /\ outVa'[slot] = va'
      /\ addr' = addr /\ comaddr' = comaddr /\ outSize' = outSize /\ slot' = slot
  BY <1>t, Inputs DEF OpenSlot
<1>9. Where' /\ Below'
  BY SMTT(30), <1>b, <1>1, <1>2, <1>4, <1>5, <1>8, <1>t, Inputs DEF Where, Below, OpenSlot
<1>10. InOrder'
  BY <1>b, <1>1, <1>4, <1>5, <1>8 DEF InOrder, Before
<1>11. Fitted'
  <2>1. \A i \in SecIds : Placed(i) => Secs[i].slot \in Slots /\ Secs[i].slot # slot
    BY <1>t, PlacedSlot DEF OpenSlot
  <2> QED BY <1>b, <1>1, <1>4, <1>5, <1>6, <1>8, <2>1 DEF Fitted
<1>12. Extents'
  BY SMTT(30), <1>b, <1>1, <1>2, <1>6, <1>7, <1>8, <1>t, Inputs DEF Extents, Closed, OpenSlot
<1> QED BY <1>3, <1>9, <1>10, <1>11, <1>12 DEF LInv

(* A section is placed at the running address, above all that is placed.   *)
LEMMA PlaceSectionKeeps == LInv /\ PlaceSection => LInv'
<1> SUFFICES ASSUME LInv, PlaceSection PROVE LInv'
  OBVIOUS
<1>t. LayoutTypeOK
  BY DEF LInv
<1>b. Where /\ Below /\ InOrder /\ Fitted /\ Extents
  BY DEF LInv
<1> DEFINE a == AlignUp(va, Secs[k].align)
<1>1. Secs' = Secs /\ Coms' = Coms /\ SecIds' = SecIds /\ ComIds' = ComIds
  BY DEF PlaceSection, Secs, Coms, SecIds, ComIds
<1>2. k \in SecIds /\ Secs[k].size \in Nat /\ Secs[k].slot = slot
  BY <1>t, Inputs DEF PlaceSection, SecIds
<1>3. a \in Nat /\ va <= a /\ a % Secs[k].align = 0
  BY <1>2, AlignUpFacts, <1>t, Inputs
<1>4. /\ addr'[k] = a /\ va' = a + Secs[k].size
      /\ \A i \in SecIds : i # k => addr'[i] = addr[i]
      /\ addr' \in [SecIds -> Nat]
  BY <1>2, <1>3, <1>t, Inputs DEF PlaceSection
<1> HIDE DEF a
<1>5. LayoutTypeOK'
  <2>1. va' \in Nat
    BY <1>2, <1>3, <1>4
  <2>2. k' \in Nat \ {0}
    BY <1>t, Inputs DEF PlaceSection
  <2>3. /\ lpc' = lpc /\ slot' = slot /\ comaddr' = comaddr
        /\ outVa' = outVa /\ outSize' = outSize
    BY DEF PlaceSection
  <2>4. addr' \in [SecIds -> Nat]
    BY <1>4
  <2> QED BY <1>t, <1>1, <2>1, <2>2, <2>3, <2>4 DEF LayoutTypeOK
<1>6. \A i \in SecIds : Placed(i)' <=> (Placed(i) \/ i = k)
  BY <1>1, <1>2, <1>t, Inputs DEF Placed, PlaceSection, SecIds
<1>7. ~Placed(k)
  BY <1>2, <1>t, Inputs DEF Placed, PlaceSection
<1>8. \A c \in ComIds : ~ComPlaced(c) /\ ~ComPlaced(c)'
  BY DEF ComPlaced, PlaceSection
<1>9. \A i \in SecIds : Placed(i) => ~Before(k, i)
  BY SMTT(30), <1>2, <1>t, Inputs DEF Placed, Before, PlaceSection, SecIds
<1>10. \A s \in Slots : (Closed(s)' <=> Closed(s)) /\ (Opened(s)' <=> Opened(s))
  BY DEF Closed, Opened, PlaceSection
<1>11. outVa' = outVa /\ outSize' = outSize /\ va <= va' /\ va \in Nat /\ va' \in Nat
  <2>1. outVa' = outVa /\ outSize' = outSize
    BY DEF PlaceSection
  <2>2. va \in Nat
    BY <1>t, Inputs
  <2> QED BY <2>1, <2>2, <1>2, <1>3, <1>4
<1>12. Where' /\ Below'
  <2>1. ASSUME NEW i \in SecIds, Placed(i)' PROVE addr'[i] + Secs[i].size <= va'
    <3>1. CASE i = k
      BY <3>1, <1>2, <1>3, <1>4
    <3>2. CASE i # k
      <4>1. addr[i] + Secs[i].size <= va
        BY <2>1, <3>2, <1>b, <1>6 DEF Below
      <4>2. addr[i] \in Nat /\ Secs[i].size \in Nat
        BY <1>t, Inputs
      <4> QED BY <4>1, <4>2, <3>2, <1>4, <1>11
    <3> QED BY <3>1, <3>2
  <2> QED BY <2>1, <1>b, <1>1, <1>8 DEF Where, Below, PlaceSection
<1>13. InOrder'
  <2>1. ASSUME NEW i \in SecIds, NEW j \in SecIds, Placed(i)', Placed(j)', Before(i, j)
        PROVE  addr'[i] + Secs[i].size <= addr'[j]
    <3>1. CASE i = k
      <4>1. j # k
        BY <2>1, <3>1, <1>2, <1>t, Inputs DEF Before
      <4> QED BY <2>1, <3>1, <4>1, <1>6, <1>9
    <3>2. CASE i # k /\ j = k
      <4>1. addr[i] + Secs[i].size <= va
        BY <1>b, <2>1, <3>2, <1>6 DEF Below
      <4>2. addr[i] \in Nat /\ Secs[i].size \in Nat
        BY <1>t, Inputs
      <4> QED BY <4>1, <4>2, <3>2, <1>3, <1>4, <1>11
    <3>3. CASE i # k /\ j # k
      BY <1>b, <2>1, <3>3, <1>4, <1>6 DEF InOrder
    <3> QED BY <3>1, <3>2, <3>3
  <2>2. \A i, j \in SecIds : Before(i, j)' <=> Before(i, j)
    BY <1>1 DEF Before
  <2> QED BY <1>b, <1>1, <1>8, <2>1, <2>2 DEF InOrder
<1>14. Fitted'
  <2>1. Opened(slot) /\ ~Closed(slot) /\ slot \in Slots
    BY <1>t, Inputs DEF Opened, Closed, PlaceSection
  <2>2. outVa[slot] <= va
    BY <1>b, <2>1 DEF Extents
  <2>3. outVa[slot] <= a
    BY <2>1, <2>2, <1>3, <1>11, <1>t, Inputs
  <2>4. \A i \in SecIds : Placed(i) => Secs[i].slot \in Slots
    BY <1>t, PlacedSlot
  <2> QED BY <1>b, <1>1, <1>2, <1>3, <1>4, <1>6, <1>8, <1>10, <1>11, <2>1, <2>3, <2>4 DEF Fitted
<1>15. Extents'
  BY <1>b, <1>10, <1>11, <1>t, Inputs DEF Extents
<1> QED BY <1>5, <1>12, <1>13, <1>14, <1>15 DEF LInv

(* Sections of other slots are passed over.                                *)
LEMMA SkipSectionKeeps == LInv /\ SkipSection => LInv'
<1> SUFFICES ASSUME LInv, SkipSection PROVE LInv'
  OBVIOUS
<1>t. LayoutTypeOK
  BY DEF LInv
<1>b. Where /\ Below /\ InOrder /\ Fitted /\ Extents
  BY DEF LInv
<1>1. Secs' = Secs /\ Coms' = Coms /\ SecIds' = SecIds /\ ComIds' = ComIds
  BY DEF SkipSection, Secs, Coms, SecIds, ComIds
<1>2. /\ addr' = addr /\ comaddr' = comaddr /\ outVa' = outVa /\ outSize' = outSize
      /\ va' = va /\ slot' = slot /\ lpc' = lpc /\ lpc = "place" /\ k' = k + 1
  BY DEF SkipSection
<1>3. LayoutTypeOK'
  BY <1>t, <1>1, <1>2 DEF LayoutTypeOK
<1>4. \A i \in SecIds : Placed(i)' <=> Placed(i)
  BY SMTT(30), <1>t, <1>1, <1>2, Inputs DEF Placed, SkipSection, SecIds
<1>5. \A c \in ComIds : ~ComPlaced(c) /\ ~ComPlaced(c)'
  BY <1>2 DEF ComPlaced
<1>6. \A s \in Slots : (Closed(s)' <=> Closed(s)) /\ (Opened(s)' <=> Opened(s))
  BY <1>2 DEF Closed, Opened
<1>7. Where' /\ Below'
  BY <1>b, <1>1, <1>2, <1>4, <1>5 DEF Where, Below
<1>8. InOrder'
  BY <1>b, <1>1, <1>2, <1>4, <1>5 DEF InOrder, Before
<1>9. Fitted'
  <2>1. \A i \in SecIds : Placed(i) => Secs[i].slot \in Slots
    BY <1>t, PlacedSlot
  <2> QED BY <1>b, <1>1, <1>2, <1>4, <1>5, <1>6, <2>1 DEF Fitted
<1>10. Extents'
  BY <1>b, <1>2, <1>6 DEF Extents
<1> QED BY <1>3, <1>7, <1>8, <1>9, <1>10 DEF LInv

(* The sections of the slot are all placed.                                *)
LEMMA SectionsPlacedKeeps == LInv /\ SectionsPlaced => LInv'
<1> SUFFICES ASSUME LInv, SectionsPlaced PROVE LInv'
  OBVIOUS
<1>t. LayoutTypeOK
  BY DEF LInv
<1>b. Where /\ Below /\ InOrder /\ Fitted /\ Extents
  BY DEF LInv
<1>1. Secs' = Secs /\ Coms' = Coms /\ SecIds' = SecIds /\ ComIds' = ComIds
  BY DEF SectionsPlaced, Secs, Coms, SecIds, ComIds
<1>2. /\ addr' = addr /\ comaddr' = comaddr /\ outVa' = outVa /\ outSize' = outSize
      /\ va' = va /\ slot' = slot /\ lpc = "place" /\ k' = 1 /\ k > Len(Secs)
      /\ (lpc' = "common" /\ slot = BSS) \/ (lpc' = "close" /\ slot # BSS)
  BY DEF SectionsPlaced
<1>3. LayoutTypeOK'
  BY <1>t, <1>1, <1>2 DEF LayoutTypeOK
<1>4. \A i \in SecIds : Placed(i)' <=> Placed(i)
  <2>1. \A i \in SecIds : i < k
    BY <1>t, <1>2, Inputs DEF SecIds
  <2> QED BY <1>1, <1>2, <2>1 DEF Placed
<1>5. \A c \in ComIds : ~ComPlaced(c) /\ ~ComPlaced(c)'
  <2>1. \A c \in ComIds : ~(c < 1)
    BY <1>t, Inputs DEF ComIds
  <2> QED BY <1>2, <2>1 DEF ComPlaced
<1>6. \A s \in Slots : (Closed(s)' <=> Closed(s)) /\ (Opened(s)' <=> Opened(s))
  BY <1>2 DEF Closed, Opened
<1>7. Where' /\ Below'
  BY <1>b, <1>1, <1>2, <1>4, <1>5 DEF Where, Below
<1>8. InOrder'
  BY <1>b, <1>1, <1>2, <1>4, <1>5 DEF InOrder, Before
<1>9. Fitted'
  <2>1. \A i \in SecIds : Placed(i) => Secs[i].slot \in Slots
    BY <1>t, PlacedSlot
  <2> QED BY <1>b, <1>1, <1>2, <1>4, <1>5, <1>6, <2>1 DEF Fitted
<1>10. Extents'
  BY <1>b, <1>2, <1>6 DEF Extents
<1> QED BY <1>3, <1>7, <1>8, <1>9, <1>10 DEF LInv

(* A COMMON symbol is placed above all sections and COMMON symbols.        *)
LEMMA PlaceCommonKeeps == LInv /\ PlaceCommon => LInv'
<1> SUFFICES ASSUME LInv, PlaceCommon PROVE LInv'
  OBVIOUS
<1>t. LayoutTypeOK
  BY DEF LInv
<1>b. Where /\ Below /\ InOrder /\ Fitted /\ Extents
  BY DEF LInv
<1> DEFINE a == AlignUp(va, Coms[k].align)
<1>1. Secs' = Secs /\ Coms' = Coms /\ SecIds' = SecIds /\ ComIds' = ComIds
  BY DEF PlaceCommon, Secs, Coms, SecIds, ComIds
<1>2. k \in ComIds /\ Coms[k].size \in Nat /\ lpc = "common" /\ slot = BSS
  BY <1>t, <1>b, Inputs DEF PlaceCommon, ComIds, Where
<1>3. a \in Nat /\ va <= a /\ a % Coms[k].align = 0
  BY <1>t, <1>2, AlignUpFacts, Inputs
<1>4. /\ comaddr'[k] = a /\ va' = a + Coms[k].size
      /\ \A c \in ComIds : c # k => comaddr'[c] = comaddr[c]
      /\ comaddr' \in [ComIds -> Nat]
  BY <1>t, <1>2, <1>3, Inputs DEF PlaceCommon
<1>5. /\ addr' = addr /\ outVa' = outVa /\ outSize' = outSize
      /\ slot' = slot /\ lpc' = lpc /\ k' = k + 1
  BY DEF PlaceCommon
<1> HIDE DEF a
<1>6. va \in Nat /\ va' \in Nat /\ va <= va' /\ k \in Nat \ {0} /\ k' \in Nat \ {0}
  <2>1. va \in Nat /\ k \in Nat \ {0}
    BY <1>t, Inputs
  <2>2. k' \in Nat \ {0}
    BY <2>1, <1>5
  <2> QED BY <2>1, <2>2, <1>2, <1>3, <1>4
<1>7. LayoutTypeOK'
  BY <1>t, <1>1, <1>4, <1>5, <1>6 DEF LayoutTypeOK
<1>8. \A i \in SecIds : Placed(i)' <=> Placed(i)
  BY <1>1, <1>2, <1>5 DEF Placed
<1>9. \A c \in ComIds : (ComPlaced(c)' <=> (ComPlaced(c) \/ c = k))
                          /\ (ComPlaced(c) <=> c < k)
  BY <1>2, <1>5, <1>6 DEF ComPlaced, ComIds
<1>10. \A s \in Slots : (Closed(s)' <=> Closed(s)) /\ (Opened(s)' <=> Opened(s))
  BY <1>5 DEF Closed, Opened
<1>11. \A i \in SecIds : Placed(i) => addr[i] + Secs[i].size <= va /\ addr[i] + Secs[i].size \in Nat
  BY SMTT(30), <1>t, <1>b, Inputs DEF Below
<1>12. \A c \in ComIds : ComPlaced(c) =>
            comaddr[c] + Coms[c].size <= va /\ comaddr[c] + Coms[c].size \in Nat
  BY SMTT(30), <1>t, <1>b, Inputs DEF Below
<1>13. Where' /\ Below'
  <2>1. \A i \in SecIds : Placed(i)' => addr'[i] + Secs[i].size <= va'
    BY <1>5, <1>6, <1>8, <1>11
  <2>2. ASSUME NEW c \in ComIds, ComPlaced(c)' PROVE comaddr'[c] + Coms[c].size <= va'
    <3>1. CASE c = k
      BY <3>1, <1>2, <1>3, <1>4
    <3>2. CASE c # k
      BY <2>2, <3>2, <1>4, <1>6, <1>9, <1>12
    <3> QED BY <3>1, <3>2
  <2> QED BY <1>b, <1>1, <1>5, <2>1, <2>2 DEF Where, Below
<1>14. InOrder'
  <2>1. \A i, j \in SecIds :
            Placed(i)' /\ Placed(j)' /\ Before(i, j)' => addr'[i] + Secs[i].size <= addr'[j]
    BY <1>b, <1>1, <1>5, <1>8 DEF InOrder, Before
  <2>2. ASSUME NEW i \in SecIds, NEW c \in ComIds, Placed(i)', ComPlaced(c)'
        PROVE  addr'[i] + Secs[i].size <= comaddr'[c]
    <3>1. CASE c = k
      BY <2>2, <3>1, <1>3, <1>4, <1>5, <1>6, <1>8, <1>11
    <3>2. CASE c # k
      BY <2>2, <3>2, <1>b, <1>4, <1>5, <1>8, <1>9 DEF InOrder
    <3> QED BY <3>1, <3>2
  <2>3. ASSUME NEW c \in ComIds, NEW d \in ComIds, ComPlaced(c)', ComPlaced(d)', c < d
        PROVE  comaddr'[c] + Coms[c].size <= comaddr'[d]
    <3>0. c \in Nat /\ d \in Nat
      BY <1>t, Inputs DEF ComIds
    <3>1. CASE d = k
      <4>1. c # k /\ ComPlaced(c)
        BY <2>3, <3>0, <3>1, <1>6, <1>9
      <4>2. comaddr[c] + Coms[c].size <= va
        BY <4>1, <1>12
      <4>3. comaddr'[c] = comaddr[c]
        BY <4>1, <1>4
      <4>4. comaddr[c] + Coms[c].size \in Nat
        BY <4>1, <1>12
      <4> HIDE DEF ComIds, ComPlaced
      <4> QED BY <4>2, <4>3, <4>4, <3>1, <1>3, <1>4, <1>6
    <3>2. CASE d # k
      <4>1. d < k /\ c # k /\ ComPlaced(c) /\ ComPlaced(d)
        BY <2>3, <3>0, <3>2, <1>6, <1>9
      <4> QED BY <2>3, <4>1, <3>2, <1>b, <1>4 DEF InOrder
    <3> QED BY <3>1, <3>2
  <2> QED BY <1>1, <2>1, <2>2, <2>3 DEF InOrder
<1>15. Fitted'
  <2>1. BSS \in Slots /\ Opened(BSS) /\ ~Closed(BSS)
    BY <1>2 DEF Opened, Closed, Slots, TEXT, BSS
  <2>2. outVa[BSS] <= va /\ outVa[BSS] \in Nat
    BY <1>t, <1>b, <2>1, Inputs DEF Extents
  <2>3. outVa[BSS] <= a
    BY <2>2, <1>3, <1>6
  <2>4. \A i \in SecIds : Placed(i) => Secs[i].slot \in Slots
    BY <1>t, PlacedSlot
  <2>5. \A i \in SecIds : Placed(i)' =>
            /\ addr'[i] % Secs[i].align = 0
            /\ outVa'[Secs[i].slot] <= addr'[i]
            /\ Closed(Secs[i].slot)' =>
                addr'[i] + Secs[i].size <= outVa'[Secs[i].slot] + outSize'[Secs[i].slot]
    BY <1>b, <1>1, <1>5, <1>8, <1>10, <2>4 DEF Fitted
  <2>6. \A c \in ComIds : ComPlaced(c)' =>
            comaddr'[c] % Coms[c].align = 0 /\ outVa'[BSS] <= comaddr'[c]
    BY <1>b, <1>3, <1>4, <1>5, <1>9, <2>3 DEF Fitted
  <2>7. ~Closed(BSS)'
    BY <2>1, <1>10
  <2> QED BY <1>1, <2>5, <2>6, <2>7 DEF Fitted
<1>16. Extents'
  BY <1>t, <1>b, <1>5, <1>6, <1>10, Inputs DEF Extents
<1> QED BY <1>7, <1>13, <1>14, <1>15, <1>16 DEF LInv

(* The COMMON symbols are all placed.                                      *)
LEMMA CommonsPlacedKeeps == LInv /\ CommonsPlaced => LInv'
<1> SUFFICES ASSUME LInv, CommonsPlaced PROVE LInv'
  OBVIOUS
<1>t. LayoutTypeOK
  BY DEF LInv
<1>b. Where /\ Below /\ InOrder /\ Fitted /\ Extents
  BY DEF LInv
<1>1. Secs' = Secs /\ Coms' = Coms /\ SecIds' = SecIds /\ ComIds' = ComIds
  BY DEF CommonsPlaced, Secs, Coms, SecIds, ComIds
<1>2. /\ addr' = addr /\ comaddr' = comaddr /\ outVa' = outVa /\ outSize' = outSize
      /\ va' = va /\ slot' = slot /\ lpc = "common" /\ lpc' = "close" /\ k' = k
      /\ k > Len(Coms) /\ slot = BSS
  BY <1>b DEF CommonsPlaced, Where
<1>3. LayoutTypeOK'
  BY <1>t, <1>1, <1>2 DEF LayoutTypeOK
<1>4. \A i \in SecIds : Placed(i)' <=> Placed(i)
  BY <1>1, <1>2 DEF Placed
<1>5. \A c \in ComIds : ComPlaced(c)' <=> ComPlaced(c)
  <2>1. \A c \in ComIds : c < k
    BY <1>t, <1>2, Inputs DEF ComIds
  <2> QED BY <1>2, <2>1 DEF ComPlaced
<1>6. \A s \in Slots : (Closed(s)' <=> Closed(s)) /\ (Opened(s)' <=> Opened(s))
  BY <1>2 DEF Closed, Opened
<1>7. Where' /\ Below'
  BY <1>b, <1>1, <1>2, <1>4, <1>5 DEF Where, Below
<1>8. InOrder'
  BY <1>b, <1>1, <1>2, <1>4, <1>5 DEF InOrder, Before
<1>9. Fitted'
  <2>1. \A i \in SecIds : Placed(i) => Secs[i].slot \in Slots
    BY <1>t, PlacedSlot
  <2>2. BSS \in Slots
    BY DEF Slots, TEXT, BSS
  <2> QED BY <1>b, <1>1, <1>2, <1>4, <1>5, <1>6, <2>1, <2>2 DEF Fitted
<1>10. Extents'
  BY <1>b, <1>2, <1>6 DEF Extents
<1> QED BY <1>3, <1>7, <1>8, <1>9, <1>10 DEF LInv

(* A slot is closed at the running address, above all that is in it.       *)
LEMMA CloseSlotKeeps == LInv /\ CloseSlot => LInv'
<1> SUFFICES ASSUME LInv, CloseSlot PROVE LInv'
  OBVIOUS
<1>t. LayoutTypeOK
  BY DEF LInv
<1>b. Where /\ Below /\ InOrder /\ Fitted /\ Extents
  BY DEF LInv
<1>1. Secs' = Secs /\ Coms' = Coms /\ SecIds' = SecIds /\ ComIds' = ComIds
  BY DEF CloseSlot, Secs, Coms, SecIds, ComIds
<1>2. /\ addr' = addr /\ comaddr' = comaddr /\ outVa' = outVa
      /\ va' = va /\ k' = k /\ lpc = "close"
      /\ \/ lpc' = "laid" /\ slot' = slot /\ slot = BSS
         \/ lpc' = "open" /\ slot' = slot + 1 /\ slot # BSS
  BY DEF CloseSlot
<1>3. slot \in Slots /\ slot \in Nat /\ va \in Nat /\ Opened(slot) /\ ~Closed(slot)
  BY <1>t, <1>2, Inputs DEF Opened, Closed
<1>4. outVa[slot] <= va /\ outVa[slot] \in Nat
  BY <1>t, <1>b, <1>3, Inputs DEF Extents
<1>5. /\ outSize'[slot] = va - outVa[slot]
      /\ \A s \in Slots : s # slot => outSize'[s] = outSize[s]
      /\ outSize' \in [Slots -> Nat]
  BY <1>t, <1>3, <1>4, Inputs DEF CloseSlot
<1>6. outVa[slot] + outSize'[slot] = va
  BY <1>3, <1>4, <1>5
<1>7. slot' \in Slots /\ (slot' = slot + 1 => slot < BSS)
  BY <1>2, <1>3 DEF Slots, TEXT, BSS
<1>8. LayoutTypeOK'
  BY <1>t, <1>1, <1>2, <1>5, <1>7 DEF LayoutTypeOK
<1>9. \A i \in SecIds : Placed(i)' <=> Placed(i)
  <2>1. \A i \in SecIds : Secs[i].slot \in Nat
    BY <1>t, Inputs
  <2>2. TEXT \in Nat /\ TEXT <= slot
    BY <1>3 DEF TEXT, Slots, BSS
  <2> QED BY <1>1, <1>2, <1>3, <2>1, <2>2 DEF Placed
<1>10. \A c \in ComIds : ComPlaced(c)' <=> ComPlaced(c)
  BY <1>2 DEF ComPlaced
<1>11. \A s \in Slots : (Closed(s)' <=> (Closed(s) \/ s = slot)) /\ (Opened(s)' <=> Opened(s))
  BY <1>2, <1>3 DEF Closed, Opened, Slots, TEXT, BSS
<1>12. Where' /\ Below'
  BY <1>b, <1>1, <1>2, <1>9, <1>10 DEF Where, Below
<1>13. InOrder'
  BY <1>b, <1>1, <1>2, <1>9, <1>10 DEF InOrder, Before
<1>14. Fitted'
  <2>1. ASSUME NEW i \in SecIds, Placed(i)
        PROVE  /\ addr[i] % Secs[i].align = 0
               /\ outVa[Secs[i].slot] <= addr[i]
               /\ Closed(Secs[i].slot)' =>
                    addr[i] + Secs[i].size <= outVa[Secs[i].slot] + outSize'[Secs[i].slot]
    <3>1. Secs[i].slot \in Slots
      BY <1>t, <2>1, PlacedSlot
    <3>2. CASE Secs[i].slot = slot
      BY <2>1, <3>2, <1>b, <1>6 DEF Fitted, Below
    <3>3. CASE Secs[i].slot # slot
      BY <2>1, <3>1, <3>3, <1>b, <1>1, <1>5, <1>11 DEF Fitted
    <3> QED BY <3>2, <3>3
  <2>2. ASSUME NEW c \in ComIds, ComPlaced(c)
        PROVE  /\ comaddr[c] % Coms[c].align = 0
               /\ outVa[BSS] <= comaddr[c]
               /\ Closed(BSS)' => comaddr[c] + Coms[c].size <= outVa[BSS] + outSize'[BSS]
    <3>1. slot = BSS
      BY <2>2 DEF ComPlaced
    <3> QED BY <2>2, <3>1, <1>b, <1>6 DEF Fitted, Below
  <2> QED BY <1>1, <1>2, <1>9, <1>10, <2>1, <2>2 DEF Fitted
<1>15. Extents'
  <2>1. \A s \in Slots : Opened(s)' => outVa'[s] % OutAlign(s) = 0 /\ outVa'[s] <= va'
    BY <1>b, <1>2, <1>11 DEF Extents
  <2>2. \A s \in Slots : Closed(s)' => outVa'[s] + outSize'[s] <= va'
    BY <1>b, <1>2, <1>3, <1>5, <1>6, <1>11 DEF Extents
  <2>3. \A t \in Slots : Opened(t) => ~(slot < t)
    BY <1>3 DEF Opened, Slots, TEXT, BSS
  <2>4. \A s, t \in Slots : Closed(s)' /\ Opened(t)' /\ s < t =>
            outVa'[s] + outSize'[s] <= outVa'[t]
    BY <1>b, <1>2, <1>5, <1>11, <2>3 DEF Extents
  <2> QED BY <2>1, <2>2, <2>4 DEF Extents
<1> QED BY <1>8, <1>12, <1>13, <1>14, <1>15 DEF LInv

-----------------------------------------------------------------------------
(* The invariant holds throughout the layout of src/linker.c.              *)
THEOREM LayoutInvariant == LayoutSpec => []LInv
<1>1. LInv /\ [LayoutNext \/ LayoutDone]_layoutVars => LInv'
  <2> SUFFICES ASSUME LInv, [LayoutNext \/ LayoutDone]_layoutVars PROVE LInv'
    OBVIOUS
  <2>1. CASE LayoutNext
    BY <2>1, OpenSlotKeeps, PlaceSectionKeeps, SkipSectionKeeps, SectionsPlacedKeeps,
       PlaceCommonKeeps, CommonsPlacedKeeps, CloseSlotKeeps DEF LayoutNext
  <2>2. CASE UNCHANGED layoutVars
    BY <2>2 DEF layoutVars, LInv, LayoutTypeOK, Where, Below, InOrder, Fitted, Extents,
       Secs, Coms, SecIds, ComIds, Placed, ComPlaced, Before, Opened, Closed
  <2> QED BY <2>1, <2>2 DEF LayoutDone
<1> QED BY <1>1, LInit, PTL DEF LayoutSpec

(* Type correctness of the layout state.                                   *)
THEOREM LayoutTypeCorrect == LayoutSpec => []LayoutTypeOK
<1>1. LInv => LayoutTypeOK
  BY DEF LInv
<1> QED BY <1>1, LayoutInvariant, PTL

(* Input sections and COMMON symbols are disjoint and in linker.ld order,  *)
(* whatever their sizes and alignments.                                    *)
THEOREM LayoutOrdered == LayoutSpec => []InOrder
<1>1. LInv => InOrder
  BY DEF LInv
<1> QED BY <1>1, LayoutInvariant, PTL

\* The invariant puts everything in its slot.
LEMMA InvFits == LInv => WithinSlot
<1> SUFFICES ASSUME LInv, lpc = "laid" PROVE WithinSlot
  BY DEF WithinSlot
<1>1. LayoutTypeOK /\ Where /\ Fitted
  BY DEF LInv
<1>2. slot = BSS /\ \A s \in Slots : Closed(s)
  BY <1>1 DEF Where, Closed, Slots, TEXT, BSS
<1>3. BSS \in Slots
  BY DEF Slots, TEXT, BSS
<1>4. \A c \in ComIds : ComPlaced(c)
  BY <1>2 DEF ComPlaced
<1>5. ASSUME NEW i \in SecIds, Secs[i].slot # DISCARD
      PROVE  Placed(i) /\ Secs[i].slot \in Slots
  <2>1. Secs[i].slot \in Slots
    BY <1>1, <1>5, Inputs
  <2> QED BY <2>1, <1>2 DEF Placed, Slots, TEXT, BSS
<1> QED BY <1>1, <1>2, <1>3, <1>4, <1>5 DEF WithinSlot, Fitted

(* Everything is aligned as it asks and inside the extent from which its   *)
(* program header is made.                                                 *)
THEOREM LayoutFits == LayoutSpec => []WithinSlot
BY LayoutInvariant, InvFits, PTL

\* The invariant keeps the permissions apart.
LEMMA InvPages == LInv => PermissionPages
<1> SUFFICES ASSUME LInv, lpc = "laid",
                    NEW s \in Slots, NEW t \in Slots,
                    s < t, ~SamePermissions(s, t), outSize[s] > 0
             PROVE  (outVa[s] + outSize[s] - 1) \div Page < outVa[t] \div Page
  BY DEF PermissionPages
<1>1. LayoutTypeOK /\ Where /\ Extents /\ Page \in Nat \ {0}
  BY PageAssumption DEF LInv
<1>2. slot = BSS
  BY <1>1 DEF Where
<1>3. \A u \in Slots : Closed(u) /\ Opened(u) /\ outVa[u] \in Nat /\ outSize[u] \in Nat
  <2>1. \A u \in Slots : u < BSS \/ u = BSS
    BY DEF Slots, TEXT, BSS
  <2>2. \A u \in Slots : Closed(u) /\ Opened(u)
    BY <1>2, <2>1 DEF Closed, Opened
  <2> QED BY <1>1, <2>2, Inputs
<1> DEFINE last == outVa[s] + outSize[s] - 1
<1>4. last \in Nat
  BY <1>3
<1>5. CASE t # INIT_ARRAY
  <2>1. outVa[t] % Page = 0 /\ last < outVa[t]
    BY <1>1, <1>3, <1>5 DEF Extents, OutAlign
  <2> QED BY <1>1, <1>3, <1>4, <2>1, PageBelow
<1>6. CASE t = INIT_ARRAY
  <2>1. DATA \in Slots /\ s < DATA /\ DATA < t /\ DATA # INIT_ARRAY
    BY <1>6 DEF SamePermissions, Writable, Slots, TEXT, RODATA, DATA, INIT_ARRAY, BSS
  <2>2. outVa[DATA] % Page = 0 /\ last < outVa[DATA] /\ outVa[DATA] <= outVa[t]
    <3>1. outVa[DATA] % Page = 0
      BY <1>1, <1>3, <2>1 DEF Extents, OutAlign
    <3>2. outVa[s] + outSize[s] <= outVa[DATA] /\ outVa[DATA] + outSize[DATA] <= outVa[t]
      BY <1>1, <1>3, <2>1 DEF Extents
    <3> QED BY <3>1, <3>2, <1>3, <2>1
  <2>3. last \div Page < outVa[DATA] \div Page
    BY <1>1, <1>3, <1>4, <2>1, <2>2, PageBelow
  <2>4. outVa[DATA] \div Page <= outVa[t] \div Page
    BY <1>1, <1>3, <2>1, <2>2, PageOrder
  <2>5. /\ last \div Page \in Nat /\ outVa[DATA] \div Page \in Nat
        /\ outVa[t] \div Page \in Nat
    BY <1>1, <1>3, <1>4, <2>1, DivBounds
  <2> QED BY <2>3, <2>4, <2>5
<1> QED BY <1>5, <1>6

(* Slots of different permissions share no page, whatever the page size.   *)
THEOREM LayoutPermissions == LayoutSpec => []PermissionPages
BY LayoutInvariant, InvPages, PTL

-----------------------------------------------------------------------------
(* The layout, as the first part of the link                               *)

LEMMA LayoutStutter == LInv /\ UNCHANGED layoutVars => LInv'
BY DEF layoutVars, LInv, LayoutTypeOK, Where, Below, InOrder, Fitted, Extents,
       Secs, Coms, SecIds, ComIds, Placed, ComPlaced, Before, Opened, Closed

LEMMA LayoutStep == LInv /\ LayoutNext => LInv'
BY OpenSlotKeeps, PlaceSectionKeeps, SkipSectionKeeps, SectionsPlacedKeeps,
   PlaceCommonKeeps, CommonsPlacedKeeps, CloseSlotKeeps DEF LayoutNext

LEMMA StaticLeaves == StaticStep => UNCHANGED layoutVars
BY DEF StaticStep, Relocate, RelocateFails, Relocated, FindEntry, EntryMissing, EmitSlot,
   EmitSection, EmitNothing, SlotEmitted, WriteFile

LEMMA DynLeaves == DynStep => UNCHANGED layoutVars
BY DEF DynStep, ScanPc32, ScanPlt32, ScanGot, ScanR64, SkipDiscarded, ScanFails, Scanned,
   Export, Listed, DoubleBuckets, Synthesize, FillExports, ApplyFixups, DynFindEntry,
   DynEntryMissing, PushHash, StartEmit, EmitAt, DynWriteFile

\* Nothing is laid out below the start address.
AboveStart == Start <= va /\ \A s \in Slots : Opened(s) => Start <= outVa[s]

LEMMA AboveStartStep ==
    ASSUME LInv, AboveStart, LayoutNext
    PROVE  AboveStart'
<1>1. LayoutTypeOK /\ Start \in Nat
  BY PageAssumption DEF LInv
<1>2. CASE OpenSlot
  <2>1. va' \in Nat /\ va <= va' /\ outVa' = [outVa EXCEPT ![slot] = va'] /\ slot' = slot
    BY <1>1, <1>2, Inputs, AlignUpFacts, OutAlignPositive DEF OpenSlot
  <2>2. \A s \in Slots : Opened(s)' => Opened(s) \/ s = slot
    BY <1>2 DEF Opened, OpenSlot
  <2> QED BY <1>1, <2>1, <2>2, Inputs DEF AboveStart
<1>3. CASE PlaceSection \/ PlaceCommon
  <2>1. va' \in Nat /\ va <= va'
    <3>1. CASE PlaceSection
      <4>1. k \in SecIds
        BY <1>1, <3>1, Inputs DEF PlaceSection, SecIds
      <4>2. AlignUp(va, Secs[k].align) \in Nat /\ va <= AlignUp(va, Secs[k].align)
        BY <1>1, <4>1, Inputs, AlignUpFacts
      <4>3. va' = AlignUp(va, Secs[k].align) + Secs[k].size
        BY <3>1 DEF PlaceSection
      <4>4. Secs[k].size \in Nat /\ va \in Nat
        BY <1>1, <4>1, Inputs
      <4> QED BY <4>2, <4>3, <4>4
    <3>2. CASE PlaceCommon
      <4>1. k \in ComIds
        BY <1>1, <3>2, Inputs DEF PlaceCommon, ComIds
      <4>2. AlignUp(va, Coms[k].align) \in Nat /\ va <= AlignUp(va, Coms[k].align)
        BY <1>1, <4>1, Inputs, AlignUpFacts
      <4>3. va' = AlignUp(va, Coms[k].align) + Coms[k].size
        BY <3>2 DEF PlaceCommon
      <4>4. Coms[k].size \in Nat /\ va \in Nat
        BY <1>1, <4>1, Inputs
      <4> QED BY <4>2, <4>3, <4>4
    <3> QED BY <1>3, <3>1, <3>2
  <2>2. outVa' = outVa /\ \A s \in Slots : Opened(s)' <=> Opened(s)
    BY <1>3 DEF PlaceSection, PlaceCommon, Opened
  <2> QED BY <1>1, <2>1, <2>2, Inputs DEF AboveStart
<1>4. CASE SkipSection \/ SectionsPlaced \/ CommonsPlaced
  <2>1. outVa' = outVa /\ va' = va /\ \A s \in Slots : Opened(s)' <=> Opened(s)
    BY <1>4 DEF SkipSection, SectionsPlaced, CommonsPlaced, Opened
  <2> QED BY <2>1 DEF AboveStart
<1>5. CASE CloseSlot
  <2>1. /\ outVa' = outVa /\ va' = va /\ slot \in Nat
        /\ \/ slot' = slot /\ lpc' = "laid"
           \/ slot' = slot + 1 /\ lpc' = "open"
        /\ lpc = "close"
    BY <1>1, <1>5, Inputs DEF CloseSlot
  <2>2. \A s \in Slots : Opened(s)' => Opened(s)
    BY <2>1 DEF Opened, Slots, TEXT, BSS
  <2> QED BY <2>1, <2>2 DEF AboveStart
<1> QED BY <1>2, <1>3, <1>4, <1>5 DEF LayoutNext

-----------------------------------------------------------------------------
(* The inductive invariant of the static path                              *)

StaticPhases == {"reloc", "entry", "emit"}
DynPhases == {"scan", "synth", "fill", "fix", "dynentry", "hash", "dynemit"}

\* Each kind of link keeps to its phases, and begins when the layout is there.
Phase ==
    /\ link \in Links
    /\ pc \in {"layout", "done", "failed"} \cup StaticPhases \cup DynPhases
    /\ pc \in StaticPhases => link.mode = "static"
    /\ pc \in DynPhases => link.mode # "static"
    /\ pc # "layout" => lpc = "laid"

LinkTypeOK ==
    link.mode = "static" =>
        /\ r \in Nat \ {0} /\ DOMAIN patch = 1 .. Len(Rels)
        /\ len \in Nat
        /\ es \in Slots /\ ek \in Nat
        /\ DOMAIN fileoff = SecIds

\* The relocations gone through have their values.
Applied(n) ==
    \A i \in 1 .. Len(Rels) : i < n =>
        /\ Rels[i].sym.kind # "undef" /\ Rels[i].type \in StaticTypes
        /\ patch[i] = Field(Rels[i])
Patched ==
    /\ pc = "reloc" => Applied(r)
    /\ pc \in {"entry", "emit"} \/ (pc = "done" /\ link.mode = "static") => Applied(Len(Rels) + 1)

\* The sections with contents that the emission has gone past lie at their
\* file offsets, and the file does not reach those of the others.
InFile(i) == HasData(i) /\ Secs[i].slot \in Slots
Gone(i) == Secs[i].slot < es \/ (Secs[i].slot = es /\ i < ek)
Appending ==
    /\ pc = "layout" => r = 1
    /\ pc \in {"layout", "reloc", "entry"} => es = TEXT /\ ek = 0
    /\ pc = "emit" =>
        /\ es = BSS => ek = 0
        /\ \A i \in SecIds : InFile(i) /\ Gone(i) => fileoff[i] = FileOffset(addr[i])
        /\ \A i \in SecIds : InFile(i) /\ ~Gone(i) => len <= FileOffset(addr[i])
Appended ==
    pc = "done" /\ link.mode = "static" =>
        \A i \in SecIds : InFile(i) => fileoff[i] = FileOffset(addr[i])

StaticInv ==
    LInv /\ AboveStart /\ Phase /\ LinkTypeOK /\ Patched /\ Appending /\ Appended

-----------------------------------------------------------------------------
(* The finished layout                                                     *)

LEMMA SlotNumbers == Slots = 1 .. 5 /\ BSS = 5 /\ TEXT = 1 /\ DISCARD = 0 /\ BSS \in Slots
BY DEF Slots, TEXT, BSS, DISCARD

\* Sections with contents lie in their slots, which are not empty, above the
\* start address, and one behind the other.
LEMMA Laid ==
    ASSUME LInv, AboveStart, lpc = "laid"
    PROVE  /\ \A i \in SecIds : InFile(i) =>
                /\ Secs[i].slot \in 1 .. 4 /\ addr[i] \in Nat /\ Secs[i].size \in Nat \ {0}
                /\ Start <= outVa[Secs[i].slot]
                /\ outVa[Secs[i].slot] <= addr[i]
                /\ addr[i] + Secs[i].size <= outVa[Secs[i].slot] + outSize[Secs[i].slot]
                /\ outSize[Secs[i].slot] > 0
           /\ \A i, j \in SecIds : InFile(i) /\ InFile(j) /\ Before(i, j) =>
                addr[i] + Secs[i].size <= addr[j]
           /\ \A s, t \in Slots : s < t => outVa[s] + outSize[s] <= outVa[t]
           /\ \A s \in Slots : outVa[s] \in Nat /\ outSize[s] \in Nat /\ Start <= outVa[s]
<1>1. LayoutTypeOK /\ Where /\ InOrder /\ Fitted /\ Extents
  BY DEF LInv
<1>2. slot = BSS /\ \A s \in Slots : Closed(s) /\ Opened(s)
  BY <1>1, SlotNumbers DEF Where, Closed, Opened
<1>3. \A s \in Slots : outVa[s] \in Nat /\ outSize[s] \in Nat /\ Start <= outVa[s]
  BY <1>1, <1>2, Inputs DEF AboveStart
<1>4. ASSUME NEW i \in SecIds, InFile(i)
      PROVE  /\ Placed(i) /\ Secs[i].slot \in 1 .. 4 /\ Secs[i].slot \in Slots
             /\ addr[i] \in Nat /\ Secs[i].size \in Nat \ {0}
  <2>1. addr[i] \in Nat /\ Secs[i].size \in Nat
    BY <1>1, Inputs
  <2>2. Secs[i].slot \in Slots /\ Secs[i].slot # BSS /\ Secs[i].size > 0
    BY <1>4 DEF InFile, HasData
  <2>3. Secs[i].slot \in 1 .. 4
    BY <2>2, SlotNumbers
  <2>4. TEXT .. slot - 1 = 1 .. 4
    BY <1>2, SlotNumbers
  <2> QED BY <2>1, <2>2, <2>3, <2>4 DEF Placed
<1>5. ASSUME NEW i \in SecIds, InFile(i)
      PROVE  /\ outVa[Secs[i].slot] <= addr[i]
             /\ addr[i] + Secs[i].size <= outVa[Secs[i].slot] + outSize[Secs[i].slot]
  BY <1>1, <1>2, <1>4, <1>5 DEF Fitted
<1>6. ASSUME NEW i \in SecIds, InFile(i)
      PROVE  outSize[Secs[i].slot] > 0
  <2>1. /\ outVa[Secs[i].slot] \in Nat /\ outSize[Secs[i].slot] \in Nat
        /\ addr[i] \in Nat /\ Secs[i].size \in Nat \ {0}
    BY <1>3, <1>4, <1>6
  <2> QED BY <1>5, <1>6, <2>1
<1>7. \A i, j \in SecIds : InFile(i) /\ InFile(j) /\ Before(i, j) =>
         addr[i] + Secs[i].size <= addr[j]
  BY <1>1, <1>4 DEF InOrder
<1>8. \A s, t \in Slots : s < t => outVa[s] + outSize[s] <= outVa[t]
  BY <1>1, <1>2 DEF Extents
<1> QED BY <1>3, <1>4, <1>5, <1>6, <1>7, <1>8

\* The program headers are at most six, and end on the first page.
HeadersEnd == Ehdr + Phdr * (NLoad + 1)
LEMMA HeadersFit == HeadersEnd \in Nat /\ HeadersEnd <= Page
<1>1. NLoad \in 0 .. 5
  <2>1. IsFiniteSet(Slots) /\ Cardinality(Slots) = 5
    <3>1. 1 \in Int /\ 5 \in Int /\ (IF 1 > 5 THEN 0 ELSE 5 - 1 + 1) = 5
      OBVIOUS
    <3>2. IsFiniteSet(1 .. 5) /\ Cardinality(1 .. 5) = IF 1 > 5 THEN 0 ELSE 5 - 1 + 1
      BY <3>1, FS_Interval, Zenon
    <3> QED BY <3>1, <3>2, SlotNumbers
  <2>2. {s \in Slots : outSize[s] > 0} \subseteq Slots
    OBVIOUS
  <2>3. /\ IsFiniteSet({s \in Slots : outSize[s] > 0})
        /\ Cardinality({s \in Slots : outSize[s] > 0}) <= 5
    BY <2>1, <2>2, FS_Subset
  <2>4. Cardinality({s \in Slots : outSize[s] > 0}) \in Nat
    BY <2>3, FS_CardinalityType
  <2> QED BY <2>3, <2>4 DEF NLoad
<1>2. Ehdr \in Nat /\ Phdr \in Nat /\ Ehdr + 6 * Phdr <= Page /\ Page \in Nat
  BY HeaderAssumption, PageAssumption
<1>3. \A n \in 0 .. 5 : Ehdr + Phdr * (n + 1) \in Nat /\ Ehdr + Phdr * (n + 1) <= Page
  <2> TAKE n \in 0 .. 5
  <2>1. n = 0 \/ n = 1 \/ n = 2 \/ n = 3 \/ n = 4 \/ n = 5
    OBVIOUS
  <2> QED BY <1>2, <2>1
<1> QED BY <1>1, <1>3 DEF HeadersEnd

LEMMA OffsetType ==
    ASSUME NEW v \in Nat, Start <= v
    PROVE  FileOffset(v) = Page + (v - Start) /\ FileOffset(v) \in Nat /\ Page <= FileOffset(v)
BY PageAssumption DEF FileOffset

-----------------------------------------------------------------------------
(* The steps of the static path                                            *)

LEMMA LayoutFixed ==
    ASSUME UNCHANGED layoutVars
    PROVE  /\ Secs' = Secs /\ SecIds' = SecIds /\ Rels' = Rels /\ link' = link /\ lpc' = lpc
           /\ addr' = addr /\ outVa' = outVa /\ outSize' = outSize
           /\ \A i : InFile(i)' <=> InFile(i)
           /\ \A rel : Field(rel)' = Field(rel)
           /\ HeadersEnd' = HeadersEnd
<1>1. /\ Secs' = Secs /\ SecIds' = SecIds /\ Rels' = Rels /\ link' = link /\ lpc' = lpc
      /\ addr' = addr /\ outVa' = outVa /\ outSize' = outSize /\ comaddr' = comaddr
  BY DEF layoutVars, Secs, SecIds, Rels
<1>2. \A i : InFile(i)' <=> InFile(i)
  BY <1>1 DEF InFile, HasData
<1>3. \A y : SymAddr(y)' = SymAddr(y)
  BY <1>1 DEF SymAddr, InitStart, InitEnd
<1>4. \A rel : Field(rel)' = Field(rel)
  BY <1>1, <1>3 DEF Field
<1>5. HeadersEnd' = HeadersEnd
  BY <1>1 DEF HeadersEnd, NLoad
<1> QED BY <1>1, <1>2, <1>4, <1>5

\* What a step after the layout does not have to show again.
LEMMA AfterLayout ==
    ASSUME StaticInv, UNCHANGED layoutVars
    PROVE  LInv' /\ AboveStart' /\ link' \in Links
BY LayoutStutter, LayoutFixed DEF StaticInv, Phase, AboveStart, Opened, layoutVars

LEMMA RelocateInv ==
    ASSUME StaticInv, Relocate \/ RelocateFails \/ Relocated \/ EntryMissing
    PROVE  StaticInv'
<1>1. /\ UNCHANGED layoutVars /\ UNCHANGED <<es, ek, fileoff, len>>
      /\ pc \in {"reloc", "entry"} /\ pc' \in {"reloc", "entry", "failed"}
      /\ lpc = "laid" /\ link.mode = "static"
  BY DEF Relocate, RelocateFails, Relocated, EntryMissing, StaticInv, Phase, StaticPhases
<1>2. LInv' /\ AboveStart' /\ Phase'
  BY <1>1, AfterLayout, LayoutFixed DEF Phase, StaticPhases, DynPhases
<1>3. r \in Nat \ {0} /\ Len(Rels) \in Nat /\ DOMAIN patch = 1 .. Len(Rels)
  BY <1>1, RelsAssumption DEF StaticInv, Phase, LinkTypeOK, Rels
<1>4. LinkTypeOK'
  <2>1. r' \in Nat \ {0} /\ DOMAIN patch' = DOMAIN patch
    BY <1>3 DEF Relocate, RelocateFails, Relocated, EntryMissing
  <2> QED BY <1>1, <2>1, LayoutFixed DEF StaticInv, LinkTypeOK
<1>5. Patched'
  <2>1. CASE Relocate
    <3>1. /\ pc' = "reloc" /\ Applied(r) /\ r' = r + 1
          /\ Rels[r].sym.kind # "undef" /\ Rels[r].type \in StaticTypes
          /\ patch' = [patch EXCEPT ![r] = Field(Rels[r])]
      BY <2>1 DEF Relocate, StaticInv, Patched
    <3>2. \A i \in 1 .. Len(Rels) : i < r + 1 => i < r \/ i = r
      BY <1>3
    <3>3. Applied(r)'
      BY <1>1, <1>3, <3>1, <3>2, LayoutFixed DEF Applied
    <3> QED BY <3>1, <3>3 DEF Patched
  <2>2. CASE RelocateFails \/ EntryMissing
    BY <2>2 DEF RelocateFails, EntryMissing, Patched
  <2>3. CASE Relocated
    <3>1. pc' = "entry" /\ Applied(r) /\ r > Len(Rels) /\ patch' = patch
      BY <2>3 DEF Relocated, StaticInv, Patched
    <3>2. \A i \in 1 .. Len(Rels) : i < r
      BY <1>3, <3>1
    <3>3. Applied(Len(Rels) + 1)'
      BY <1>1, <3>1, <3>2, LayoutFixed DEF Applied
    <3> QED BY <3>1, <3>3 DEF Patched
  <2> QED BY <2>1, <2>2, <2>3
<1>6. Appending' /\ Appended'
  BY <1>1 DEF StaticInv, Appending, Appended
<1> QED BY <1>2, <1>4, <1>5, <1>6 DEF StaticInv

\* The relocated fields stay while the file is written.
LEMMA PatchedStays ==
    ASSUME StaticInv, UNCHANGED layoutVars, patch' = patch, pc \in {"entry", "emit"},
           pc' \in {"emit", "done"}
    PROVE  Patched'
<1>1. Applied(Len(Rels) + 1)
  BY DEF StaticInv, Patched
<1>2. Applied(Len(Rels) + 1)'
  BY <1>1, LayoutFixed DEF Applied
<1> QED BY <1>2 DEF Patched

LEMMA FindEntryInv ==
    ASSUME StaticInv, FindEntry
    PROVE  StaticInv'
<1>1. /\ UNCHANGED layoutVars /\ UNCHANGED <<r, patch, es, ek, fileoff>>
      /\ pc = "entry" /\ pc' = "emit" /\ lpc = "laid" /\ link.mode = "static"
      /\ len' = HeadersEnd /\ es = 1 /\ ek = 0
  BY SlotNumbers DEF FindEntry, StaticInv, Phase, StaticPhases, HeadersEnd, Appending
<1>2. LInv' /\ AboveStart' /\ Phase'
  BY <1>1, AfterLayout, LayoutFixed DEF Phase, StaticPhases, DynPhases
<1>3. LinkTypeOK'
  BY <1>1, LayoutFixed, HeadersFit DEF StaticInv, LinkTypeOK
<1>4. Patched'
  BY <1>1, PatchedStays
<1>5. \A i \in SecIds : InFile(i) => ~Gone(i)' /\ len' <= FileOffset(addr[i])
  <2> TAKE i \in SecIds
  <2> SUFFICES ASSUME InFile(i) PROVE ~Gone(i)' /\ len' <= FileOffset(addr[i])
    OBVIOUS
  <2>1. /\ Secs[i].slot \in 1 .. 4 /\ addr[i] \in Nat /\ Start <= outVa[Secs[i].slot]
        /\ outVa[Secs[i].slot] <= addr[i] /\ outVa[Secs[i].slot] \in Nat
    BY <1>1, Laid, SlotNumbers DEF StaticInv
  <2>2. Start <= addr[i]
    BY <2>1, PageAssumption
  <2>3. len' <= FileOffset(addr[i])
    BY <1>1, <2>1, <2>2, OffsetType, HeadersFit, PageAssumption
  <2>4. i \in Nat \ {0}
    BY DEF SecIds
  <2>5. ~Gone(i)'
    BY <1>1, <2>1, <2>4, LayoutFixed DEF Gone
  <2> QED BY <2>3, <2>5
<1>6. Appending' /\ Appended'
  BY <1>1, <1>5, LayoutFixed, SlotNumbers DEF Appending, Appended
<1> QED BY <1>2, <1>3, <1>4, <1>6 DEF StaticInv

-----------------------------------------------------------------------------
(* Writing the file                                                        *)

\* What a step of the emission has to show.
LEMMA EmitFileStep ==
    ASSUME StaticInv, UNCHANGED layoutVars, UNCHANGED <<r, patch>>, pc = "emit", pc' = "emit",
           len' \in Nat, es' \in Slots, ek' \in Nat, DOMAIN fileoff' = SecIds,
           es' = BSS => ek' = 0,
           \A i \in SecIds : InFile(i) /\ Gone(i)' => fileoff'[i] = FileOffset(addr[i]),
           \A i \in SecIds : InFile(i) /\ ~Gone(i)' => len' <= FileOffset(addr[i])
    PROVE  StaticInv'
<1>1. lpc = "laid" /\ link.mode = "static"
  BY DEF StaticInv, Phase, StaticPhases
<1>2. LInv' /\ AboveStart' /\ Phase'
  BY <1>1, AfterLayout, LayoutFixed DEF Phase, StaticPhases, DynPhases
<1>3. LinkTypeOK'
  BY <1>1, LayoutFixed DEF StaticInv, LinkTypeOK
<1>4. Patched'
  BY PatchedStays
<1>5. Appending' /\ Appended'
  BY LayoutFixed DEF Appending, Appended
<1> QED BY <1>2, <1>3, <1>4, <1>5 DEF StaticInv

\* Where the emission stands.
LEMMA Emitting ==
    ASSUME StaticInv, pc = "emit"
    PROVE  /\ lpc = "laid" /\ LInv /\ AboveStart /\ len \in Nat /\ es \in 1 .. 5 /\ ek \in Nat
           /\ DOMAIN fileoff = SecIds /\ Len(Secs) \in Nat /\ SecIds = 1 .. Len(Secs)
           /\ es = 5 => ek = 0
           /\ \A i \in SecIds : InFile(i) /\ Gone(i) => fileoff[i] = FileOffset(addr[i])
           /\ \A i \in SecIds : InFile(i) /\ ~Gone(i) => len <= FileOffset(addr[i])
           /\ \A i \in SecIds : InFile(i) =>
                /\ Secs[i].slot \in 1 .. 4 /\ addr[i] \in Nat /\ Secs[i].size \in Nat \ {0}
                /\ Start <= addr[i] /\ outSize[Secs[i].slot] > 0
                /\ FileOffset(addr[i]) = Page + (addr[i] - Start) /\ FileOffset(addr[i]) \in Nat
<1>1. /\ lpc = "laid" /\ LInv /\ AboveStart /\ link.mode = "static" /\ LayoutTypeOK
      /\ LinkTypeOK /\ Appending
  BY DEF StaticInv, Phase, StaticPhases, LInv
<1>2. ASSUME NEW i \in SecIds, InFile(i)
      PROVE  /\ Secs[i].slot \in 1 .. 4 /\ addr[i] \in Nat /\ Secs[i].size \in Nat \ {0}
             /\ Start <= addr[i] /\ outSize[Secs[i].slot] > 0
  <2>1. /\ Secs[i].slot \in 1 .. 4 /\ addr[i] \in Nat /\ Secs[i].size \in Nat \ {0}
        /\ Start <= outVa[Secs[i].slot] /\ outVa[Secs[i].slot] <= addr[i]
        /\ outSize[Secs[i].slot] > 0 /\ outVa[Secs[i].slot] \in Nat
    BY <1>1, <1>2, Laid, SlotNumbers
  <2> QED BY <2>1, PageAssumption
<1>3. Len(Secs) \in Nat /\ SecIds = 1 .. Len(Secs)
  BY <1>1, Inputs DEF SecIds
<1> QED BY <1>1, <1>2, <1>3, OffsetType, SlotNumbers DEF LinkTypeOK, Appending

LEMMA EmitSlotInv ==
    ASSUME StaticInv, EmitSlot
    PROVE  StaticInv'
<1>1. /\ UNCHANGED layoutVars /\ UNCHANGED <<r, patch, fileoff>>
      /\ pc = "emit" /\ pc' = "emit" /\ es < 5 /\ ek = 0
  BY SlotNumbers DEF EmitSlot
<1>0. LInv /\ AboveStart /\ lpc = "laid"
  BY <1>1, Emitting
<1>2. /\ es \in Slots /\ es \in 1 .. 4 /\ outVa[es] \in Nat /\ outSize[es] \in Nat
      /\ Start <= outVa[es]
  <2>1. es \in 1 .. 4
    BY <1>1, Emitting
  <2> QED BY <1>0, <2>1, Laid, SlotNumbers
<1>3. CASE outSize[es] > 0
  <2>1. ek' = 1 /\ es' = es /\ len' = Longer(len, FileOffset(outVa[es]))
    BY <1>3 DEF EmitSlot
  <2>2. Start <= outVa[es]
    BY <1>2
  <2>3. FileOffset(outVa[es]) \in Nat /\ FileOffset(outVa[es]) = Page + (outVa[es] - Start)
    BY <1>2, <2>2, OffsetType
  <2>4. len' \in Nat /\ (len' = len \/ len' = FileOffset(outVa[es]))
    BY <1>1, <2>1, <2>3, Emitting DEF Longer
  <2>5. \A i \in SecIds : Gone(i)' <=> Gone(i)
    BY <1>1, <2>1, Emitting, LayoutFixed DEF Gone
  <2>6. \A i \in SecIds : InFile(i) /\ ~Gone(i)' => len' <= FileOffset(addr[i])
    <3> SUFFICES ASSUME NEW i \in SecIds, InFile(i), ~Gone(i)
                 PROVE  len' <= FileOffset(addr[i])
      BY <2>5
    <3>1. /\ Secs[i].slot \in 1 .. 4 /\ addr[i] \in Nat /\ len <= FileOffset(addr[i])
          /\ FileOffset(addr[i]) = Page + (addr[i] - Start)
      BY <1>1, Emitting
    <3>2. es <= Secs[i].slot
      BY <1>2, <3>1 DEF Gone
    <3>3. outVa[es] <= addr[i]
      <4>1. outVa[Secs[i].slot] <= addr[i] /\ outVa[Secs[i].slot] \in Nat
        BY <1>0, <3>1, Laid, SlotNumbers
      <4>2. es < Secs[i].slot => outVa[es] + outSize[es] <= outVa[Secs[i].slot]
        BY <1>0, <1>2, <3>1, Laid, SlotNumbers
      <4> QED BY <1>2, <3>1, <3>2, <4>1, <4>2
    <3> QED BY <1>2, <2>3, <2>4, <3>1, <3>3, PageAssumption
  <2> QED BY <1>1, <1>2, <2>1, <2>4, <2>5, <2>6, Emitting, EmitFileStep, SlotNumbers
<1>4. CASE ~(outSize[es] > 0)
  <2>1. ek' = 0 /\ es' = es + 1 /\ len' = len
    BY <1>4 DEF EmitSlot
  <2>2. \A i \in SecIds : InFile(i) => (Gone(i)' <=> Gone(i))
    BY SMTT(30), <1>1, <1>2, <1>4, <2>1, Emitting, LayoutFixed DEF Gone
  <2> QED BY <1>1, <1>2, <2>1, <2>2, Emitting, EmitFileStep, SlotNumbers
<1> QED BY <1>3, <1>4

LEMMA EmitSectionInv ==
    ASSUME StaticInv, EmitSection
    PROVE  StaticInv'
<1>1. /\ UNCHANGED layoutVars /\ UNCHANGED <<r, patch>>
      /\ pc = "emit" /\ pc' = "emit" /\ ek \in SecIds /\ ek' = ek + 1 /\ es' = es
      /\ fileoff' = [fileoff EXCEPT ![ek] = Longer(len, FileOffset(addr[ek]))]
      /\ len' = fileoff'[ek] + Secs[ek].size
      /\ Secs[ek].slot = es /\ HasData(ek)
  BY DEF EmitSection, Emitted
<1>2. LInv /\ AboveStart /\ lpc = "laid" /\ es \in 1 .. 5 /\ len \in Nat
  BY <1>1, Emitting
<1>3. InFile(ek) /\ ~Gone(ek)
  BY <1>1, <1>2, Emitting, SlotNumbers DEF InFile, Gone
<1>4. /\ es \in 1 .. 4 /\ addr[ek] \in Nat /\ Secs[ek].size \in Nat
      /\ FileOffset(addr[ek]) = Page + (addr[ek] - Start) /\ FileOffset(addr[ek]) \in Nat
      /\ len <= FileOffset(addr[ek]) /\ DOMAIN fileoff = SecIds
  BY <1>1, <1>3, Emitting
<1>5. /\ fileoff'[ek] = FileOffset(addr[ek]) /\ DOMAIN fileoff' = SecIds
      /\ \A i \in SecIds : i # ek => fileoff'[i] = fileoff[i]
      /\ len' = FileOffset(addr[ek]) + Secs[ek].size
  BY <1>1, <1>2, <1>4 DEF Longer
<1>6. \A i \in SecIds : i \in Nat
  BY DEF SecIds
<1>7. \A i \in SecIds : Gone(i)' <=> (Gone(i) \/ i = ek)
  BY <1>1, <1>6, LayoutFixed DEF Gone
<1>8. \A i \in SecIds : InFile(i) /\ Gone(i)' => fileoff'[i] = FileOffset(addr[i])
  BY <1>1, <1>5, <1>7, Emitting
<1>9. \A i \in SecIds : InFile(i) /\ ~Gone(i)' => len' <= FileOffset(addr[i])
  <2> SUFFICES ASSUME NEW i \in SecIds, InFile(i), ~Gone(i)'
               PROVE  len' <= FileOffset(addr[i])
    OBVIOUS
  <2>1. ~Gone(i) /\ i # ek
    BY <1>7
  <2>2. /\ Secs[i].slot \in 1 .. 4 /\ addr[i] \in Nat
        /\ FileOffset(addr[i]) = Page + (addr[i] - Start)
    BY <1>1, Emitting
  <2>3. Before(ek, i)
    BY <1>1, <1>4, <1>6, <2>1, <2>2 DEF Gone, Before
  <2>4. addr[ek] + Secs[ek].size <= addr[i]
    BY <1>1, <1>2, <1>3, <2>3, Laid
  <2> QED BY <1>4, <1>5, <2>2, <2>4, PageAssumption
<1>10. len' \in Nat /\ ek' \in Nat /\ es' \in Slots /\ es' # BSS
  BY <1>1, <1>4, <1>5, <1>6, SlotNumbers
<1> QED BY <1>1, <1>5, <1>8, <1>9, <1>10, EmitFileStep

LEMMA EmitNothingInv ==
    ASSUME StaticInv, EmitNothing \/ SlotEmitted
    PROVE  StaticInv'
<1>1. /\ UNCHANGED layoutVars /\ UNCHANGED <<r, patch, len, fileoff>>
      /\ pc = "emit" /\ pc' = "emit"
  BY DEF EmitNothing, SlotEmitted
<1>2. /\ es \in 1 .. 5 /\ ek \in Nat /\ SecIds = 1 .. Len(Secs) /\ Len(Secs) \in Nat
      /\ es = 5 => ek = 0
  BY <1>1, Emitting
<1>3. /\ es \in 1 .. 4 /\ es' \in 1 .. 5 /\ ek' \in Nat /\ (es' = 5 => ek' = 0)
      /\ \A i \in SecIds : InFile(i) => (Gone(i)' <=> Gone(i))
  <2>1. CASE EmitNothing
    <3>1. ek \in SecIds /\ ek' = ek + 1 /\ es' = es /\ ~(Secs[ek].slot = es /\ HasData(ek))
      BY <2>1 DEF EmitNothing, Emitted
    <3>2. \A i \in SecIds : InFile(i) => (Gone(i)' <=> Gone(i))
      BY <1>1, <1>2, <3>1, LayoutFixed DEF Gone, InFile
    <3> QED BY <1>2, <3>1, <3>2
  <2>2. CASE SlotEmitted
    <3>1. ek > Len(Secs) /\ es' = es + 1 /\ ek' = 0
      BY <2>2 DEF SlotEmitted
    <3>2. \A i \in SecIds : InFile(i) => (Gone(i)' <=> Gone(i))
      <4>1. \A i \in SecIds : InFile(i) => Secs[i].slot \in 1 .. 4
        BY <1>1, Emitting
      <4> QED BY <1>1, <1>2, <3>1, <4>1, LayoutFixed DEF Gone
    <3> QED BY <1>2, <3>1, <3>2
  <2> QED BY <2>1, <2>2
<1> QED BY <1>1, <1>3, Emitting, EmitFileStep, SlotNumbers

LEMMA WriteFileInv ==
    ASSUME StaticInv, WriteFile
    PROVE  StaticInv'
<1>1. /\ UNCHANGED layoutVars /\ UNCHANGED <<r, patch, es, ek, len, fileoff>>
      /\ pc = "emit" /\ pc' = "done" /\ es = 5
  BY SlotNumbers DEF WriteFile
<1>2. lpc = "laid" /\ link.mode = "static"
  BY <1>1 DEF StaticInv, Phase, StaticPhases
<1>3. LInv' /\ AboveStart' /\ Phase'
  BY <1>1, <1>2, AfterLayout, LayoutFixed DEF Phase, StaticPhases, DynPhases
<1>4. LinkTypeOK'
  BY <1>1, <1>2, LayoutFixed DEF StaticInv, LinkTypeOK
<1>5. Patched'
  BY <1>1, PatchedStays
<1>6. \A i \in SecIds : InFile(i) => fileoff[i] = FileOffset(addr[i])
  BY <1>1, Emitting DEF Gone
<1>7. Appending' /\ Appended'
  BY <1>1, <1>6, LayoutFixed DEF Appending, Appended
<1> QED BY <1>3, <1>4, <1>5, <1>7 DEF StaticInv

LEMMA LayInv ==
    ASSUME StaticInv, Lay, UNCHANGED staticVars
    PROVE  StaticInv'
<1>1. /\ pc = "layout" /\ LayoutNext /\ UNCHANGED <<r, patch, len, es, ek, fileoff>>
      /\ pc' \in {"layout", "reloc", "scan"}
      /\ pc' # "layout" => lpc' = "laid"
      /\ pc' = "reloc" => link.mode = "static"
      /\ pc' = "scan" => link.mode # "static"
  BY DEF Lay, staticVars
<1>2. link' = link
  BY <1>1 DEF LayoutNext, OpenSlot, PlaceSection, SkipSection, SectionsPlaced, PlaceCommon,
     CommonsPlaced, CloseSlot
<1>3. LInv' /\ AboveStart'
  BY <1>1, LayoutStep, AboveStartStep DEF StaticInv
<1>4. Phase'
  BY <1>1, <1>2 DEF StaticInv, Phase, StaticPhases, DynPhases
<1>5. LinkTypeOK'
  BY <1>1, <1>2 DEF StaticInv, LinkTypeOK, Rels, SecIds, Secs
<1>6. Patched' /\ Appending' /\ Appended'
  <2>1. r = 1 /\ es = TEXT /\ ek = 0
    BY <1>1 DEF StaticInv, Appending
  <2>2. Applied(r)'
    BY <1>1, <2>1 DEF Applied
  <2> QED BY <1>1, <2>1, <2>2 DEF Patched, Appending, Appended
<1> QED BY <1>3, <1>4, <1>5, <1>6 DEF StaticInv

LEMMA DynPhase ==
    ASSUME DynStep
    PROVE  pc \in DynPhases /\ pc' \in DynPhases \cup {"done", "failed"}
BY DEF DynStep, ScanPc32, ScanPlt32, ScanGot, ScanR64, SkipDiscarded, ScanFails, Scanned,
   Export, Listed, DoubleBuckets, Synthesize, FillExports, ApplyFixups, DynFindEntry,
   DynEntryMissing, PushHash, StartEmit, EmitAt, DynWriteFile, DynPhases

LEMMA OtherInv ==
    ASSUME StaticInv,
           \/ DynStep /\ UNCHANGED staticVars
           \/ UNCHANGED vars
    PROVE  StaticInv'
<1>1. CASE DynStep
  <2>1. /\ UNCHANGED layoutVars /\ pc \in DynPhases /\ pc' \in DynPhases \cup {"done", "failed"}
        /\ link.mode # "static" /\ lpc = "laid" /\ link' = link /\ lpc' = lpc
    BY <1>1, DynLeaves, DynPhase, LayoutFixed DEF StaticInv, Phase, DynPhases
  <2>2. LInv' /\ AboveStart' /\ Phase'
    BY <2>1, AfterLayout DEF Phase, StaticPhases, DynPhases
  <2> QED BY <2>1, <2>2 DEF StaticInv, LinkTypeOK, Patched, Appending, Appended, DynPhases
<1>2. CASE UNCHANGED vars
  <2>1. UNCHANGED layoutVars /\ UNCHANGED <<pc, r, patch, len, es, ek, fileoff>>
    BY <1>2 DEF vars, linkVars, staticVars
  <2>2. LInv' /\ AboveStart' /\ Phase'
    BY <2>1, AfterLayout, LayoutFixed DEF StaticInv, Phase
  <2>3. LinkTypeOK' /\ Patched'
    BY <2>1, LayoutFixed DEF StaticInv, LinkTypeOK, Patched, Applied
  <2>4. Appending' /\ Appended'
    BY <2>1, LayoutFixed DEF StaticInv, Appending, Appended, Gone
  <2> QED BY <2>2, <2>3, <2>4 DEF StaticInv
<1> QED BY <1>1, <1>2

LEMMA LinkInvariant == Spec => []StaticInv
<1>1. Init => StaticInv
  <2> SUFFICES ASSUME Init PROVE StaticInv
    OBVIOUS
  <2>1. LInv /\ AboveStart
    BY LInit, PageAssumption DEF Init, LinkInit, LayoutInit, AboveStart, Opened, Slots, TEXT, BSS
  <2>2. Phase /\ Patched /\ Appending /\ Appended
    BY DEF Init, LinkInit, LayoutInit, StaticInit, Phase, Patched, Appending, Appended,
       StaticPhases, DynPhases
  <2>3. LinkTypeOK
    BY SlotNumbers DEF Init, LinkInit, StaticInit, LinkTypeOK
  <2> QED BY <2>1, <2>2, <2>3 DEF StaticInv
<1>2. StaticInv /\ [Next]_vars => StaticInv'
  <2> SUFFICES ASSUME StaticInv, [Next]_vars PROVE StaticInv'
    OBVIOUS
  <2>1. CASE Lay /\ UNCHANGED staticVars
    BY <2>1, LayInv
  <2>2. CASE StaticStep
    BY <2>2, RelocateInv, FindEntryInv, EmitSlotInv, EmitSectionInv, EmitNothingInv, WriteFileInv
    DEF StaticStep
  <2>3. CASE \/ DynStep /\ UNCHANGED staticVars
             \/ UNCHANGED vars
    BY <2>3, OtherInv
  <2> QED BY <2>1, <2>2, <2>3 DEF Next, Terminated
<1> QED BY <1>1, <1>2, PTL DEF Spec

-----------------------------------------------------------------------------
(* Theorems                                                                *)

LEMMA InPlaceWhenDone ==
    ASSUME StaticInv, pc = "done", link.mode = "static"
    PROVE  \A i \in SecIds : HasData(i) /\ Secs[i].slot # DISCARD =>
              /\ LoadedAt(i) = addr[i] /\ addr[i] \in Nat
              /\ fileoff[i] + Secs[i].size
                    <= FileOffset(outVa[Secs[i].slot]) + outSize[Secs[i].slot]
              /\ fileoff[i] >= HeadersEnd
<1>1. LInv /\ AboveStart /\ lpc = "laid" /\ LayoutTypeOK
  BY DEF StaticInv, Phase, LInv
<1> SUFFICES ASSUME NEW i \in SecIds, HasData(i), Secs[i].slot # DISCARD
             PROVE  /\ LoadedAt(i) = addr[i] /\ addr[i] \in Nat
                    /\ fileoff[i] + Secs[i].size
                          <= FileOffset(outVa[Secs[i].slot]) + outSize[Secs[i].slot]
                    /\ fileoff[i] >= HeadersEnd
  OBVIOUS
<1>2. InFile(i)
  BY <1>1, Inputs DEF InFile
<1>3. fileoff[i] = FileOffset(addr[i])
  BY <1>2 DEF StaticInv, Appended
<1> DEFINE s == Secs[i].slot
<1>4. /\ s \in 1 .. 4 /\ addr[i] \in Nat /\ Secs[i].size \in Nat \ {0}
      /\ Start <= outVa[s] /\ outVa[s] <= addr[i]
      /\ addr[i] + Secs[i].size <= outVa[s] + outSize[s]
      /\ outVa[s] \in Nat /\ outSize[s] \in Nat
  BY <1>1, <1>2, Laid, SlotNumbers
<1>5. Start <= addr[i] /\ Start \in Nat /\ Page \in Nat
  BY <1>4, PageAssumption
<1>6. /\ FileOffset(addr[i]) = Page + (addr[i] - Start) /\ Page <= FileOffset(addr[i])
      /\ FileOffset(outVa[s]) = Page + (outVa[s] - Start)
  BY <1>4, <1>5, OffsetType
<1>7. LoadedAt(i) = fileoff[i] - FileOffset(outVa[s]) + outVa[s]
  BY DEF LoadedAt
<1> HIDE DEF s
<1>8. LoadedAt(i) = addr[i] /\ fileoff[i] + Secs[i].size <= FileOffset(outVa[s]) + outSize[s]
  BY <1>3, <1>4, <1>5, <1>6, <1>7
<1>9. fileoff[i] >= HeadersEnd
  BY <1>3, <1>4, <1>5, <1>6, HeadersFit
<1> QED BY <1>4, <1>8, <1>9 DEF s

(* elf_link_static appends the sections so that the loader maps each of    *)
(* them to the address the layout gave it, inside its segment and behind   *)
(* the headers, for every list of sections and every page size.            *)
THEOREM StaticImageInPlace == Spec => []LoadedInPlace
<1>1. StaticInv => LoadedInPlace
  BY InPlaceWhenDone DEF LoadedInPlace, HeadersEnd
<1> QED BY <1>1, LinkInvariant, PTL

\* The relocations of the link are well formed, and the program is small
\* enough for its 32-bit fields: nothing in the code checks either.
SignedRange(v) == -(Wrap \div 2) <= v /\ v < Wrap \div 2
WellFormed(rel) ==
    /\ rel.sec \in SecIds /\ HasData(rel.sec)
    /\ rel.sym.kind = "sec" =>
        rel.sym.id \in SecIds /\ (HasData(rel.sym.id) => Secs[rel.sym.id].slot # DISCARD)
    /\ rel.sym.kind = "com" => rel.sym.id \in ComIds
FieldHolds(rel) ==
    LET SA == SymAddr(rel.sym) + rel.add
        PC == addr[rel.sec] + rel.off
    IN CASE rel.type \in {"PC32", "PLT32"} -> SignedRange(SA - PC)
         [] rel.type = "R32S" -> SignedRange(SA)
         [] rel.type = "R64" -> TRUE
         [] OTHER -> SA \in 0 .. Wrap - 1
SmallModel ==
    \A i \in 1 .. Len(Rels) :
        Secs[Rels[i].sec].slot # DISCARD => WellFormed(Rels[i]) /\ FieldHolds(Rels[i])

\* A field of 32 bits gives back what was stored in it, sign-extended or not.
LEMMA FieldValue ==
    ASSUME NEW v \in Int
    PROVE  /\ SignedRange(v) => Signed(v % Wrap) = v
           /\ v \in 0 .. Wrap - 1 => v % Wrap = v
<1>1. Wrap \in Nat \ {0} /\ Wrap \div 2 \in Nat /\ 2 * (Wrap \div 2) = Wrap
  BY WrapAssumption
<1> DEFINE q == v \div Wrap
           m == v % Wrap
<1>2. q \in Int /\ m \in 0 .. Wrap - 1 /\ v = Wrap * q + m
  BY <1>1
<1> HIDE DEF q, m
<1>3. ASSUME NEW h \in Nat, 2 * h = Wrap, -Wrap <= v, v < Wrap
      PROVE  (v >= 0 => m = v) /\ (v < 0 => m = v + Wrap)
  <2>1. CASE q = 0
    BY <1>1, <1>2, <1>3, <2>1
  <2>2. CASE q = -1
    BY <1>1, <1>2, <1>3, <2>2
  <2>3. CASE q >= 1
    <3>1. Wrap * q >= Wrap
      BY <1>1, <1>2, <2>3
    <3> QED BY <1>1, <1>2, <1>3, <3>1
  <2>4. CASE q <= -2
    <3>1. Wrap * q <= -2 * Wrap
      BY <1>1, <1>2, <2>4
    <3> QED BY <1>1, <1>2, <1>3, <3>1
  <2> QED BY <1>2, <2>1, <2>2, <2>3, <2>4
<1>4. SignedRange(v) => Signed(m) = v
  BY <1>1, <1>2, <1>3 DEF SignedRange, Signed
<1>5. v \in 0 .. Wrap - 1 => m = v
  BY <1>1, <1>3
<1> QED BY <1>4, <1>5 DEF m

LEMMA SymAddrType ==
    ASSUME LayoutTypeOK, NEW rel \in Rel, WellFormed(rel)
    PROVE  SymAddr(rel.sym) \in Int /\ addr[rel.sec] \in Nat
<1>1. addr[rel.sec] \in Nat
  BY DEF WellFormed, LayoutTypeOK
<1>2. rel.sym.val \in Nat
  BY DEF Rel, SymRef
<1>3. CASE rel.sym.kind = "sec"
  BY <1>1, <1>2, <1>3 DEF WellFormed, LayoutTypeOK, SymAddr
<1>4. CASE rel.sym.kind = "com"
  BY <1>1, <1>4 DEF WellFormed, LayoutTypeOK, SymAddr
<1>5. CASE rel.sym.kind \notin {"sec", "com"}
  <2>1. outVa[INIT_ARRAY] \in Nat /\ outSize[INIT_ARRAY] \in Nat
    BY DEF LayoutTypeOK, INIT_ARRAY, Slots, TEXT, BSS
  <2> QED BY <1>1, <1>5, <2>1 DEF SymAddr, InitStart, InitEnd
<1> QED BY <1>3, <1>4, <1>5

(* The fields that elf_link_static leaves in the finished program reach    *)
(* what they refer to, in every link whose relocations are well formed and *)
(* whose distances fit their fields.                                       *)
THEOREM StaticFieldsReach == Spec => [](SmallModel => FieldsReach)
<1>1. StaticInv /\ SmallModel => FieldsReach
  <2> SUFFICES ASSUME StaticInv, SmallModel, pc = "done", link.mode = "static",
                      NEW i \in 1 .. Len(Rels), Secs[Rels[i].sec].slot # DISCARD
               PROVE  /\ Rels[i].sym.kind # "undef" /\ Rels[i].type \in StaticTypes
                      /\ Denotes(Rels[i], patch[i]) = LoadedSym(Rels[i].sym) + Rels[i].add
    BY DEF FieldsReach
  <2> DEFINE rel == Rels[i]
             SA == SymAddr(rel.sym) + rel.add
             PC == addr[rel.sec] + rel.off
  <2>1. LayoutTypeOK /\ link \in Links /\ Applied(Len(Rels) + 1) /\ Len(Rels) \in Nat /\ rel \in Rel
    BY RelsAssumption DEF StaticInv, LInv, Phase, Patched, Rels
  <2>2. rel.sym.kind # "undef" /\ rel.type \in StaticTypes /\ patch[i] = Field(rel)
    BY <2>1 DEF Applied
  <2>3. WellFormed(rel) /\ FieldHolds(rel)
    BY DEF SmallModel
  <2>4. SymAddr(rel.sym) \in Int /\ addr[rel.sec] \in Nat /\ rel.off \in Nat /\ rel.add \in Int
    <3>1. rel.off \in Nat /\ rel.add \in Int
      BY <2>1 DEF Rel
    <3> QED BY <2>1, <2>3, <3>1, SymAddrType
  <2>5. LoadedAt(rel.sec) = addr[rel.sec]
    BY <2>3, InPlaceWhenDone DEF WellFormed
  <2>6. LoadedSym(rel.sym) = SymAddr(rel.sym)
    <3>1. CASE rel.sym.kind = "sec" /\ HasData(rel.sym.id)
      <4>1. LoadedAt(rel.sym.id) = addr[rel.sym.id]
        BY <2>3, <3>1, InPlaceWhenDone DEF WellFormed
      <4> QED BY <3>1, <4>1 DEF LoadedSym, SymAddr
    <3>2. CASE ~(rel.sym.kind = "sec" /\ HasData(rel.sym.id))
      BY <3>2 DEF LoadedSym
    <3> QED BY <3>1, <3>2
  <2>7. SA \in Int /\ PC \in Int /\ SA - PC \in Int
    <3>1. /\ \A x, y \in Int : x - y \in Int /\ x + y \in Int
          /\ \A x, y \in Nat : x + y \in Int
      OBVIOUS
    <3> HIDE DEF rel
    <3>2. SA \in Int
      BY <2>4, <3>1, Zenon
    <3>3. PC \in Int
      BY <2>4, <3>1, Zenon
    <3> QED BY <3>1, <3>2, <3>3, Zenon
  <2>8. Denotes(rel, patch[i]) = SA
    <3>1. CASE rel.type \in {"PC32", "PLT32"}
      <4>1. patch[i] = (SA - PC) % Wrap
        BY <2>2, <3>1 DEF Field
      <4>2. SignedRange(SA - PC)
        BY <2>3, <3>1 DEF FieldHolds
      <4>3. Signed(patch[i]) = SA - PC
        BY <2>7, <4>1, <4>2, FieldValue
      <4>4. Denotes(rel, patch[i]) = Signed(patch[i]) + addr[rel.sec] + rel.off
        BY <2>5, <3>1 DEF Denotes
      <4> HIDE DEF rel
      <4> QED BY <2>4, <4>3, <4>4
    <3>2. CASE rel.type = "R32S"
      <4>1. patch[i] = SA % Wrap /\ Denotes(rel, patch[i]) = Signed(patch[i]) /\ SignedRange(SA)
        BY <2>2, <2>3, <3>2 DEF Field, Denotes, FieldHolds
      <4> QED BY <2>7, <4>1, FieldValue
    <3>3. CASE rel.type = "R64"
      BY <2>2, <3>3 DEF Field, Denotes
    <3>4. CASE rel.type \notin {"PC32", "PLT32", "R32S", "R64"}
      <4>1. patch[i] = SA % Wrap /\ Denotes(rel, patch[i]) = patch[i] /\ SA \in 0 .. Wrap - 1
        BY <2>2, <2>3, <3>4 DEF Field, Denotes, FieldHolds
      <4> QED BY <2>7, <4>1, FieldValue
    <3> QED BY <3>1, <3>2, <3>3, <3>4
  <2> QED BY <2>2, <2>6, <2>8
<1> QED BY <1>1, LinkInvariant, PTL

(* The layout theorems hold of whole links: what follows the layout leaves *)
(* alignment, extents and the pages of different permissions as they are.  *)
THEOREM LinkKeepsLayout == Spec => [](WithinSlot /\ PermissionPages)
<1>1. StaticInv => LInv
  BY DEF StaticInv
<1> QED BY <1>1, InvFits, InvPages, LinkInvariant, PTL

-----------------------------------------------------------------------------
(* The inductive invariant of the dynamic path                             *)

IsSeq(s) == \E T : s \in Seq(T)

\* Where the layout before the shift puts the field of relocation i.
At(i) == addr[Rels[i].sec] + Rels[i].off
Named(d, n) == d \in 1 .. Len(dsyms) /\ dsyms[d].name = n
ImportedBy(i, t) == Rels[i].type = t /\ ~Internal(Rels[i].sym)

\* The field waits for the PLT entry or the GOT slot of the name it asks for.
Waits(i, fx) ==
    /\ fx.rel = i /\ fx.P = At(i) /\ fx.slot \in Nat
    /\ ImportedBy(i, "PLT32") =>
        /\ fx.kind = "plt" /\ fx.slot < Len(plts)
        /\ plts[fx.slot + 1] \in Nat /\ Named(plts[fx.slot + 1] + 1, Rels[i].sym.id)
    /\ ImportedBy(i, "GOT") =>
        /\ fx.kind = "got" /\ fx.slot < Len(gots)
        /\ gots[fx.slot + 1].import
        /\ gots[fx.slot + 1].di \in Nat
        /\ Named(gots[fx.slot + 1].di + 1, Rels[i].sym.id)

DynTypeOK ==
    /\ r \in Nat \ {0} /\ DOMAIN patch = 1 .. Len(Rels)
    /\ IsSeq(dsyms) /\ IsSeq(gots) /\ IsSeq(plts) /\ IsSeq(rdyn) /\ IsSeq(fixups)

\* The relocation walk has not begun, goes on, or is over.
Walk ==
    /\ pc = "layout" => r = 1 /\ fixups = << >> /\ rdyn = << >>
    /\ pc \notin {"layout", "scan", "failed"} => r > Len(Rels)

\* Of the relocations gone through, those that need a table's address are
\* each waiting once, and for the right one.
OnlyImports ==
    \A fx \in ToSet(fixups) :
        /\ fx.rel \in Live /\ fx.rel < r
        /\ Rels[fx.rel].type = "GOT" \/ ImportedBy(fx.rel, "PLT32")
OneFixup == \A fx, gx \in ToSet(fixups) : fx.rel = gx.rel => fx = gx
Deferred ==
    \A i \in Live : i < r /\ (ImportedBy(i, "PLT32") \/ ImportedBy(i, "GOT")) =>
        \E fx \in ToSet(fixups) : Waits(i, fx)

\* The others have their values, or are left to the loader.
Direct ==
    \A i \in Live :
        i < r /\ (Rels[i].type = "PC32" \/ (Rels[i].type = "PLT32" /\ Internal(Rels[i].sym))) =>
            patch[i] = (SymAddr(Rels[i].sym) + Rels[i].add - At(i)) % Wrap
DataFields == \A d \in ToSet(rdyn) : \E i \in Live : d.off = At(i)

\* The tables lie above what the layout placed, moved or not.
Synthesized ==
    pc \in {"fill", "fix", "dynentry", "hash", "dynemit"} \/ DynDone =>
        /\ meta.plt \in Nat /\ meta.hash \in Nat /\ meta.hashSize \in Nat
        /\ meta.dynsym \in Nat /\ meta.dynstr \in Nat /\ meta.reladyn \in Nat
        /\ meta.got \in Nat /\ meta.delta \in Nat /\ meta.delta % Page = 0
        /\ OutEnd(TEXT) <= meta.plt /\ OutEnd(RODATA) <= meta.hash
        /\ meta.hash + meta.hashSize <= meta.dynsym
        /\ meta.dynstr = meta.dynsym + Total * SymEnt
        /\ meta.dynstr + StrSize <= meta.reladyn
        /\ meta.relaplt = meta.reladyn + (Len(rdyn) + Len(gots)) * RelaEnt
        /\ OutEnd(BSS) + meta.delta <= meta.got
        /\ meta.gotplt = meta.got + Len(gots) * GotEnt
        /\ meta.dynamic = meta.gotplt + Len(plts) * GotEnt

\* The waiting fields are given their values.
Fixed ==
    pc \in {"dynentry", "hash", "dynemit"} \/ DynDone =>
        \A fx \in ToSet(fixups) :
            patch[fx.rel] = (SlotVa(fx) + Rels[fx.rel].add - fx.P) % Wrap

DynInv ==
    link.mode # "static" =>
        /\ DynTypeOK /\ Walk /\ OnlyImports /\ OneFixup /\ Deferred /\ Direct /\ DataFields
        /\ Synthesized /\ Fixed

-----------------------------------------------------------------------------
(* Sequences and tables that grow                                          *)

Grows(s, t) == IsSeq(t) /\ Len(s) <= Len(t) /\ \A i \in 1 .. Len(s) : t[i] = s[i]

LEMMA SeqFacts ==
    ASSUME NEW s, IsSeq(s)
    PROVE  /\ Len(s) \in Nat /\ DOMAIN s = 1 .. Len(s) /\ Grows(s, s)
           /\ \A e : /\ Grows(s, Append(s, e)) /\ Len(Append(s, e)) = Len(s) + 1
                     /\ Append(s, e)[Len(s) + 1] = e
<1>1. PICK T : s \in Seq(T)
  BY DEF IsSeq
<1>2. Len(s) \in Nat /\ DOMAIN s = 1 .. Len(s) /\ Grows(s, s)
  BY <1>1 DEF Grows, IsSeq
<1>3. ASSUME NEW e
      PROVE  /\ Grows(s, Append(s, e)) /\ Len(Append(s, e)) = Len(s) + 1
             /\ Append(s, e)[Len(s) + 1] = e
  <2>1. s \in Seq(T \cup {e}) /\ e \in T \cup {e}
    BY <1>1
  <2>2. Append(s, e) \in Seq(T \cup {e})
    BY <2>1
  <2>3. Len(Append(s, e)) = Len(s) + 1 /\ Append(s, e)[Len(s) + 1] = e
    BY <2>1
  <2>4. \A i \in 1 .. Len(s) : Append(s, e)[i] = s[i]
    BY <2>1
  <2> QED BY <1>2, <2>2, <2>3, <2>4 DEF Grows, IsSeq
<1> QED BY <1>2, <1>3

LEMMA AppendSet ==
    ASSUME NEW s, IsSeq(s), NEW e
    PROVE  ToSet(Append(s, e)) = ToSet(s) \cup {e}
<1> DEFINE t == Append(s, e)
<1>1. /\ Len(s) \in Nat /\ DOMAIN s = 1 .. Len(s) /\ IsSeq(t) /\ Len(t) = Len(s) + 1
      /\ t[Len(s) + 1] = e /\ \A i \in 1 .. Len(s) : t[i] = s[i]
  BY SeqFacts DEF Grows
<1>2. DOMAIN t = 1 .. Len(s) + 1
  BY <1>1, SeqFacts
<1> HIDE DEF t
<1>3. ToSet(t) \subseteq ToSet(s) \cup {e}
  BY <1>1, <1>2 DEF ToSet
<1>4. ToSet(s) \cup {e} \subseteq ToSet(t)
  BY <1>1, <1>2 DEF ToSet
<1> QED BY <1>3, <1>4 DEF t

LEMMA EmptyTable ==
    ASSUME NEW s, s = << >>
    PROVE  Len(s) = 0 /\ IsSeq(s) /\ ToSet(s) = {}
<1>1. s \in Seq({0})
  OBVIOUS
<1>2. Len(s) = 0
  OBVIOUS
<1>3. ToSet(s) = {}
  BY <1>1, <1>2 DEF ToSet
<1> QED BY <1>1, <1>2, <1>3 DEF IsSeq

LEMMA MinOf ==
    ASSUME NEW K, K \subseteq Nat, K # {}
    PROVE  Min(K) \in K
<1>1. \E x \in K : \A y \in K : x <= y
  BY LeastElement
<1> QED BY <1>1 DEF Min

\* A name is looked up in the dynamic symbols, or added.
LEMMA WithSymFacts ==
    ASSUME NEW ds, IsSeq(ds), NEW n
    PROVE  /\ Grows(ds, WithSym(ds, n))
           /\ Position(WithSym(ds, n), n) \in 1 .. Len(WithSym(ds, n))
           /\ WithSym(ds, n)[Position(WithSym(ds, n), n)].name = n
<1>0. Len(ds) \in Nat
  BY SeqFacts
<1>1. ASSUME NEW w, \E i \in 1 .. Len(w) : w[i].name = n
      PROVE  Position(w, n) \in 1 .. Len(w) /\ w[Position(w, n)].name = n
  BY <1>1 DEF Position
<1>2. CASE \E i \in 1 .. Len(ds) : ds[i].name = n
  <2>1. Position(ds, n) \in 1 .. Len(ds)
    BY <1>1, <1>2
  <2>2. WithSym(ds, n) = ds
    BY <1>0, <2>1 DEF WithSym
  <2> QED BY <1>1, <1>2, <2>2, SeqFacts
<1>3. CASE ~\E i \in 1 .. Len(ds) : ds[i].name = n
  <2>1. WithSym(ds, n) = Append(ds, DynSym(n))
    BY <1>3 DEF WithSym, Position
  <2> DEFINE w == Append(ds, DynSym(n))
  <2>2. Grows(ds, w) /\ Len(w) = Len(ds) + 1 /\ w[Len(ds) + 1] = DynSym(n)
    BY SeqFacts
  <2>3. Len(ds) + 1 \in 1 .. Len(w) /\ w[Len(ds) + 1].name = n
    BY <1>0, <2>2 DEF DynSym
  <2> HIDE DEF w
  <2>4. Position(w, n) \in 1 .. Len(w) /\ w[Position(w, n)].name = n
    BY <1>1, <2>3
  <2> QED BY <2>1, <2>2, <2>4 DEF w
<1> QED BY <1>2, <1>3

\* After the layout, what the relocations say does not change.
LEMMA RelsFixed ==
    ASSUME UNCHANGED layoutVars
    PROVE  /\ Live' = Live /\ \A s : OutEnd(s)' = OutEnd(s)
           /\ \A i : At(i)' = At(i)
           /\ \A i, t : ImportedBy(i, t)' <=> ImportedBy(i, t)
           /\ \A y : SymAddr(y)' = SymAddr(y)
<1>1. /\ Secs' = Secs /\ Rels' = Rels /\ addr' = addr /\ outVa' = outVa /\ outSize' = outSize
      /\ comaddr' = comaddr
  BY DEF layoutVars, Secs, SecIds, Rels
<1>2. Live' = Live
  BY <1>1 DEF Live
<1>3. \A y : SymAddr(y)' = SymAddr(y)
  BY <1>1 DEF SymAddr, InitStart, InitEnd
<1>4. \A i : At(i)' = At(i)
  BY <1>1 DEF At
<1>5. \A i, t : ImportedBy(i, t)' <=> ImportedBy(i, t)
  BY <1>1 DEF ImportedBy
<1>6. \A s : OutEnd(s)' = OutEnd(s)
  BY <1>1 DEF OutEnd
<1> QED BY <1>2, <1>3, <1>4, <1>5, <1>6

\* A field keeps waiting for the right entry while the tables grow.
LEMMA WaitsStay ==
    ASSUME UNCHANGED layoutVars, DynTypeOK, Grows(plts, plts'), Grows(gots, gots'),
           Len(dsyms') \in Nat, Len(dsyms) <= Len(dsyms'),
           \A d \in 1 .. Len(dsyms) : dsyms'[d].name = dsyms[d].name
    PROVE  \A i, fx : Waits(i, fx) => Waits(i, fx)'
<1> SUFFICES ASSUME NEW i, NEW fx, Waits(i, fx) PROVE Waits(i, fx)'
  OBVIOUS
<1>1. /\ Len(plts) \in Nat /\ Len(gots) \in Nat /\ Len(dsyms) \in Nat
      /\ Len(plts') \in Nat /\ Len(gots') \in Nat
  BY SeqFacts DEF DynTypeOK, Grows
<1>2. \A d, n : Named(d, n) => Named(d, n)'
  BY <1>1 DEF Named
<1>3. Rels' = Rels
  BY LayoutFixed
<1>4. fx.rel = i /\ fx.P = At(i)' /\ fx.slot \in Nat
  BY RelsFixed DEF Waits
<1>5. ASSUME ImportedBy(i, "PLT32")
      PROVE  /\ fx.kind = "plt" /\ fx.slot < Len(plts')
             /\ plts'[fx.slot + 1] \in Nat /\ Named(plts[fx.slot + 1] + 1, Rels[i].sym.id)'
  <2>1. /\ fx.kind = "plt" /\ fx.slot < Len(plts) /\ fx.slot + 1 \in 1 .. Len(plts)
        /\ plts[fx.slot + 1] \in Nat /\ Named(plts[fx.slot + 1] + 1, Rels[i].sym.id)
    BY SMTT(30), <1>1, <1>4, <1>5 DEF Waits
  <2>2. plts'[fx.slot + 1] = plts[fx.slot + 1] /\ fx.slot < Len(plts')
    BY <1>1, <1>4, <2>1 DEF Grows
  <2>3. \A d, n : d = plts[fx.slot + 1] + 1 /\ n = Rels[i].sym.id => Named(d, n)'
    BY <1>2, <2>1
  <2> QED BY <1>3, <2>1, <2>2, <2>3 DEF Named
<1>6. ASSUME ImportedBy(i, "GOT")
      PROVE  /\ fx.kind = "got" /\ fx.slot < Len(gots')
             /\ gots'[fx.slot + 1].import /\ gots'[fx.slot + 1].di \in Nat
             /\ Named(gots[fx.slot + 1].di + 1, Rels[i].sym.id)'
  <2>1. /\ fx.kind = "got" /\ fx.slot < Len(gots) /\ fx.slot + 1 \in 1 .. Len(gots)
        /\ gots[fx.slot + 1].import
        /\ gots[fx.slot + 1].di \in Nat /\ Named(gots[fx.slot + 1].di + 1, Rels[i].sym.id)
    BY SMTT(30), <1>1, <1>4, <1>6 DEF Waits
  <2>2. gots'[fx.slot + 1] = gots[fx.slot + 1] /\ fx.slot < Len(gots')
    BY <1>1, <1>4, <2>1 DEF Grows
  <2>3. \A d, n : d = gots[fx.slot + 1].di + 1 /\ n = Rels[i].sym.id => Named(d, n)'
    BY <1>2, <2>1
  <2> QED BY <1>3, <2>1, <2>2, <2>3 DEF Named
<1> QED BY <1>4, <1>5, <1>6, RelsFixed DEF Waits

-----------------------------------------------------------------------------
(* The relocation walk                                                     *)

LEMMA DynStart ==
    ASSUME StaticInv, DynInv, pc \in DynPhases
    PROVE  /\ link.mode # "static" /\ link \in Links /\ lpc = "laid" /\ LInv
           /\ Len(Rels) \in Nat /\ Rels \in Seq(Rel)
           /\ DynTypeOK /\ Walk /\ OnlyImports /\ OneFixup /\ Deferred /\ Direct /\ DataFields
           /\ Synthesized /\ Fixed
BY RelsAssumption DEF StaticInv, Phase, DynPhases, DynInv, Rels

\* What the step for one relocation has to show.
LEMMA ScanKeeps ==
    ASSUME StaticInv, DynInv, UNCHANGED layoutVars, pc = "scan", pc' = "scan",
           r <= Len(Rels), r' = r + 1,
           Grows(dsyms, dsyms'), Grows(plts, plts'), Grows(gots, gots'),
           DOMAIN patch' = DOMAIN patch,
           \A i \in 1 .. Len(Rels) : i # r => patch'[i] = patch[i],
           r \in Live /\ (Rels[r].type = "PC32" \/ (Rels[r].type = "PLT32" /\ Internal(Rels[r].sym))) =>
               patch'[r] = (SymAddr(Rels[r].sym) + Rels[r].add - At(r)) % Wrap,
           \/ rdyn' = rdyn
           \/ \E d : rdyn' = Append(rdyn, d) /\ r \in Live /\ d.off = At(r),
           \/ /\ fixups' = fixups
              /\ r \in Live => ~ImportedBy(r, "PLT32") /\ ~ImportedBy(r, "GOT")
           \/ \E n, fx : /\ n = r /\ fixups' = Append(fixups, fx) /\ fx.rel = n /\ n \in Live
                         /\ Rels[n].type = "GOT" \/ ImportedBy(n, "PLT32")
                         /\ ImportedBy(n, "PLT32") \/ ImportedBy(n, "GOT") => Waits(n, fx)'
    PROVE  DynInv'
<1>0. pc \in DynPhases
  BY DEF DynPhases
<1>1. /\ link.mode # "static" /\ Len(Rels) \in Nat
      /\ DynTypeOK /\ OnlyImports /\ OneFixup /\ Deferred /\ Direct /\ DataFields
  BY <1>0, DynStart
<1>2. link' = link /\ Rels' = Rels
  BY LayoutFixed
<1>3. /\ r \in Nat \ {0} /\ r' \in Nat \ {0} /\ DOMAIN patch = 1 .. Len(Rels)
      /\ IsSeq(fixups) /\ IsSeq(rdyn) /\ Live \subseteq 1 .. Len(Rels)
      /\ \A i \in Live : (i < r' <=> i < r \/ i = r) /\ ~(r < r)
  <2>1. r \in Nat \ {0} /\ DOMAIN patch = 1 .. Len(Rels) /\ IsSeq(fixups) /\ IsSeq(rdyn)
    BY <1>1 DEF DynTypeOK
  <2>2. Live \subseteq 1 .. Len(Rels)
    BY DEF Live
  <2>3. \A i \in 1 .. Len(Rels) : (i < r' <=> i < r \/ i = r) /\ ~(r < r)
    BY <1>1, <2>1
  <2>4. r' \in Nat \ {0}
    BY <2>1
  <2> QED BY <2>1, <2>2, <2>3, <2>4
<1>4. IsSeq(rdyn') /\ \A d \in ToSet(rdyn)' : d \in ToSet(rdyn) \/ (r \in Live /\ d.off = At(r))
  <2>1. CASE rdyn' = rdyn
    BY <1>3, <2>1 DEF ToSet
  <2>2. CASE \E d : rdyn' = Append(rdyn, d) /\ r \in Live /\ d.off = At(r)
    <3>1. PICK d : rdyn' = Append(rdyn, d) /\ r \in Live /\ d.off = At(r)
      BY <2>2
    <3>2. ToSet(rdyn') = ToSet(rdyn) \cup {d} /\ IsSeq(rdyn')
      BY <1>3, <3>1, AppendSet, SeqFacts DEF Grows
    <3> QED BY <3>1, <3>2
  <2> QED BY <2>1, <2>2
<1>5. DataFields'
  BY <1>1, <1>4, RelsFixed DEF DataFields
<1>6. Direct'
  <2> SUFFICES ASSUME NEW i \in Live, i < r',
                      Rels[i].type = "PC32" \/ (Rels[i].type = "PLT32" /\ Internal(Rels[i].sym))
               PROVE  patch'[i] = (SymAddr(Rels[i].sym) + Rels[i].add - At(i)) % Wrap
    BY <1>2, RelsFixed DEF Direct
  <2> QED BY <1>1, <1>3 DEF Direct
<1>7. IsSeq(fixups') => DynTypeOK'
  BY <1>1, <1>2, <1>3, <1>4 DEF DynTypeOK, Grows
<1>8. ASSUME IsSeq(fixups') PROVE \A i, fx : Waits(i, fx) => Waits(i, fx)'
  <2>1. /\ Len(dsyms') \in Nat /\ Len(dsyms) <= Len(dsyms')
        /\ \A d \in 1 .. Len(dsyms) : dsyms'[d].name = dsyms[d].name
    <3>1. Len(dsyms') \in Nat
      BY <1>7, <1>8, SeqFacts DEF DynTypeOK
    <3> QED BY <3>1 DEF Grows
  <2> QED BY <1>1, <2>1, WaitsStay
<1>9. IsSeq(fixups') /\ OnlyImports' /\ OneFixup' /\ Deferred'
  <2>1. CASE /\ fixups' = fixups
             /\ r \in Live => ~ImportedBy(r, "PLT32") /\ ~ImportedBy(r, "GOT")
    <3>1. IsSeq(fixups')
      BY <1>3, <2>1
    <3>2. OnlyImports'
      BY <1>1, <1>2, <1>3, <2>1, RelsFixed DEF OnlyImports
    <3>3. OneFixup'
      BY <1>1, <2>1 DEF OneFixup
    <3>4. Deferred'
      <4> SUFFICES ASSUME NEW i \in Live, i < r', ImportedBy(i, "PLT32") \/ ImportedBy(i, "GOT")
                   PROVE  \E fx \in ToSet(fixups) : Waits(i, fx)'
        BY <2>1, RelsFixed DEF Deferred
      <4>1. \E fx \in ToSet(fixups) : Waits(i, fx)
        BY <1>1, <1>3, <2>1 DEF Deferred
      <4> QED BY <1>8, <3>1, <4>1
    <3> QED BY <3>1, <3>2, <3>3, <3>4
  <2>2. CASE \E n, fx : /\ n = r /\ fixups' = Append(fixups, fx) /\ fx.rel = n /\ n \in Live
                        /\ Rels[n].type = "GOT" \/ ImportedBy(n, "PLT32")
                        /\ ImportedBy(n, "PLT32") \/ ImportedBy(n, "GOT") => Waits(n, fx)'
    <3>1. PICK n, fx : /\ n = r /\ fixups' = Append(fixups, fx) /\ fx.rel = n /\ n \in Live
                       /\ Rels[n].type = "GOT" \/ ImportedBy(n, "PLT32")
                       /\ ImportedBy(n, "PLT32") \/ ImportedBy(n, "GOT") => Waits(n, fx)'
      BY <2>2
    <3>2. ToSet(fixups)' = ToSet(fixups) \cup {fx} /\ IsSeq(fixups')
      BY <1>3, <3>1, AppendSet, SeqFacts DEF Grows
    <3>3. OnlyImports'
      BY <1>1, <1>2, <1>3, <3>1, <3>2, RelsFixed DEF OnlyImports
    <3>4. \A gx \in ToSet(fixups) : gx.rel # fx.rel
      BY <1>1, <1>3, <3>1 DEF OnlyImports
    <3>5. OneFixup'
      BY <1>1, <3>2, <3>4 DEF OneFixup
    <3>6. Deferred'
      BY ZenonT(30), <1>1, <1>3, <1>8, <3>1, <3>2, RelsFixed DEF Deferred
    <3> QED BY <3>2, <3>3, <3>5, <3>6
  <2> QED BY <2>1, <2>2
<1>10. Walk' /\ Synthesized' /\ Fixed'
  BY DEF Walk, Synthesized, Fixed, DynDone
<1> QED BY <1>5, <1>6, <1>7, <1>9, <1>10 DEF DynInv

LEMMA Scanning ==
    ASSUME StaticInv, DynInv, NEW t, Scanned(t)
    PROVE  /\ UNCHANGED layoutVars /\ pc = "scan" /\ pc' = "scan" /\ r <= Len(Rels) /\ r' = r + 1
           /\ r \in Live /\ Rels[r].type = t /\ P = At(r) /\ S = SymAddr(Rels[r].sym)
           /\ IsSeq(dsyms) /\ IsSeq(plts) /\ IsSeq(gots) /\ IsSeq(rdyn) /\ IsSeq(fixups)
           /\ Grows(dsyms, dsyms) /\ Grows(plts, plts) /\ Grows(gots, gots)
           /\ Len(dsyms) \in Nat /\ Len(plts) \in Nat /\ Len(gots) \in Nat
           /\ DOMAIN patch = 1 .. Len(Rels)
<1>1. /\ UNCHANGED layoutVars /\ pc = "scan" /\ pc' = "scan" /\ r <= Len(Rels) /\ r' = r + 1
      /\ Secs[Rels[r].sec].slot # DISCARD /\ Rels[r].type = t
  BY DEF Scanned, Rela
<1>2. DynTypeOK /\ Len(Rels) \in Nat
  BY <1>1, DynStart DEF DynPhases
<1>3. r \in 1 .. Len(Rels)
  BY <1>1, <1>2 DEF DynTypeOK
<1>4. r \in Live
  BY <1>1, <1>3 DEF Live
<1>5. P = At(r) /\ S = SymAddr(Rels[r].sym)
  BY DEF P, S, At, Rela
<1> QED BY <1>1, <1>2, <1>4, <1>5, SeqFacts DEF DynTypeOK

LEMMA PatchedNow ==
    ASSUME DOMAIN patch = 1 .. Len(Rels), PatchNow
    PROVE  /\ DOMAIN patch' = DOMAIN patch
           /\ \A i \in 1 .. Len(Rels) : i # r => patch'[i] = patch[i]
           /\ r \in 1 .. Len(Rels) => patch'[r] = (S + Rels[r].add - P) % Wrap
BY DEF PatchNow, Rela

LEMMA ScanPc32Inv ==
    ASSUME StaticInv, DynInv, ScanPc32
    PROVE  DynInv'
<1>1. Scanned("PC32") /\ PatchNow /\ UNCHANGED <<dsyms, gots, plts, rdyn, fixups>>
  BY DEF ScanPc32
<1>2. /\ UNCHANGED layoutVars /\ pc = "scan" /\ pc' = "scan" /\ r <= Len(Rels) /\ r' = r + 1
      /\ r \in Live /\ Rels[r].type = "PC32" /\ P = At(r) /\ S = SymAddr(Rels[r].sym)
      /\ Grows(dsyms, dsyms') /\ Grows(plts, plts') /\ Grows(gots, gots')
      /\ DOMAIN patch = 1 .. Len(Rels) /\ r \in 1 .. Len(Rels)
  BY <1>1, Scanning DEF Live
<1>3. /\ DOMAIN patch' = DOMAIN patch
      /\ \A i \in 1 .. Len(Rels) : i # r => patch'[i] = patch[i]
      /\ patch'[r] = (S + Rels[r].add - P) % Wrap
  BY <1>1, <1>2, PatchedNow
<1>4. ~ImportedBy(r, "PLT32") /\ ~ImportedBy(r, "GOT")
  BY <1>2 DEF ImportedBy
<1> QED BY <1>1, <1>2, <1>3, <1>4, ScanKeeps

LEMMA SkipDiscardedInv ==
    ASSUME StaticInv, DynInv, SkipDiscarded
    PROVE  DynInv'
<1>1. /\ UNCHANGED layoutVars /\ pc = "scan" /\ pc' = "scan" /\ r <= Len(Rels) /\ r' = r + 1
      /\ Secs[Rels[r].sec].slot = DISCARD
      /\ UNCHANGED <<patch, dsyms, gots, plts, rdyn, fixups>>
  BY DEF SkipDiscarded, Rela
<1>2. DynTypeOK
  BY <1>1, DynStart DEF DynPhases
<1>3. Grows(dsyms, dsyms') /\ Grows(plts, plts') /\ Grows(gots, gots')
  BY <1>1, <1>2, SeqFacts DEF DynTypeOK
<1>4. r \notin Live
  BY <1>1 DEF Live
<1> QED BY <1>1, <1>3, <1>4, ScanKeeps

LEMMA ScanR64Inv ==
    ASSUME StaticInv, DynInv, ScanR64
    PROVE  DynInv'
<1>1. Scanned("R64") /\ UNCHANGED <<patch, gots, plts, fixups>>
  BY DEF ScanR64
<1>2. /\ UNCHANGED layoutVars /\ pc = "scan" /\ pc' = "scan" /\ r <= Len(Rels) /\ r' = r + 1
      /\ r \in Live /\ Rels[r].type = "R64" /\ P = At(r) /\ S = SymAddr(Rels[r].sym)
      /\ IsSeq(dsyms) /\ Grows(dsyms, dsyms)
      /\ Grows(plts, plts') /\ Grows(gots, gots')
  BY <1>1, Scanning
<1>3. Grows(dsyms, dsyms')
  BY <1>2, WithSymFacts DEF ScanR64
<1>4. \E d : rdyn' = Append(rdyn, d) /\ r \in Live /\ d.off = At(r)
  <2>1. CASE Internal(Rela.sym)
    <3> DEFINE d == [off |-> P, type |-> "RELATIVE", sym |-> 0, add |-> S + Rela.add, rel |-> r]
    <3>1. rdyn' = Append(rdyn, d) /\ d.off = At(r)
      BY <1>2, <2>1 DEF ScanR64
    <3> QED BY <1>2, <3>1
  <2>2. CASE ~Internal(Rela.sym)
    <3> DEFINE d == [off |-> P, type |-> "R64", sym |-> Position(dsyms', Sym) - 1,
                     add |-> Rela.add, rel |-> r]
    <3>1. rdyn' = Append(rdyn, d) /\ d.off = At(r)
      BY <1>2, <2>2 DEF ScanR64
    <3> QED BY <1>2, <3>1
  <2> QED BY <2>1, <2>2
<1>5. ~ImportedBy(r, "PLT32") /\ ~ImportedBy(r, "GOT")
  BY <1>2 DEF ImportedBy
<1> QED BY <1>1, <1>2, <1>3, <1>4, <1>5, ScanKeeps

LEMMA ScanPlt32Inv ==
    ASSUME StaticInv, DynInv, ScanPlt32
    PROVE  DynInv'
<1>1. Scanned("PLT32") /\ UNCHANGED <<gots, rdyn>>
  BY DEF ScanPlt32
<1>2. /\ UNCHANGED layoutVars /\ pc = "scan" /\ pc' = "scan" /\ r <= Len(Rels) /\ r' = r + 1
      /\ r \in Live /\ Rels[r].type = "PLT32" /\ P = At(r) /\ S = SymAddr(Rels[r].sym)
      /\ IsSeq(dsyms) /\ IsSeq(plts) /\ Grows(dsyms, dsyms) /\ Grows(plts, plts)
      /\ Grows(gots, gots') /\ DOMAIN patch = 1 .. Len(Rels) /\ r \in 1 .. Len(Rels)
  BY <1>1, Scanning DEF Live
<1>3. CASE Internal(Rels[r].sym)
  <2>1. PatchNow /\ UNCHANGED <<dsyms, plts, fixups>>
    BY <1>3 DEF ScanPlt32, Rela
  <2>2. /\ DOMAIN patch' = DOMAIN patch
        /\ \A i \in 1 .. Len(Rels) : i # r => patch'[i] = patch[i]
        /\ patch'[r] = (S + Rels[r].add - P) % Wrap
    BY <1>2, <2>1, PatchedNow
  <2>3. ~ImportedBy(r, "PLT32") /\ ~ImportedBy(r, "GOT")
    BY <1>2, <1>3 DEF ImportedBy
  <2>4. Grows(dsyms, dsyms') /\ Grows(plts, plts')
    BY <1>2, <2>1
  <2> QED BY <1>1, <1>2, <2>1, <2>2, <2>3, <2>4, ScanKeeps
<1>4. CASE ~Internal(Rels[r].sym)
  <2> DEFINE w == WithSym(dsyms, Sym)
             di == Position(w, Sym) - 1
             known == {i \in 1 .. Len(plts) : plts[i] = di}
             sl == IF known = {} THEN Len(plts) ELSE Min(known) - 1
             fx0 == [rel |-> r, P |-> P, kind |-> "plt", slot |-> sl]
  <2>1. /\ dsyms' = w /\ plts' = (IF known = {} THEN Append(plts, di) ELSE plts)
        /\ fixups' = Append(fixups, fx0) /\ patch' = patch
    BY <1>4 DEF ScanPlt32, Rela, Defer
  <2>2. Grows(dsyms, w) /\ di + 1 \in 1 .. Len(w) /\ w[di + 1].name = Sym /\ di \in Int
        /\ Len(w) \in Nat
    <3>1. /\ Grows(dsyms, w) /\ Position(w, Sym) \in 1 .. Len(w) /\ w[Position(w, Sym)].name = Sym
          /\ Len(w) \in Nat
      BY <1>2, WithSymFacts, SeqFacts DEF Grows
    <3> HIDE DEF w
    <3>2. di + 1 = Position(w, Sym) /\ di \in Int
      BY <3>1
    <3> QED BY <3>1, <3>2
  <2>3. Grows(plts, plts') /\ sl \in Nat /\ sl < Len(plts') /\ plts'[sl + 1] = di
    <3> HIDE DEF di
    <3>1. /\ Len(plts) \in Nat /\ Grows(plts, plts) /\ Grows(plts, Append(plts, di))
          /\ Len(Append(plts, di)) = Len(plts) + 1 /\ Append(plts, di)[Len(plts) + 1] = di
      BY <1>2, SeqFacts
    <3>2. CASE known = {}
      <4>1. plts' = Append(plts, di) /\ sl = Len(plts)
        BY <2>1, <3>2
      <4> QED BY <3>1, <4>1
    <3>3. CASE known # {}
      <4>1. Min(known) \in known
        BY <3>3, MinOf
      <4>2. Min(known) \in 1 .. Len(plts) /\ plts[Min(known)] = di
        BY <4>1
      <4>3. plts' = plts /\ sl = Min(known) - 1
        BY <2>1, <3>3
      <4> HIDE DEF known, sl
      <4>4. sl \in Nat /\ sl < Len(plts) /\ sl + 1 = Min(known)
        BY <3>1, <4>2, <4>3
      <4> QED BY <3>1, <4>2, <4>3, <4>4
    <3> QED BY <3>2, <3>3
  <2>4. Sym = Rels[r].sym.id /\ Rels' = Rels
    BY <1>2, LayoutFixed DEF Sym, Rela
  <2> HIDE DEF w, di, known, sl
  <2>5. di \in Nat
    BY <2>2
  <2>6. ASSUME NEW n, n = r, NEW fx, fx = fx0
        PROVE  Waits(n, fx)'
    <3>1. fx.rel = n /\ fx.P = At(n)' /\ fx.slot = sl /\ fx.kind = "plt"
      BY <1>2, <2>6, RelsFixed
    <3>2. Named(plts[fx.slot + 1] + 1, Rels[n].sym.id)'
      BY <2>1, <2>2, <2>3, <2>4, <2>6, <3>1 DEF Named
    <3>3. ~ImportedBy(n, "GOT")'
      BY <1>2, <2>6, RelsFixed DEF ImportedBy
    <3> QED BY <2>3, <2>5, <3>1, <3>2, <3>3 DEF Waits
  <2>7. \E n, fx : /\ n = r /\ fixups' = Append(fixups, fx) /\ fx.rel = n /\ n \in Live
                   /\ Rels[n].type = "GOT" \/ ImportedBy(n, "PLT32")
                   /\ ImportedBy(n, "PLT32") \/ ImportedBy(n, "GOT") => Waits(n, fx)'
    BY <1>2, <1>4, <2>1, <2>6 DEF ImportedBy
  <2>8. Grows(dsyms, dsyms')
    BY <2>1, <2>2
  <2> QED BY <1>1, <1>2, <1>4, <2>1, <2>3, <2>7, <2>8, ScanKeeps
<1> QED BY <1>3, <1>4

LEMMA ScanGotInv ==
    ASSUME StaticInv, DynInv, ScanGot
    PROVE  DynInv'
<1>1. Scanned("GOT") /\ UNCHANGED <<patch, plts, rdyn>>
  BY DEF ScanGot
<1>2. /\ UNCHANGED layoutVars /\ pc = "scan" /\ pc' = "scan" /\ r <= Len(Rels) /\ r' = r + 1
      /\ r \in Live /\ Rels[r].type = "GOT" /\ P = At(r)
      /\ IsSeq(dsyms) /\ IsSeq(gots) /\ Grows(dsyms, dsyms)
      /\ Grows(plts, plts')
  BY <1>1, Scanning
<1>3. CASE Internal(Rels[r].sym)
  <2> DEFINE fx0 == [rel |-> r, P |-> P, kind |-> "got", slot |-> Len(gots)]
  <2>1. /\ gots' = Append(gots, [import |-> FALSE, di |-> 0, target |-> S])
        /\ fixups' = Append(fixups, fx0) /\ dsyms' = dsyms
    BY <1>3 DEF ScanGot, Rela, Defer
  <2>2. Grows(gots, gots') /\ Grows(dsyms, dsyms')
    BY <1>2, <2>1, SeqFacts
  <2>3. ~ImportedBy(r, "PLT32") /\ ~ImportedBy(r, "GOT") /\ fx0.rel = r
    BY <1>2, <1>3 DEF ImportedBy
  <2>4. \E n, fx : /\ n = r /\ fixups' = Append(fixups, fx) /\ fx.rel = n /\ n \in Live
                   /\ Rels[n].type = "GOT" \/ ImportedBy(n, "PLT32")
                   /\ ImportedBy(n, "PLT32") \/ ImportedBy(n, "GOT") => Waits(n, fx)'
    BY <1>2, <2>1, <2>3
  <2> QED BY <1>1, <1>2, <2>2, <2>4, ScanKeeps
<1>4. CASE ~Internal(Rels[r].sym)
  <2> DEFINE w == WithSym(dsyms, Sym)
             di == Position(w, Sym) - 1
             g == [import |-> TRUE, di |-> di, target |-> 0]
             known == {i \in 1 .. Len(gots) : gots[i] = g}
             sl == IF known = {} THEN Len(gots) ELSE Min(known) - 1
             fx0 == [rel |-> r, P |-> P, kind |-> "got", slot |-> sl]
  <2>1. /\ dsyms' = w /\ gots' = (IF known = {} THEN Append(gots, g) ELSE gots)
        /\ fixups' = Append(fixups, fx0)
    BY <1>4 DEF ScanGot, Rela, Defer
  <2>2. Grows(dsyms, w) /\ di + 1 \in 1 .. Len(w) /\ w[di + 1].name = Sym /\ di \in Int
        /\ Len(w) \in Nat
    <3>1. /\ Grows(dsyms, w) /\ Position(w, Sym) \in 1 .. Len(w) /\ w[Position(w, Sym)].name = Sym
          /\ Len(w) \in Nat
      BY <1>2, WithSymFacts, SeqFacts DEF Grows
    <3> HIDE DEF w
    <3>2. di + 1 = Position(w, Sym) /\ di \in Int
      BY <3>1
    <3> QED BY <3>1, <3>2
  <2>g. g.import /\ g.di = di
    OBVIOUS
  <2>3. Grows(gots, gots') /\ sl \in Nat /\ sl < Len(gots') /\ gots'[sl + 1] = g
    <3> HIDE DEF g
    <3>1. /\ Len(gots) \in Nat /\ Grows(gots, gots) /\ Grows(gots, Append(gots, g))
          /\ Len(Append(gots, g)) = Len(gots) + 1 /\ Append(gots, g)[Len(gots) + 1] = g
      BY <1>2, SeqFacts
    <3>2. CASE known = {}
      <4>1. gots' = Append(gots, g) /\ sl = Len(gots)
        BY <2>1, <3>2
      <4> QED BY <3>1, <4>1
    <3>3. CASE known # {}
      <4>1. Min(known) \in known
        BY <3>3, MinOf
      <4>2. Min(known) \in 1 .. Len(gots) /\ gots[Min(known)] = g
        BY <4>1
      <4>3. gots' = gots /\ sl = Min(known) - 1
        BY <2>1, <3>3
      <4> HIDE DEF known, sl
      <4>4. sl \in Nat /\ sl < Len(gots) /\ sl + 1 = Min(known)
        BY <3>1, <4>2, <4>3
      <4> QED BY <3>1, <4>2, <4>3, <4>4
    <3> QED BY <3>2, <3>3
  <2>4. Sym = Rels[r].sym.id /\ Rels' = Rels
    BY <1>2, LayoutFixed DEF Sym, Rela
  <2> HIDE DEF w, di, g, known, sl
  <2>5. di \in Nat
    BY <2>2
  <2>6. ASSUME NEW n, n = r, NEW fx, fx = fx0
        PROVE  Waits(n, fx)'
    <3>1. fx.rel = n /\ fx.P = At(n)' /\ fx.slot = sl /\ fx.kind = "got"
      BY <1>2, <2>6, RelsFixed
    <3>2. Named(gots[fx.slot + 1].di + 1, Rels[n].sym.id)'
      BY <2>g, <2>1, <2>2, <2>3, <2>4, <2>6, <3>1 DEF Named
    <3>3. ~ImportedBy(n, "PLT32")'
      BY <1>2, <2>6, RelsFixed DEF ImportedBy
    <3> QED BY <2>g, <2>3, <2>5, <3>1, <3>2, <3>3 DEF Waits
  <2>7. \E n, fx : /\ n = r /\ fixups' = Append(fixups, fx) /\ fx.rel = n /\ n \in Live
                   /\ Rels[n].type = "GOT" \/ ImportedBy(n, "PLT32")
                   /\ ImportedBy(n, "PLT32") \/ ImportedBy(n, "GOT") => Waits(n, fx)'
    BY <1>2, <2>1, <2>6
  <2>8. Grows(dsyms, dsyms')
    BY <2>1, <2>2
  <2> QED BY <1>1, <1>2, <2>1, <2>3, <2>7, <2>8, ScanKeeps
<1> QED BY <1>3, <1>4

-----------------------------------------------------------------------------
(* After the walk                                                          *)

\* What the later steps have to show.
LEMMA LaterKeeps ==
    ASSUME StaticInv, DynInv, pc \in DynPhases, UNCHANGED layoutVars,
           UNCHANGED <<r, gots, plts, rdyn, fixups>>, DOMAIN patch' = DOMAIN patch,
           IsSeq(dsyms'), Len(dsyms) <= Len(dsyms'),
           \A d \in 1 .. Len(dsyms) : dsyms'[d].name = dsyms[d].name,
           pc' # "layout", pc' \in {"scan", "failed"} \/ r > Len(Rels),
           Direct', Synthesized', Fixed'
    PROVE  DynInv'
<1>1. /\ link.mode # "static" /\ Len(Rels) \in Nat
      /\ DynTypeOK /\ OnlyImports /\ OneFixup /\ Deferred /\ DataFields
  BY DynStart
<1>2. link' = link /\ Rels' = Rels
  BY LayoutFixed
<1>3. DynTypeOK'
  BY <1>1, <1>2 DEF DynTypeOK
<1>4. Walk'
  BY <1>2 DEF Walk
<1>5. OnlyImports' /\ OneFixup' /\ DataFields'
  BY <1>1, <1>2, RelsFixed DEF OnlyImports, OneFixup, DataFields
<1>6. \A i, fx : Waits(i, fx) => Waits(i, fx)'
  <2>1. Len(dsyms') \in Nat /\ Grows(plts, plts') /\ Grows(gots, gots')
    BY <1>1, SeqFacts DEF DynTypeOK
  <2> QED BY <1>1, <2>1, WaitsStay
<1>7. Deferred'
  <2> SUFFICES ASSUME NEW i \in Live, i < r, ImportedBy(i, "PLT32") \/ ImportedBy(i, "GOT")
               PROVE  \E fx \in ToSet(fixups) : Waits(i, fx)'
    BY RelsFixed DEF Deferred
  <2>1. \E fx \in ToSet(fixups) : Waits(i, fx)
    BY <1>1 DEF Deferred
  <2> QED BY <1>6, <2>1
<1> QED BY <1>3, <1>4, <1>5, <1>7 DEF DynInv

LEMMA DirectStays ==
    ASSUME Direct, UNCHANGED layoutVars, r' = r, patch' = patch
    PROVE  Direct'
BY LayoutFixed, RelsFixed DEF Direct

LEMMA ExportInv ==
    ASSUME StaticInv, DynInv, Export \/ Listed \/ ScanFails \/ DoubleBuckets
    PROVE  DynInv'
<1>1. /\ UNCHANGED layoutVars /\ UNCHANGED <<r, patch, gots, plts, rdyn, fixups>>
      /\ pc \in {"scan", "synth"} /\ pc' \in {"scan", "synth", "failed"}
      /\ pc' = "synth" => pc = "synth" \/ r > Len(Rels)
  BY DEF Export, Listed, ScanFails, DoubleBuckets
<1>2. DynTypeOK /\ Direct /\ pc \in DynPhases /\ (pc = "synth" => r > Len(Rels))
  BY <1>1, DynStart DEF DynPhases, Walk
<1>3. Grows(dsyms, dsyms')
  <2>1. Grows(dsyms, dsyms) /\ \A e : Grows(dsyms, Append(dsyms, e))
    BY <1>2, SeqFacts DEF DynTypeOK
  <2>2. dsyms' = dsyms \/ \E e : dsyms' = Append(dsyms, e)
    BY DEF Export, Listed, ScanFails, DoubleBuckets
  <2> QED BY <2>1, <2>2
<1>4. Direct' /\ Synthesized' /\ Fixed'
  BY <1>1, <1>2, DirectStays DEF Synthesized, Fixed, DynDone
<1>5. IsSeq(dsyms') /\ Len(dsyms) <= Len(dsyms')
      /\ \A d \in 1 .. Len(dsyms) : dsyms'[d].name = dsyms[d].name
  BY <1>3 DEF Grows
<1> QED BY <1>1, <1>2, <1>4, <1>5, LaterKeeps

LEMMA LongerFacts ==
    ASSUME NEW a \in Nat, NEW b \in Nat
    PROVE  Longer(a, b) \in Nat /\ a <= Longer(a, b) /\ b <= Longer(a, b)
BY DEF Longer

\* There is a bucket.
Buckets == nbucket \in Nat \ {0}

LEMMA BucketsKept == Buckets /\ DynStep => Buckets'
BY DEF Buckets, DynStep, ScanPc32, ScanPlt32, ScanGot, ScanR64, Scanned, SkipDiscarded, ScanFails,
   Export, Listed, DoubleBuckets, Synthesize, FillExports, ApplyFixups, DynFindEntry,
   DynEntryMissing, PushHash, StartEmit, EmitAt, DynWriteFile, hashVars

LEMMA SynthesizeInv ==
    ASSUME StaticInv, DynInv, Buckets, Synthesize
    PROVE  DynInv'
<1>1. /\ UNCHANGED layoutVars /\ UNCHANGED <<r, patch, gots, plts, rdyn, fixups, dsyms>>
      /\ pc = "synth" /\ pc' = "fill"
  BY DEF Synthesize
<1>2. DynTypeOK /\ Direct /\ pc \in DynPhases /\ r > Len(Rels) /\ LayoutTypeOK
  BY <1>1, DynStart DEF DynPhases, Walk, LInv
<1>3. /\ meta'.plt \in Nat /\ meta'.hash \in Nat /\ meta'.hashSize \in Nat
      /\ meta'.dynsym \in Nat /\ meta'.dynstr \in Nat /\ meta'.reladyn \in Nat
      /\ meta'.got \in Nat /\ meta'.delta \in Nat /\ meta'.delta % Page = 0
      /\ OutEnd(TEXT) <= meta'.plt /\ OutEnd(RODATA) <= meta'.hash
      /\ meta'.hash + meta'.hashSize <= meta'.dynsym
      /\ meta'.dynstr = meta'.dynsym + Total * SymEnt
      /\ meta'.dynstr + StrSize <= meta'.reladyn
      /\ meta'.relaplt = meta'.reladyn + (Len(rdyn) + Len(gots)) * RelaEnt
      /\ OutEnd(BSS) + meta'.delta <= meta'.got
      /\ meta'.gotplt = meta'.got + Len(gots) * GotEnt
      /\ meta'.dynamic = meta'.gotplt + Len(plts) * GotEnt
  <2>1. /\ Len(dsyms) \in Nat /\ Len(plts) \in Nat /\ Len(rdyn) \in Nat /\ Len(gots) \in Nat
    BY <1>2, SeqFacts DEF DynTypeOK
  <2>2. OutEnd(TEXT) \in Nat /\ OutEnd(RODATA) \in Nat /\ OutEnd(BSS) \in Nat /\ outVa[DATA] \in Nat
    <3>1. TEXT \in Slots /\ RODATA \in Slots /\ DATA \in Slots /\ BSS \in Slots
      BY DEF Slots, TEXT, RODATA, DATA, BSS
    <3>2. \A s \in Slots : outVa[s] \in Nat /\ outSize[s] \in Nat
      BY <1>2 DEF LayoutTypeOK
    <3> QED BY <3>1, <3>2 DEF OutEnd
  <2>3. Page \in Nat \ {0} /\ StrSize \in Nat /\ 16 \in Nat \ {0} /\ 8 \in Nat \ {0}
    BY PageAssumption, ReserveAssumption
  <2> DEFINE total == Total
             pltVa == AlignUp(OutEnd(TEXT), 16)
             a1 == AlignUp(pltVa + Len(plts) * PltEnt, Page)
             a2 == AlignUp(OutEnd(RODATA), Page)
             rOff == Longer(a1, a2)
             hashSize == (2 + nbucket + total) * HashWord
             dynsym == AlignUp(rOff + hashSize, 8)
             dynstr == dynsym + total * SymEnt
             reladyn == AlignUp(dynstr + StrSize, 8)
             re == reladyn + (Len(rdyn) + Len(plts)) * RelaEnt
  <2>4. pltVa \in Nat /\ OutEnd(TEXT) <= pltVa
    BY <2>2, <2>3, AlignUpFacts
  <2>5. rOff \in Nat /\ OutEnd(RODATA) <= rOff
    <3>1. pltVa + Len(plts) * PltEnt \in Nat
      BY <2>1, <2>4 DEF PltEnt
    <3> HIDE DEF pltVa
    <3>2. a1 \in Nat /\ a2 \in Nat /\ OutEnd(RODATA) <= a2
      BY <2>2, <2>3, <3>1, AlignUpFacts
    <3>3. rOff \in Nat /\ a2 <= rOff
      BY <3>2, LongerFacts
    <3> HIDE DEF a2, rOff
    <3> QED BY <2>2, <3>2, <3>3
  <2>6. hashSize \in Nat /\ rOff + hashSize \in Nat
    <3>1. nbucket \in Nat /\ total \in Nat
      BY <2>1 DEF Buckets, Total
    <3> HIDE DEF rOff, total
    <3> QED BY <2>5, <3>1 DEF HashWord
  <2>7. dynsym \in Nat /\ rOff + hashSize <= dynsym
    <3> HIDE DEF rOff, hashSize
    <3> QED BY <2>3, <2>6, AlignUpFacts
  <2>8. dynstr \in Nat /\ dynstr + StrSize \in Nat
    <3> HIDE DEF dynsym
    <3> QED BY <2>1, <2>3, <2>7 DEF SymEnt, Total
  <2>9. reladyn \in Nat /\ dynstr + StrSize <= reladyn
    <3> HIDE DEF dynstr
    <3> QED BY <2>3, <2>8, AlignUpFacts
  <2>10. re \in Nat
    <3> HIDE DEF reladyn
    <3> QED BY <2>1, <2>9 DEF RelaEnt
  <2>11. /\ SynthR.plt = pltVa /\ SynthR.regionEnd = re /\ SynthR.hash = rOff
         /\ SynthR.hashSize = hashSize /\ SynthR.dynsym = dynsym /\ SynthR.dynstr = dynstr
         /\ SynthR.reladyn = reladyn
    BY DEF SynthR
  <2>e. dynstr = dynsym + Total * SymEnt
    OBVIOUS
  <2> HIDE DEF re, pltVa, rOff, hashSize, dynsym, dynstr, reladyn
  <2> DEFINE delta == Shift(SynthR)
             floor == Longer(SynthR.regionEnd, OutEnd(BSS) + delta)
             got == AlignUp(floor, Page)
  <2>12. delta \in Nat /\ delta % Page = 0
    <3>1. CASE outVa[DATA] < re
      <4>1. re - outVa[DATA] \in Nat
        BY <2>2, <2>10, <3>1
      <4> QED BY <2>3, <2>11, <3>1, <4>1, AlignUpFacts DEF Shift
    <3>2. CASE ~(outVa[DATA] < re)
      BY <2>3, <2>11, <3>2 DEF Shift
    <3> QED BY <3>1, <3>2
  <2>13. /\ meta'.plt = SynthR.plt /\ meta'.got = got /\ meta'.delta = delta
         /\ meta'.gotplt = got + Len(gots) * GotEnt
         /\ meta'.dynamic = meta'.gotplt + Len(plts) * GotEnt
         /\ meta'.hash = SynthR.hash /\ meta'.hashSize = SynthR.hashSize
         /\ meta'.dynsym = SynthR.dynsym /\ meta'.dynstr = SynthR.dynstr
         /\ meta'.reladyn = SynthR.reladyn
         /\ meta'.relaplt = meta'.reladyn + (Len(rdyn) + Len(gots)) * RelaEnt
    BY DEF Synthesize
  <2> HIDE DEF delta
  <2>14. floor \in Nat /\ OutEnd(BSS) + delta <= floor
    <3>1. SynthR.regionEnd \in Nat /\ OutEnd(BSS) + delta \in Nat
      BY <2>2, <2>10, <2>11, <2>12
    <3> QED BY <3>1, LongerFacts
  <2>15. got \in Nat /\ floor <= got
    <3> HIDE DEF floor
    <3> QED BY <2>3, <2>14, AlignUpFacts
  <2> HIDE DEF floor, got
  <2>16. OutEnd(BSS) + delta <= got
    BY <2>2, <2>12, <2>14, <2>15
  <2> QED BY <2>e, <2>4, <2>5, <2>6, <2>7, <2>8, <2>9, <2>11, <2>12, <2>13, <2>15, <2>16
<1>4. Direct' /\ Fixed'
  BY <1>1, <1>2, DirectStays DEF Fixed, DynDone
<1>5. Synthesized'
  BY <1>1, <1>3, RelsFixed DEF Synthesized, Total
<1>6. IsSeq(dsyms') /\ Len(dsyms) <= Len(dsyms')
      /\ \A d \in 1 .. Len(dsyms) : dsyms'[d].name = dsyms[d].name
  BY <1>1, <1>2, SeqFacts DEF DynTypeOK
<1> QED BY <1>1, <1>2, <1>4, <1>5, <1>6, LaterKeeps

LEMMA TabulatedSeq ==
    ASSUME NEW n \in Nat, NEW f, f = [i \in 1 .. n |-> f[i]]
    PROVE  IsSeq(f) /\ Len(f) = n /\ DOMAIN f = 1 .. n
<1> DEFINE T == {f[i] : i \in 1 .. n}
<1>1. f \in [1 .. n -> T]
  OBVIOUS
<1>2. f \in Seq(T)
  BY <1>1
<1>3. DOMAIN f = 1 .. n /\ DOMAIN f = 1 .. Len(f) /\ Len(f) \in Nat
  BY <1>1, <1>2
<1>4. Len(f) = n
  BY <1>3
<1> QED BY <1>2, <1>3, <1>4 DEF IsSeq

\* The dynamic symbols are records with a name and a value.
Records == \A d \in 1 .. Len(dsyms) : {"name", "value"} \subseteq DOMAIN dsyms[d]

LEMMA Filled ==
    ASSUME IsSeq(dsyms), Records, FillExports
    PROVE  /\ IsSeq(dsyms') /\ Len(dsyms') = Len(dsyms)
           /\ \A d \in 1 .. Len(dsyms) :
                dsyms'[d].name = dsyms[d].name /\ DOMAIN dsyms'[d] = DOMAIN dsyms[d]
<1> DEFINE v(i) == ShiftedAddr((CHOOSE x \in ToSet(exps) : x.pos = i).sym)
           e(i) == IF \E x \in ToSet(exps) : x.pos = i
                   THEN [dsyms[i] EXCEPT !.value = v(i)] ELSE dsyms[i]
<1>1. dsyms' = [i \in 1 .. Len(dsyms) |-> e(i)] /\ Len(dsyms) \in Nat
  BY SeqFacts DEF FillExports
<1>2. \A i \in 1 .. Len(dsyms) : e(i).name = dsyms[i].name /\ DOMAIN e(i) = DOMAIN dsyms[i]
  <2> HIDE DEF v
  <2> TAKE i \in 1 .. Len(dsyms)
  <2>1. "name" \in DOMAIN dsyms[i] /\ "name" # "value"
    BY DEF Records
  <2> QED BY <2>1
<1> HIDE DEF e
<1>3. dsyms' = [i \in 1 .. Len(dsyms) |-> dsyms'[i]]
  BY <1>1
<1>4. IsSeq(dsyms') /\ Len(dsyms') = Len(dsyms)
  BY <1>1, <1>3, TabulatedSeq
<1> QED BY <1>1, <1>2, <1>4

LEMMA RecordsKept ==
    ASSUME IsSeq(dsyms), Records, DynStep
    PROVE  Records'
<1>0. Len(dsyms) \in Nat
  BY SeqFacts
<1>1. CASE dsyms' = dsyms
  BY <1>1 DEF Records
<1>2. CASE \E n : dsyms' = Append(dsyms, DynSym(n))
  <2>1. PICK n : dsyms' = Append(dsyms, DynSym(n))
    BY <1>2
  <2>2. /\ Len(dsyms') = Len(dsyms) + 1 /\ dsyms'[Len(dsyms) + 1] = DynSym(n)
        /\ \A i \in 1 .. Len(dsyms) : dsyms'[i] = dsyms[i]
    BY <2>1, SeqFacts DEF Grows
  <2>3. \A i \in 1 .. Len(dsyms') : i \in 1 .. Len(dsyms) \/ i = Len(dsyms) + 1
    BY <1>0, <2>2
  <2>4. {"name", "value"} \subseteq DOMAIN DynSym(n)
    BY DEF DynSym
  <2> QED BY <2>2, <2>3, <2>4 DEF Records
<1>3. CASE FillExports
  BY <1>3, Filled DEF Records
<1>4. \/ dsyms' = dsyms
      \/ \E n : dsyms' = Append(dsyms, DynSym(n))
      \/ FillExports
  BY DEF DynStep, ScanPc32, ScanPlt32, ScanGot, ScanR64, SkipDiscarded, ScanFails,
     Export, Listed, DoubleBuckets, Synthesize, ApplyFixups, DynFindEntry, DynEntryMissing,
     PushHash, StartEmit, EmitAt, DynWriteFile, WithSym
<1> QED BY <1>1, <1>2, <1>3, <1>4

LEMMA FillExportsInv ==
    ASSUME StaticInv, DynInv, Records, FillExports
    PROVE  DynInv'
<1>1. /\ UNCHANGED layoutVars /\ UNCHANGED <<r, patch, gots, plts, rdyn, fixups, meta>>
      /\ pc = "fill" /\ pc' = "fix"
  BY DEF FillExports
<1>2. DynTypeOK /\ Direct /\ pc \in DynPhases /\ r > Len(Rels) /\ Synthesized
  BY <1>1, DynStart DEF DynPhases, Walk
<1>3. /\ IsSeq(dsyms') /\ Len(dsyms') = Len(dsyms) /\ Len(dsyms) \in Nat
      /\ \A d \in 1 .. Len(dsyms) : dsyms'[d].name = dsyms[d].name
  BY <1>2, Filled, SeqFacts DEF DynTypeOK
<1>4. Direct' /\ Fixed'
  BY <1>1, <1>2, DirectStays DEF Fixed, DynDone
<1>5. Synthesized'
  <2>2. Total' = Total
    BY <1>3 DEF Total
  <2>3. \A s : OutEnd(s)' = OutEnd(s)
    BY <1>1, RelsFixed
  <2> QED BY <1>1, <1>2, <2>2, <2>3 DEF Synthesized
<1>6. Len(dsyms) <= Len(dsyms')
  BY <1>3
<1> QED BY <1>1, <1>2, <1>3, <1>4, <1>5, <1>6, LaterKeeps

LEMMA ApplyFixupsInv ==
    ASSUME StaticInv, DynInv, ApplyFixups
    PROVE  DynInv'
<1>1. /\ UNCHANGED layoutVars /\ UNCHANGED <<r, dsyms, gots, plts, rdyn, fixups, meta>>
      /\ pc = "fix" /\ pc' = "dynentry"
  BY DEF ApplyFixups
<1>2. /\ DynTypeOK /\ Direct /\ pc \in DynPhases /\ r > Len(Rels) /\ Synthesized
      /\ OnlyImports /\ OneFixup
  BY <1>1, DynStart DEF DynPhases, Walk
<1>3. Live \subseteq 1 .. Len(Rels)
  BY DEF Live
<1> DEFINE val(i) == LET fx == CHOOSE fx \in ToSet(fixups) : fx.rel = i
                     IN (SlotVa(fx) + Rels[i].add - fx.P) % Wrap
<1>4. patch' = [i \in 1 .. Len(Rels) |->
                   IF \E fx \in ToSet(fixups) : fx.rel = i THEN val(i) ELSE patch[i]]
  BY DEF ApplyFixups
<1>5. ASSUME NEW fx \in ToSet(fixups)
      PROVE  fx.rel \in 1 .. Len(Rels) /\ val(fx.rel) = (SlotVa(fx) + Rels[fx.rel].add - fx.P) % Wrap
  <2>1. fx.rel \in 1 .. Len(Rels)
    BY <1>2, <1>3 DEF OnlyImports
  <2>2. (CHOOSE gx \in ToSet(fixups) : gx.rel = fx.rel) = fx
    BY <1>2 DEF OneFixup
  <2> QED BY <2>1, <2>2
<1> HIDE DEF val
<1>6. \A fx : SlotVa(fx)' = SlotVa(fx)
  BY <1>1 DEF SlotVa
<1>7. Fixed'
  <2> SUFFICES ASSUME NEW fx \in ToSet(fixups)
               PROVE  patch'[fx.rel] = (SlotVa(fx) + Rels[fx.rel].add - fx.P) % Wrap
    BY <1>1, <1>6, LayoutFixed DEF Fixed
  <2> QED BY <1>4, <1>5
<1>8. Direct'
  <2> SUFFICES ASSUME NEW i \in Live, i < r,
                      Rels[i].type = "PC32" \/ (Rels[i].type = "PLT32" /\ Internal(Rels[i].sym))
               PROVE  patch'[i] = (SymAddr(Rels[i].sym) + Rels[i].add - At(i)) % Wrap
    BY <1>1, LayoutFixed, RelsFixed DEF Direct
  <2>1. ~\E fx \in ToSet(fixups) : fx.rel = i
    BY <1>2 DEF OnlyImports, ImportedBy
  <2>2. patch'[i] = patch[i]
    BY <1>3, <1>4, <2>1
  <2> QED BY <1>2, <2>2 DEF Direct
<1>9. Synthesized'
  BY <1>1, <1>2, RelsFixed DEF Synthesized, Total
<1>10. DOMAIN patch' = DOMAIN patch
  BY <1>2, <1>4 DEF DynTypeOK
<1>11. IsSeq(dsyms') /\ Len(dsyms) <= Len(dsyms')
       /\ \A d \in 1 .. Len(dsyms) : dsyms'[d].name = dsyms[d].name
  BY <1>1, <1>2, SeqFacts DEF DynTypeOK
<1> QED BY <1>1, <1>2, <1>7, <1>8, <1>9, <1>10, <1>11, LaterKeeps

LEMMA DynEmitInv ==
    ASSUME StaticInv, DynInv,
           DynFindEntry \/ DynEntryMissing \/ PushHash \/ StartEmit \/ EmitAt \/ DynWriteFile
    PROVE  DynInv'
<1>1. /\ UNCHANGED layoutVars /\ UNCHANGED <<r, patch, dsyms, gots, plts, rdyn, fixups, meta>>
      /\ pc \in {"dynentry", "hash", "dynemit"} /\ pc' \in {"hash", "dynemit", "failed", "done"}
  BY DEF DynFindEntry, DynEntryMissing, PushHash, StartEmit, EmitAt, DynWriteFile
<1>2. /\ DynTypeOK /\ Direct /\ pc \in DynPhases /\ r > Len(Rels) /\ Synthesized /\ Fixed
  BY <1>1, DynStart DEF DynPhases, Walk
<1>3. Direct'
  BY <1>1, <1>2, DirectStays
<1>4. Synthesized'
  BY <1>1, <1>2, RelsFixed DEF Synthesized, Total, DynDone
<1>5. Fixed'
  <2>1. \A fx : SlotVa(fx)' = SlotVa(fx)
    BY <1>1 DEF SlotVa
  <2> QED BY <1>1, <1>2, <2>1, LayoutFixed DEF Fixed, DynDone
<1>6. IsSeq(dsyms') /\ Len(dsyms) <= Len(dsyms')
      /\ \A d \in 1 .. Len(dsyms) : dsyms'[d].name = dsyms[d].name
  BY <1>1, <1>2, SeqFacts DEF DynTypeOK
<1> QED BY <1>1, <1>2, <1>3, <1>4, <1>5, <1>6, LaterKeeps

LEMMA DynLayInv ==
    ASSUME StaticInv, DynInv, Lay, UNCHANGED dynVars
    PROVE  DynInv'
<1>1. /\ pc = "layout" /\ UNCHANGED <<r, patch>> /\ link' = link
      /\ UNCHANGED <<dsyms, gots, plts, rdyn, fixups, meta>>
      /\ pc' \in {"layout", "reloc", "scan"}
      /\ pc' = "reloc" => link.mode = "static"
  <2>1. /\ pc = "layout" /\ LayoutNext /\ UNCHANGED <<r, patch>>
        /\ pc' \in {"layout", "reloc", "scan"}
        /\ pc' = "reloc" => link.mode = "static"
    BY DEF Lay
  <2>2. link' = link
    BY <2>1 DEF LayoutNext, OpenSlot, PlaceSection, SkipSection, SectionsPlaced, PlaceCommon,
       CommonsPlaced, CloseSlot
  <2> QED BY <2>1, <2>2 DEF dynVars
<1> SUFFICES ASSUME link.mode # "static"
             PROVE  /\ DynTypeOK' /\ Walk' /\ OnlyImports' /\ OneFixup' /\ Deferred' /\ Direct'
                    /\ DataFields' /\ Synthesized' /\ Fixed'
  BY <1>1 DEF DynInv
<1>2. DynTypeOK /\ r = 1 /\ fixups = << >> /\ rdyn = << >> /\ Rels' = Rels
  BY <1>1 DEF DynInv, Walk, Rels
<1>3. DynTypeOK' /\ Walk'
  BY <1>1, <1>2 DEF DynTypeOK, Walk
<1>4. ToSet(fixups') = {} /\ ToSet(rdyn') = {}
  BY <1>1, <1>2, EmptyTable
<1>5. OnlyImports' /\ OneFixup' /\ DataFields'
  BY <1>4 DEF OnlyImports, OneFixup, DataFields
<1>6. \A i \in Live' : ~(i < r')
  <2>1. link \in Links /\ Len(Rels) \in Nat
    BY RelsAssumption DEF StaticInv, Phase, Rels
  <2>2. Live' \subseteq 1 .. Len(Rels)
    BY <1>2 DEF Live
  <2> QED BY <1>1, <1>2, <2>1, <2>2
<1>7. Deferred' /\ Direct'
  BY <1>6 DEF Deferred, Direct
<1>8. Synthesized' /\ Fixed'
  BY <1>1 DEF Synthesized, Fixed, DynDone
<1> QED BY <1>3, <1>5, <1>7, <1>8

LEMMA DynStutter ==
    ASSUME StaticInv, DynInv, UNCHANGED vars
    PROVE  DynInv'
<1>1. /\ UNCHANGED layoutVars
      /\ UNCHANGED <<pc, r, patch, dsyms, gots, plts, rdyn, fixups, meta>>
  BY DEF vars, linkVars, dynVars
<1>2. link' = link /\ Rels' = Rels
  BY <1>1, LayoutFixed
<1> SUFFICES ASSUME link.mode # "static"
             PROVE  /\ DynTypeOK' /\ Walk' /\ OnlyImports' /\ OneFixup' /\ Deferred' /\ Direct'
                    /\ DataFields' /\ Synthesized' /\ Fixed'
  BY <1>2 DEF DynInv
<1>3. /\ DynTypeOK /\ Walk /\ OnlyImports /\ OneFixup /\ Deferred /\ Direct
      /\ DataFields /\ Synthesized /\ Fixed
  BY DEF DynInv
<1>4. DynTypeOK' /\ Walk' /\ OneFixup'
  BY <1>1, <1>2, <1>3 DEF DynTypeOK, Walk, OneFixup
<1>5. OnlyImports' /\ DataFields' /\ Direct'
  BY <1>1, <1>2, <1>3, RelsFixed, DirectStays DEF OnlyImports, DataFields
<1>6. \A i, fx : Waits(i, fx)' <=> Waits(i, fx)
  BY <1>1, <1>2, RelsFixed DEF Waits, Named
<1>7. Deferred'
  BY <1>1, <1>3, <1>6, RelsFixed DEF Deferred
<1>8. Synthesized'
  BY <1>1, <1>2, <1>3, RelsFixed DEF Synthesized, Total, DynDone
<1>9. Fixed'
  <2>1. \A fx : SlotVa(fx)' = SlotVa(fx)
    BY <1>1 DEF SlotVa
  <2> QED BY <1>1, <1>2, <1>3, <2>1 DEF Fixed, DynDone
<1> QED BY <1>4, <1>5, <1>7, <1>8, <1>9

LEMMA DynStepInv ==
    ASSUME StaticInv, DynInv, Records, Buckets, DynStep
    PROVE  DynInv' /\ Records' /\ Buckets'
<1>1. IsSeq(dsyms)
  BY DynPhase, DynStart DEF DynTypeOK
<1>2. Records'
  BY <1>1, RecordsKept
<1>3. DynInv'
  BY ScanPc32Inv, ScanPlt32Inv, ScanGotInv, ScanR64Inv, SkipDiscardedInv, ExportInv,
     SynthesizeInv, FillExportsInv, ApplyFixupsInv, DynEmitInv DEF DynStep
<1> QED BY <1>2, <1>3, BucketsKept

LEMMA DynInvariant == Spec => [](StaticInv /\ DynInv /\ Records /\ Buckets)
<1>1. Init => DynInv /\ Records /\ Buckets
  <2> SUFFICES ASSUME Init PROVE DynInv /\ Records /\ Buckets
    OBVIOUS
  <2>1. /\ dsyms = << >> /\ gots = << >> /\ plts = << >> /\ rdyn = << >> /\ fixups = << >>
        /\ pc = "layout" /\ r = 1 /\ patch = [i \in 1 .. Len(Rels) |-> 0] /\ link \in Links
    BY DEF Init, LinkInit, LayoutInit, DynInit
  <2>2. DynTypeOK /\ Walk
    BY <2>1, EmptyTable DEF DynTypeOK, Walk
  <2>3. ToSet(fixups) = {} /\ ToSet(rdyn) = {} /\ Len(dsyms) = 0
    BY <2>1, EmptyTable
  <2>4. \A i \in Live : ~(i < r)
    <3>1. Len(Rels) \in Nat
      BY <2>1, RelsAssumption DEF Rels
    <3>2. Live \subseteq 1 .. Len(Rels)
      BY DEF Live
    <3> QED BY <2>1, <3>1, <3>2
  <2>5. OnlyImports /\ OneFixup /\ DataFields /\ Deferred /\ Direct
    BY <2>3, <2>4 DEF OnlyImports, OneFixup, DataFields, Deferred, Direct
  <2>6. Synthesized /\ Fixed
    BY <2>1 DEF Synthesized, Fixed, DynDone
  <2>7. Records /\ Buckets
    BY <2>3 DEF Records, Buckets, Init, DynInit
  <2> QED BY <2>2, <2>5, <2>6, <2>7 DEF DynInv
<1>2. StaticInv /\ DynInv /\ Records /\ Buckets /\ [Next]_vars => DynInv' /\ Records' /\ Buckets'
  <2> SUFFICES ASSUME StaticInv, DynInv, Records, Buckets, [Next]_vars
               PROVE  DynInv' /\ Records' /\ Buckets'
    OBVIOUS
  <2>1. CASE Lay /\ UNCHANGED <<staticVars, dynVars>>
    <3>1. dsyms' = dsyms /\ nbucket' = nbucket
      BY <2>1 DEF dynVars, hashVars
    <3> QED BY <2>1, <3>1, DynLayInv DEF Records, Buckets
  <2>2. CASE StaticStep /\ UNCHANGED dynVars
    <3>1. dsyms' = dsyms /\ nbucket' = nbucket
      BY <2>2 DEF dynVars, hashVars
    <3>2. pc \in StaticPhases /\ UNCHANGED layoutVars
      BY <2>2, StaticLeaves DEF StaticStep, Relocate, RelocateFails, Relocated, FindEntry,
         EntryMissing, EmitSlot, EmitSection, EmitNothing, SlotEmitted, WriteFile, StaticPhases
    <3>3. link'.mode = "static"
      BY <3>2, LayoutFixed DEF StaticInv, Phase
    <3> QED BY <3>1, <3>3 DEF DynInv, Records, Buckets
  <2>3. CASE DynStep
    BY <2>3, DynStepInv
  <2>4. CASE UNCHANGED vars
    <3>1. dsyms' = dsyms /\ nbucket' = nbucket
      BY <2>4 DEF vars, dynVars, hashVars
    <3> QED BY <2>4, <3>1, DynStutter DEF Records, Buckets
  <2> QED BY <2>1, <2>2, <2>3, <2>4 DEF Next, Terminated
<1> QED BY <1>1, <1>2, LinkInvariant, PTL DEF Spec

-----------------------------------------------------------------------------
(* References in the finished image                                        *)

\* The relocations of the link are well formed, and their fields can hold
\* the distances.
DynSmall ==
    /\ \A i \in Live :
        /\ Rels[i].sec \in SecIds /\ Rels[i].off < Secs[Rels[i].sec].size
        /\ Rels[i].sym.kind = "sec" => Rels[i].sym.id \in SecIds
        /\ Rels[i].type \in {"PC32", "PLT32"} /\ Rels[i].sym.kind = "sec" =>
            SignedRange(SymAddr(Rels[i].sym) + Rels[i].add - At(i))
    /\ \A fx \in ToSet(fixups) : SignedRange(SlotVa(fx) + Rels[fx.rel].add - fx.P)

LEMMA FinishedImage ==
    ASSUME StaticInv, DynInv, DynDone, DynSmall
    PROVE  /\ DynTypeOK /\ OnlyImports /\ Deferred /\ Direct /\ DataFields /\ Fixed
           /\ meta.plt \in Nat /\ meta.got \in Nat /\ meta.delta \in Nat
           /\ OutEnd(BSS) + meta.delta <= meta.got
           /\ LInv /\ lpc = "laid"
           /\ \A i \in Live : i < r /\ Rels[i] \in Rel /\ Rels[i].add \in Int /\ Rels[i].off \in Nat
<1>1. /\ DynTypeOK /\ Walk /\ OnlyImports /\ Deferred /\ Direct /\ DataFields /\ Fixed
      /\ Synthesized /\ pc = "done"
  BY DEF DynInv, DynDone, DynSmall
<1>2. /\ meta.plt \in Nat /\ meta.got \in Nat /\ meta.delta \in Nat
      /\ OutEnd(BSS) + meta.delta <= meta.got
  BY <1>1 DEF Synthesized
<1>3. LInv /\ lpc = "laid" /\ link \in Links
  BY <1>1 DEF StaticInv, Phase
<1>4. Rels \in Seq(Rel) /\ Len(Rels) \in Nat
  BY <1>3, RelsAssumption DEF Rels
<1>5. r > Len(Rels) /\ r \in Nat /\ Live \subseteq 1 .. Len(Rels)
  BY <1>1 DEF Walk, DynTypeOK, Live
<1>6. \A i \in 1 .. Len(Rels) : i < r /\ Rels[i] \in Rel
  BY <1>4, <1>5
<1>7. \A rel \in Rel : rel.add \in Int /\ rel.off \in Nat
  BY DEF Rel
<1> QED BY <1>1, <1>2, <1>3, <1>5, <1>6, <1>7

\* Fields lie in their sections, below everything the synthesis adds.
LEMMA FieldsBelow ==
    ASSUME StaticInv, DynInv, DynDone, DynSmall, NEW i \in Live
    PROVE  At(i) \in Nat /\ At(i) < meta.got /\ addr[Rels[i].sec] \in Nat
<1>1. /\ LInv /\ lpc = "laid" /\ meta.got \in Nat /\ meta.delta \in Nat
      /\ OutEnd(BSS) + meta.delta <= meta.got /\ Rels[i].off \in Nat
  BY FinishedImage
<1> DEFINE n == Rels[i].sec
           s == Secs[n].slot
<1>2. n \in SecIds /\ Rels[i].off < Secs[n].size /\ s # DISCARD
  BY DEF DynSmall, Live
<1>3. LayoutTypeOK /\ Where /\ Extents
  BY <1>1 DEF LInv
<1>4. addr[n] \in Nat /\ Secs[n].size \in Nat /\ s \in Slots
  BY <1>2, <1>3, Inputs
<1>5. addr[n] + Secs[n].size <= outVa[s] + outSize[s]
  BY <1>1, <1>2, InvFits DEF WithinSlot
<1>6. \A t \in Slots : outVa[t] \in Nat /\ outSize[t] \in Nat
  BY <1>3 DEF LayoutTypeOK
<1>7. outVa[s] + outSize[s] <= OutEnd(BSS)
  <2>1. CASE s = BSS
    BY <1>6, <2>1, SlotNumbers DEF OutEnd
  <2>2. CASE s # BSS
    <3>1. s < BSS
      BY <1>4, <2>2, SlotNumbers
    <3>2. Closed(s) /\ Opened(BSS)
      BY <1>1, <1>3, <1>4, <3>1 DEF Where, Closed, Opened
    <3>3. outVa[s] + outSize[s] <= outVa[BSS]
      BY <1>3, <1>4, <3>1, <3>2, SlotNumbers DEF Extents
    <3> QED BY <1>4, <1>6, <3>3, SlotNumbers DEF OutEnd
  <2> QED BY <2>1, <2>2
<1>8. OutEnd(BSS) \in Nat /\ outVa[s] \in Nat /\ outSize[s] \in Nat
  BY <1>4, <1>6, SlotNumbers DEF OutEnd
<1>9. At(i) = addr[n] + Rels[i].off
  BY DEF At
<1> HIDE DEF n, s
<1> QED BY <1>1, <1>2, <1>4, <1>5, <1>7, <1>8, <1>9 DEF n

\* A field of a section that is not moved leads where its value was made for.
LEMMA FieldLeads ==
    ASSUME StaticInv, DynInv, DynDone, DynSmall, NEW i \in Live,
           ~Writable(Secs[Rels[i].sec].slot),
           NEW v \in Int, SignedRange(v + Rels[i].add - At(i)),
           patch[i] = (v + Rels[i].add - At(i)) % Wrap
    PROVE  FieldTarget(i) = v
<1>1. At(i) \in Nat /\ Rels[i].add \in Int /\ addr[Rels[i].sec] \in Nat /\ Rels[i].off \in Nat
  BY FinishedImage, FieldsBelow
<1>2. v + Rels[i].add - At(i) \in Int
  BY <1>1
<1>3. Signed(patch[i]) = v + Rels[i].add - At(i)
  BY <1>2, FieldValue
<1>4. Place(Rels[i]) = At(i)
  BY <1>1 DEF Place, Va, MovedBy, At
<1>5. FieldTarget(i) = Signed(patch[i]) + At(i) - Rels[i].add
  BY <1>4 DEF FieldTarget
<1> QED BY <1>1, <1>3, <1>5

\* So does a field that waited for its entry.
LEMMA WaitedField ==
    ASSUME StaticInv, DynInv, DynDone, DynSmall, NEW i \in Live,
           ~Writable(Secs[Rels[i].sec].slot), NEW fx \in ToSet(fixups), Waits(i, fx)
    PROVE  FieldTarget(i) = SlotVa(fx) /\ SlotVa(fx) \in Nat
<1>1. fx.rel = i /\ fx.P = At(i) /\ fx.slot \in Nat
  BY DEF Waits
<1>2. meta.plt \in Nat /\ meta.got \in Nat /\ Fixed
  BY FinishedImage
<1>3. SlotVa(fx) \in Nat
  BY <1>1, <1>2 DEF SlotVa, PltEnt, GotEnt
<1>4. patch[i] = (SlotVa(fx) + Rels[i].add - At(i)) % Wrap
  BY <1>1, <1>2 DEF Fixed
<1>5. SignedRange(SlotVa(fx) + Rels[i].add - At(i))
  BY <1>1 DEF DynSmall
<1> QED BY <1>3, <1>4, <1>5, FieldLeads

\* A call of an import leads to the PLT entry of its name.
LEMMA CallEntries ==
    ASSUME StaticInv, DynInv, DynSmall, DynDone, NEW i \in Live, ImportedBy(i, "PLT32"),
           FromUnmoved(i)
    PROVE  \E e \in 1 .. Len(plts) :
              /\ FieldTarget(i) = meta.plt + (e - 1) * PltEnt
              /\ RelaPlt[e].off = meta.gotplt + (e - 1) * GotEnt
              /\ DynName(RelaPlt[e].sym) = Rels[i].sym.id
<1>1. Deferred /\ i < r /\ DynTypeOK /\ meta.plt \in Nat
  BY FinishedImage
<1>2. PICK fx \in ToSet(fixups) : Waits(i, fx)
  BY <1>1 DEF Deferred
<1>3. /\ fx.kind = "plt" /\ fx.slot \in Nat /\ fx.slot < Len(plts) /\ Len(plts) \in Nat
      /\ plts[fx.slot + 1] \in Nat /\ Named(plts[fx.slot + 1] + 1, Rels[i].sym.id)
  BY <1>1, <1>2, SeqFacts DEF Waits, DynTypeOK
<1>4. FieldTarget(i) = meta.plt + fx.slot * PltEnt
  BY <1>2, <1>3, WaitedField DEF SlotVa, FromUnmoved
<1> DEFINE e == fx.slot + 1
<1>5. e \in 1 .. Len(plts) /\ e - 1 = fx.slot
  BY <1>3
<1>6. RelaPlt[e].off = meta.gotplt + (e - 1) * GotEnt /\ RelaPlt[e].sym = plts[e] + 1
  BY <1>5 DEF RelaPlt
<1>7. DynName(RelaPlt[e].sym) = Rels[i].sym.id
  BY <1>3, <1>6 DEF DynName, Named
<1> HIDE DEF e
<1> QED BY <1>4, <1>5, <1>6, <1>7

\* A field between sections that are not moved leads to its definition.
LEMMA ReadOnlyReach ==
    ASSUME StaticInv, DynInv, DynSmall, DynDone, NEW i \in Live,
           Rels[i].type \in {"PC32", "PLT32"}, Rels[i].sym.kind = "sec",
           FromUnmoved(i), ~Writable(Secs[Rels[i].sym.id].slot)
    PROVE  FieldTarget(i) = FinalAddr(Rels[i].sym)
<1> DEFINE y == Rels[i].sym
<1>1. Direct /\ i < r /\ Rels[i] \in Rel /\ LayoutTypeOK
  BY FinishedImage DEF LInv
<1>2. y.id \in SecIds /\ SignedRange(SymAddr(y) + Rels[i].add - At(i))
  BY DEF DynSmall
<1>3. SymAddr(y) \in Int
  <2>1. addr[y.id] \in Nat /\ y.val \in Nat
    BY <1>1, <1>2 DEF LayoutTypeOK, Rel, SymRef
  <2> QED BY <2>1 DEF SymAddr
<1>4. Internal(y)
  BY DEF Internal
<1>5. patch[i] = (SymAddr(y) + Rels[i].add - At(i)) % Wrap
  BY <1>1, <1>4 DEF Direct
<1>6. FieldTarget(i) = SymAddr(y)
  BY <1>2, <1>3, <1>5, FieldLeads DEF FromUnmoved
<1>7. FinalAddr(y) = SymAddr(y)
  BY <1>3 DEF FinalAddr, ShiftedAddr, MovedBy
<1> QED BY <1>6, <1>7

\* .rela.dyn: the data fields, and behind them the GOT slots.
LEMMA RelaDynParts ==
    ASSUME DynTypeOK
    PROVE  /\ Len(RelaDyn) = Len(rdyn) + Len(gots) /\ Len(rdyn) \in Nat /\ Len(gots) \in Nat
           /\ \A j \in 1 .. Len(rdyn) : RelaDyn[j].off = rdyn[j].off
           /\ \A j \in 1 .. Len(gots) :
                LET d == RelaDyn[Len(rdyn) + j] IN
                /\ d.off = meta.got + (j - 1) * GotEnt
                /\ gots[j].import => d.type = "GLOB_DAT" /\ d.sym = gots[j].di + 1
<1> DEFINE a == [i \in 1 .. Len(rdyn) |->
                    [off |-> rdyn[i].off, type |-> rdyn[i].type, sym |-> rdyn[i].sym,
                     add |-> rdyn[i].add]]
           b == [i \in 1 .. Len(gots) |->
                    [off |-> meta.got + (i - 1) * GotEnt,
                     type |-> IF gots[i].import THEN "GLOB_DAT" ELSE "RELATIVE",
                     sym |-> IF gots[i].import THEN gots[i].di + 1 ELSE 0,
                     add |-> gots[i].target]]
<1>1. Len(rdyn) \in Nat /\ Len(gots) \in Nat
  BY SeqFacts DEF DynTypeOK
<1>2. RelaDyn = a \o b
  BY DEF RelaDyn
<1>3. \A j \in 1 .. Len(rdyn) : a[j].off = rdyn[j].off
  OBVIOUS
<1>4. \A j \in 1 .. Len(gots) :
         /\ b[j].off = meta.got + (j - 1) * GotEnt
         /\ gots[j].import => b[j].type = "GLOB_DAT" /\ b[j].sym = gots[j].di + 1
  OBVIOUS
<1>5. a = [i \in 1 .. Len(rdyn) |-> a[i]] /\ b = [i \in 1 .. Len(gots) |-> b[i]]
  OBVIOUS
<1> HIDE DEF a, b
<1>6. IsSeq(a) /\ Len(a) = Len(rdyn) /\ IsSeq(b) /\ Len(b) = Len(gots)
  BY <1>1, <1>5, TabulatedSeq
<1>7. PICK T, U : a \in Seq(T) /\ b \in Seq(U)
  BY <1>6 DEF IsSeq
<1>8. a \in Seq(T \cup U) /\ b \in Seq(T \cup U)
  BY <1>7
<1>9. /\ Len(a \o b) = Len(rdyn) + Len(gots)
      /\ \A j \in 1 .. Len(rdyn) : (a \o b)[j] = a[j]
  BY <1>6, <1>8
<1>10. \A j \in 1 .. Len(gots) : (a \o b)[Len(rdyn) + j] = b[j]
  <2> TAKE j \in 1 .. Len(gots)
  <2>1. /\ Len(rdyn) + j \in 1 .. Len(a) + Len(b) /\ Len(rdyn) + j > Len(a)
        /\ Len(rdyn) + j - Len(a) = j
    BY <1>1, <1>6
  <2> QED BY <1>8, <2>1
<1> QED BY ZenonT(30), <1>1, <1>2, <1>3, <1>4, <1>9, <1>10

\* A GOT read of an import leads to a slot that one relocation fills.
LEMMA GotSlots ==
    ASSUME StaticInv, DynInv, DynSmall, DynDone, NEW i \in Live, ImportedBy(i, "GOT"),
           FromUnmoved(i)
    PROVE  \E s \in 1 .. Len(gots) : \E j \in 1 .. Len(RelaDyn) :
              /\ FieldTarget(i) = meta.got + (s - 1) * GotEnt
              /\ \A m \in 1 .. Len(RelaDyn) : RelaDyn[m].off = FieldTarget(i) <=> m = j
              /\ RelaDyn[j].type = "GLOB_DAT"
              /\ DynName(RelaDyn[j].sym) = Rels[i].sym.id
<1>1. Deferred /\ i < r /\ DynTypeOK /\ meta.got \in Nat /\ DataFields
  BY FinishedImage
<1>2. PICK fx \in ToSet(fixups) : Waits(i, fx)
  BY <1>1 DEF Deferred
<1>3. /\ fx.kind = "got" /\ fx.slot \in Nat /\ fx.slot < Len(gots) /\ gots[fx.slot + 1].import
      /\ gots[fx.slot + 1].di \in Nat /\ Named(gots[fx.slot + 1].di + 1, Rels[i].sym.id)
  BY <1>2 DEF Waits
<1>4. FieldTarget(i) = meta.got + fx.slot * GotEnt
  BY <1>2, <1>3, WaitedField DEF SlotVa, FromUnmoved
<1> DEFINE nd == Len(rdyn)
           ng == Len(gots)
           e == nd + (fx.slot + 1)
<1>5. /\ Len(RelaDyn) = nd + ng /\ nd \in Nat /\ ng \in Nat
      /\ \A j \in 1 .. nd : RelaDyn[j].off = rdyn[j].off
      /\ \A j \in 1 .. ng : RelaDyn[nd + j].off = meta.got + (j - 1) * GotEnt
      /\ \A j \in 1 .. ng : gots[j].import =>
            RelaDyn[nd + j].type = "GLOB_DAT" /\ RelaDyn[nd + j].sym = gots[j].di + 1
  BY <1>1, RelaDynParts
<1>6. \A j \in 1 .. nd : RelaDyn[j].off # FieldTarget(i)
  <2> TAKE j \in 1 .. nd
  <2>1. rdyn[j] \in ToSet(rdyn)
    BY <1>1, SeqFacts DEF DynTypeOK, ToSet
  <2>2. PICK m \in Live : rdyn[j].off = At(m)
    BY <1>1, <2>1 DEF DataFields
  <2>3. At(m) \in Nat /\ At(m) < meta.got
    BY FieldsBelow
  <2> QED BY SMTT(30), <1>1, <1>3, <1>4, <1>5, <2>2, <2>3 DEF GotEnt
<1>7. \A j \in 1 .. ng : RelaDyn[nd + j].off = FieldTarget(i) <=> j = fx.slot + 1
  <2> TAKE j \in 1 .. ng
  <2>1. RelaDyn[nd + j].off = meta.got + (j - 1) * 8 /\ FieldTarget(i) = meta.got + fx.slot * 8
    BY <1>4, <1>5 DEF GotEnt
  <2>2. j \in Nat /\ fx.slot \in Nat /\ meta.got \in Nat
    BY <1>1, <1>3, <1>5
  <2>3. meta.got + (j - 1) * 8 = meta.got + fx.slot * 8 <=> j = fx.slot + 1
    BY <2>2
  <2> QED BY <2>1, <2>3
<1>8. fx.slot + 1 \in 1 .. ng /\ e \in 1 .. nd + ng
  BY SMTT(30), <1>3, <1>5
<1>9. \A j \in 1 .. nd + ng : j \in 1 .. nd \/ \E m \in 1 .. ng : j = nd + m
  <2> TAKE j \in 1 .. nd + ng
  <2>1. j > nd => j - nd \in 1 .. ng /\ j = nd + (j - nd)
    BY <1>5
  <2>2. j > nd \/ j \in 1 .. nd
    BY <1>5
  <2> QED BY <2>1, <2>2, Zenon
<1>10. \A j \in 1 .. Len(RelaDyn) : RelaDyn[j].off = FieldTarget(i) <=> j = e
  BY SMTT(30), <1>5, <1>6, <1>7, <1>8, <1>9
<1>11. RelaDyn[e].type = "GLOB_DAT" /\ RelaDyn[e].sym = gots[fx.slot + 1].di + 1
  BY <1>3, <1>5, <1>8
<1>12. DynName(RelaDyn[e].sym) = Rels[i].sym.id
  BY <1>3, <1>11 DEF DynName, Named
<1> HIDE DEF e
<1> DEFINE s == fx.slot + 1
<1>13. e \in 1 .. Len(RelaDyn) /\ s \in 1 .. Len(gots) /\ s - 1 = fx.slot
  BY <1>3, <1>5, <1>8
<1> HIDE DEF s
<1>14. FieldTarget(i) = meta.got + (s - 1) * GotEnt
  BY <1>4, <1>13
<1> QED BY <1>10, <1>11, <1>12, <1>13, <1>14

-----------------------------------------------------------------------------
(* The exported names                                                      *)

\* The exports are at places of their own in .dynsym, and from the fill on
\* have their values.
Exporting ==
    /\ xi \in Nat \ {0} /\ IsSeq(exps)
    /\ \A x \in ToSet(exps) :
        x.pos \in 1 .. Len(dsyms) /\ \E n \in 1 .. Len(link.exports) : x.sym = link.exports[n].sym
    /\ \A x, y \in ToSet(exps) : x.pos = y.pos => x = y
Valued ==
    pc \in {"fix", "dynentry", "hash", "dynemit"} \/ DynDone =>
        \A x \in ToSet(exps) : dsyms[x.pos].value = ShiftedAddr(x.sym)

LEMMA ShiftedStays ==
    ASSUME UNCHANGED layoutVars, meta' = meta
    PROVE  \A y : ShiftedAddr(y)' = ShiftedAddr(y)
<1>1. \A y : SymAddr(y)' = SymAddr(y)
  BY RelsFixed
<1>2. \A s : MovedBy(s)' = MovedBy(s) /\ Secs' = Secs
  BY LayoutFixed DEF MovedBy, Secs
<1> QED BY <1>1, <1>2 DEF ShiftedAddr

\* One more definition listed.
LEMMA ExportLists ==
    ASSUME IsSeq(dsyms), link' = link, Exporting, Export
    PROVE  Exporting'
<1>1. /\ xi \in Nat \ {0} /\ xi' = xi + 1 /\ IsSeq(exps) /\ Len(dsyms) \in Nat
      /\ xi <= Len(link.exports)
  BY SeqFacts DEF Exporting, Export
<1>2. CASE dsyms' = dsyms /\ exps' = exps
  BY <1>1, <1>2 DEF Exporting
<1>3. CASE Position(dsyms, link.exports[xi].name) = 0
  <2> DEFINE x == link.exports[xi]
             e == [pos |-> Len(dsyms) + 1, sym |-> x.sym]
  <2>1. dsyms' = Append(dsyms, DynSym(x.name)) /\ exps' = Append(exps, e)
    BY <1>3 DEF Export
  <2>2. Len(dsyms') = Len(dsyms) + 1
    BY <2>1, SeqFacts
  <2>3. ToSet(exps') = ToSet(exps) \cup {e} /\ IsSeq(exps')
    BY <1>1, <2>1, AppendSet, SeqFacts DEF Grows
  <2>4. e.pos = Len(dsyms) + 1 /\ e.sym = link.exports[xi].sym
    OBVIOUS
  <2> HIDE DEF e
  <2> QED BY <1>1, <2>2, <2>3, <2>4 DEF Exporting
<1> QED BY <1>2, <1>3 DEF Export

\* The other steps leave the list alone.
LEMMA ExportingStays ==
    ASSUME Exporting, link' = link, exps' = exps, xi' = xi, Len(dsyms') \in Nat,
           Len(dsyms) \in Nat, Len(dsyms) <= Len(dsyms')
    PROVE  Exporting'
<1>1. \A x \in ToSet(exps) : x.pos \in 1 .. Len(dsyms) => x.pos \in 1 .. Len(dsyms')
  OBVIOUS
<1> QED BY <1>1 DEF Exporting

\* What FillExports writes.
LEMMA FilledValues ==
    ASSUME Exporting, IsSeq(dsyms), Records, FillExports
    PROVE  \A x \in ToSet(exps) : dsyms'[x.pos].value = ShiftedAddr(x.sym)
<1> TAKE x \in ToSet(exps)
<1> DEFINE v(i) == ShiftedAddr((CHOOSE y \in ToSet(exps) : y.pos = i).sym)
<1>1. x.pos \in 1 .. Len(dsyms) /\ \A y \in ToSet(exps) : y.pos = x.pos => y = x
  BY DEF Exporting
<1>2. (CHOOSE y \in ToSet(exps) : y.pos = x.pos) = x
  BY <1>1
<1>3. v(x.pos) = ShiftedAddr(x.sym)
  BY <1>2
<1>4. dsyms'[x.pos] = [dsyms[x.pos] EXCEPT !.value = v(x.pos)]
  BY <1>1 DEF FillExports
<1> HIDE DEF v
<1>5. "value" \in DOMAIN dsyms[x.pos]
  BY <1>1 DEF Records
<1> QED BY <1>3, <1>4, <1>5

LEMMA SymbolsGrow ==
    ASSUME IsSeq(dsyms), Records, DynStep
    PROVE  IsSeq(dsyms') /\ Len(dsyms) \in Nat /\ Len(dsyms') \in Nat /\ Len(dsyms) <= Len(dsyms')
<1>1. CASE dsyms' = dsyms
  BY <1>1, SeqFacts
<1>2. CASE \E n : dsyms' = Append(dsyms, DynSym(n))
  BY <1>2, SeqFacts DEF Grows
<1>3. CASE FillExports
  BY <1>3, Filled, SeqFacts
<1>4. \/ dsyms' = dsyms
      \/ \E n : dsyms' = Append(dsyms, DynSym(n))
      \/ FillExports
  BY DEF DynStep, ScanPc32, ScanPlt32, ScanGot, ScanR64, SkipDiscarded, ScanFails,
     Export, Listed, DoubleBuckets, Synthesize, ApplyFixups, DynFindEntry, DynEntryMissing,
     PushHash, StartEmit, EmitAt, DynWriteFile, WithSym
<1> QED BY <1>1, <1>2, <1>3, <1>4

LEMMA ExportingStep ==
    ASSUME StaticInv, DynInv, Records, Exporting, Valued, DynStep
    PROVE  Exporting' /\ Valued'
<1>1. IsSeq(dsyms) /\ UNCHANGED layoutVars
  BY DynPhase, DynStart, DynLeaves DEF DynTypeOK
<1>2. link' = link /\ \A y : meta' = meta => ShiftedAddr(y)' = ShiftedAddr(y)
  BY <1>1, LayoutFixed, ShiftedStays
<1>3. CASE Export
  <2>1. Valued'
    BY <1>3 DEF Valued, Export, DynDone
  <2> QED BY <1>1, <1>2, <1>3, <2>1, ExportLists
<1>4. CASE ~Export
  <2>1. exps' = exps /\ xi' = xi
    BY <1>4 DEF DynStep, ScanPc32, ScanPlt32, ScanGot, ScanR64, Scanned, SkipDiscarded, ScanFails,
     Listed, DoubleBuckets, Synthesize, FillExports, ApplyFixups, DynFindEntry, DynEntryMissing,
     PushHash, StartEmit, EmitAt, DynWriteFile
  <2>2. Exporting'
    BY <1>1, <1>2, <2>1, SymbolsGrow, ExportingStays
  <2>3. CASE FillExports
    <3>1. meta' = meta
      BY <2>3 DEF FillExports
    <3>2. \A x \in ToSet(exps) : dsyms'[x.pos].value = ShiftedAddr(x.sym)'
      BY <1>1, <1>2, <2>3, <3>1, FilledValues
    <3> QED BY <2>1, <2>2, <3>2 DEF Valued
  <2>4. CASE pc \in {"fix", "dynentry", "hash", "dynemit"} /\ dsyms' = dsyms /\ meta' = meta
    <3>1. \A x \in ToSet(exps) : dsyms'[x.pos].value = ShiftedAddr(x.sym)'
      BY <1>2, <2>4 DEF Valued
    <3> QED BY <2>1, <2>2, <3>1 DEF Valued
  <2>5. CASE pc' \in {"scan", "synth", "fill", "failed"}
    BY <2>2, <2>5 DEF Valued, DynDone
  <2>6. \/ FillExports
        \/ pc \in {"fix", "dynentry", "hash", "dynemit"} /\ dsyms' = dsyms /\ meta' = meta
        \/ pc' \in {"scan", "synth", "fill", "failed"}
    BY DEF DynStep, ScanPc32, ScanPlt32, ScanGot, ScanR64, Scanned, SkipDiscarded, ScanFails,
     Export, Listed, DoubleBuckets, Synthesize, ApplyFixups, DynFindEntry, DynEntryMissing,
     PushHash, StartEmit, EmitAt, DynWriteFile
  <2> QED BY <2>3, <2>4, <2>5, <2>6
<1> QED BY <1>3, <1>4

-----------------------------------------------------------------------------
(* The hash table                                                          *)

\* The bucket of a symbol holds the last one pushed, and every chain goes
\* down through the symbols of its bucket without leaving one out.
Names == \A d \in 1 .. Len(dsyms) : dsyms[d].name \in NameIds
Unpushed == pc \notin {"hash", "dynemit", "done", "failed"} => chain = << >>
Chains ==
    pc \in {"hash", "dynemit"} \/ DynDone =>
        /\ IsSeq(chain) /\ Len(chain) <= Len(dsyms) /\ DOMAIN buckets = 0 .. nbucket - 1
        /\ \A h \in 0 .. nbucket - 1 :
            buckets[h] \in 0 .. Len(chain) /\ (buckets[h] # 0 => Bucket(buckets[h]) = h)
        /\ \A j \in 1 .. Len(chain) :
            /\ j <= buckets[Bucket(j)] /\ chain[j] \in 0 .. j - 1
            /\ chain[j] # 0 => Bucket(chain[j]) = Bucket(j)
            /\ \A i \in 1 .. j - 1 : Bucket(i) = Bucket(j) => i <= chain[j]
        /\ pc # "hash" => Len(chain) = Len(dsyms)

LEMMA NamesStep ==
    ASSUME StaticInv, DynInv, Records, Names, xi \in Nat \ {0}, DynStep
    PROVE  Names'
<1>0. /\ IsSeq(dsyms) /\ Len(dsyms) \in Nat /\ link \in Links /\ link.mode # "static"
      /\ r \in Nat \ {0} /\ Rels \in Seq(Rel) /\ Len(Rels) \in Nat
  BY DynPhase, DynStart, SeqFacts DEF DynTypeOK
<1>1. CASE dsyms' = dsyms
  BY <1>1 DEF Names
<1>2. CASE \E n \in NameIds : dsyms' = Append(dsyms, DynSym(n))
  <2>1. PICK n \in NameIds : dsyms' = Append(dsyms, DynSym(n))
    BY <1>2
  <2>2. /\ Len(dsyms') = Len(dsyms) + 1 /\ dsyms'[Len(dsyms) + 1] = DynSym(n)
        /\ \A i \in 1 .. Len(dsyms) : dsyms'[i] = dsyms[i]
    BY <1>0, <2>1, SeqFacts DEF Grows
  <2>3. \A i \in 1 .. Len(dsyms') : i \in 1 .. Len(dsyms) \/ i = Len(dsyms) + 1
    BY <1>0, <2>2
  <2>4. DynSym(n).name = n
    BY DEF DynSym
  <2> QED BY <2>2, <2>3, <2>4 DEF Names
<1>3. CASE FillExports
  BY <1>0, <1>3, Filled DEF Names
<1>4. CASE dsyms' = WithSym(dsyms, Sym) /\ r <= Len(Rels) /\ ~Internal(Rela.sym)
  <2>1. r \in 1 .. Len(Rels)
    BY <1>0, <1>4
  <2>2. Sym \in NameIds
    BY <1>0, <1>4, <2>1, DynAssumption, Zenon DEF Sym, Rela, Rels, Internal
  <2>3. dsyms' = dsyms \/ dsyms' = Append(dsyms, DynSym(Sym))
    BY <1>4 DEF WithSym
  <2> QED BY <1>1, <1>2, <2>2, <2>3
<1>5. CASE Export
  <2>1. link.exports \in Seq(ExportRef)
    BY <1>0, DynAssumption, Zenon
  <2>2. xi \in 1 .. Len(link.exports)
    BY <1>5, <2>1 DEF Export
  <2>3. link.exports[xi] \in ExportRef
    BY <2>1, <2>2
  <2>4. link.exports[xi].name \in NameIds
    BY <2>3 DEF ExportRef
  <2>5. dsyms' = dsyms \/ dsyms' = Append(dsyms, DynSym(link.exports[xi].name))
    BY <1>5 DEF Export
  <2> QED BY <1>1, <1>2, <2>4, <2>5
<1>6. \/ dsyms' = dsyms \/ FillExports \/ Export
      \/ dsyms' = WithSym(dsyms, Sym) /\ r <= Len(Rels) /\ ~Internal(Rela.sym)
  BY DEF DynStep, ScanPc32, ScanPlt32, ScanGot, ScanR64, Scanned, SkipDiscarded, ScanFails,
     Listed, DoubleBuckets, Synthesize, ApplyFixups, DynFindEntry, DynEntryMissing,
     PushHash, StartEmit, EmitAt, DynWriteFile
<1> QED BY <1>1, <1>3, <1>4, <1>5, <1>6

\* One more symbol pushed.
LEMMA PushKeeps ==
    ASSUME Buckets, Names, IsSeq(dsyms), Chains, PushHash
    PROVE  Chains'
<1> DEFINE n == Len(chain)
           b == Bucket(n + 1)
<1>1. /\ IsSeq(chain) /\ n \in Nat /\ n < Len(dsyms) /\ Len(dsyms) \in Nat
      /\ DOMAIN buckets = 0 .. nbucket - 1
      /\ \A h \in 0 .. nbucket - 1 :
            buckets[h] \in 0 .. n /\ (buckets[h] # 0 => Bucket(buckets[h]) = h)
      /\ \A j \in 1 .. n :
            /\ j <= buckets[Bucket(j)] /\ chain[j] \in 0 .. j - 1
            /\ chain[j] # 0 => Bucket(chain[j]) = Bucket(j)
            /\ \A i \in 1 .. j - 1 : Bucket(i) = Bucket(j) => i <= chain[j]
      /\ pc = "hash" /\ pc' = "hash"
  BY SeqFacts DEF Chains, PushHash
<1>2. /\ chain' = Append(chain, buckets[b])
      /\ buckets' = [buckets EXCEPT ![b] = n + 1]
      /\ dsyms' = dsyms /\ nbucket' = nbucket
  BY DEF PushHash
<1>3. \A j : Bucket(j)' = Bucket(j)
  BY <1>2 DEF Bucket
<1>4. \A j \in 1 .. Len(dsyms) : Bucket(j) \in 0 .. nbucket - 1
  BY HashAssumption DEF Bucket, Names, Buckets
<1>5. /\ IsSeq(chain') /\ Len(chain') = n + 1 /\ chain'[n + 1] = buckets[b]
      /\ \A j \in 1 .. n : chain'[j] = chain[j]
  BY <1>1, <1>2, SeqFacts DEF Grows
<1>6. b \in 0 .. nbucket - 1
  BY <1>1, <1>4
<1> HIDE DEF b, n
<1>7. /\ DOMAIN buckets' = 0 .. nbucket - 1 /\ buckets'[b] = n + 1
      /\ \A h \in 0 .. nbucket - 1 : h # b => buckets'[h] = buckets[h]
  BY <1>1, <1>2, <1>6
<1>8. \A h \in 0 .. nbucket - 1 :
        buckets'[h] \in 0 .. n + 1 /\ (buckets'[h] # 0 => Bucket(buckets'[h]) = h)
  <2> TAKE h \in 0 .. nbucket - 1
  <2>1. CASE h = b
    BY <1>1, <1>7, <2>1 DEF b
  <2>2. CASE h # b
    BY <1>1, <1>7, <2>2
  <2> QED BY <2>1, <2>2
<1>9. ASSUME NEW j \in 1 .. n + 1
      PROVE  /\ j <= buckets'[Bucket(j)] /\ chain'[j] \in 0 .. j - 1
             /\ chain'[j] # 0 => Bucket(chain'[j]) = Bucket(j)
             /\ \A i \in 1 .. j - 1 : Bucket(i) = Bucket(j) => i <= chain'[j]
  <2>0. Bucket(j) \in 0 .. nbucket - 1 /\ (j = n + 1 \/ j \in 1 .. n)
    BY <1>1, <1>4
  <2>1. CASE j = n + 1
    <3>1. Bucket(j) = b /\ chain'[j] = buckets[b] /\ buckets'[b] = n + 1
      BY <1>5, <1>7, <2>1 DEF b
    <3>2. buckets[b] \in 0 .. n /\ (buckets[b] # 0 => Bucket(buckets[b]) = b)
      BY <1>1, <1>6
    <3>3. \A i \in 1 .. n : Bucket(i) = b => i <= buckets[b]
      BY <1>1
    <3> QED BY <1>1, <2>1, <3>1, <3>2, <3>3
  <2>2. CASE j \in 1 .. n
    <3>1. j <= buckets'[Bucket(j)]
      <4>1. CASE Bucket(j) = b
        BY <1>1, <1>7, <2>2, <4>1
      <4>2. CASE Bucket(j) # b
        BY <1>1, <1>7, <2>0, <2>2, <4>2
      <4> QED BY <4>1, <4>2
    <3> QED BY <1>1, <1>5, <2>2, <3>1
  <2> QED BY <2>0, <2>1, <2>2
<1>10. n + 1 <= Len(dsyms)
  BY <1>1
<1> QED BY <1>1, <1>2, <1>3, <1>5, <1>7, <1>8, <1>9, <1>10 DEF Chains

LEMMA ChainsStep ==
    ASSUME StaticInv, DynInv, Buckets, Names, Unpushed, Chains, DynStep
    PROVE  Unpushed' /\ Chains'
<1>1. IsSeq(dsyms) /\ Len(dsyms) \in Nat /\ UNCHANGED layoutVars
  BY DynPhase, DynStart, DynLeaves, SeqFacts DEF DynTypeOK
<1>2. CASE PushHash
  <2>1. pc = "hash" /\ pc' = "hash"
    BY <1>2 DEF PushHash
  <2> QED BY <1>1, <1>2, <2>1, PushKeeps DEF Unpushed
<1>3. CASE DynFindEntry
  <2>1. /\ chain' = << >> /\ buckets' = [h \in 0 .. nbucket - 1 |-> 0] /\ nbucket' = nbucket
        /\ pc' = "hash" /\ dsyms' = dsyms
    BY <1>3 DEF DynFindEntry, Unpushed
  <2>2. IsSeq(chain') /\ Len(chain') = 0
    BY <2>1, EmptyTable
  <2>3. DOMAIN buckets' = 0 .. nbucket - 1 /\ \A h \in 0 .. nbucket - 1 : buckets'[h] = 0
    BY <2>1
  <2> QED BY <1>1, <2>1, <2>2, <2>3 DEF Unpushed, Chains
<1>4. CASE StartEmit \/ EmitAt \/ DynWriteFile
  <2>1. /\ chain' = chain /\ buckets' = buckets /\ nbucket' = nbucket /\ dsyms' = dsyms
        /\ pc \in {"hash", "dynemit"} /\ pc' \in {"dynemit", "done"}
        /\ pc = "hash" => Len(chain) = Len(dsyms)
    BY <1>4 DEF StartEmit, EmitAt, DynWriteFile, hashVars
  <2>2. \A j : Bucket(j)' = Bucket(j)
    BY <2>1 DEF Bucket
  <2> QED BY <2>1, <2>2 DEF Unpushed, Chains, DynDone
<1>5. CASE /\ pc \in {"scan", "synth", "fill", "fix", "dynentry"} /\ chain' = chain
           /\ pc' \in {"scan", "synth", "fill", "fix", "dynentry", "failed"}
  BY <1>5 DEF Unpushed, Chains, DynDone
<1>6. \/ PushHash \/ DynFindEntry \/ StartEmit \/ EmitAt \/ DynWriteFile
      \/ /\ pc \in {"scan", "synth", "fill", "fix", "dynentry"} /\ chain' = chain
         /\ pc' \in {"scan", "synth", "fill", "fix", "dynentry", "failed"}
  BY DEF DynStep, ScanPc32, ScanPlt32, ScanGot, ScanR64, Scanned, SkipDiscarded, ScanFails,
     Export, Listed, DoubleBuckets, Synthesize, FillExports, ApplyFixups, DynEntryMissing, hashVars
<1> QED BY <1>2, <1>3, <1>4, <1>5, <1>6

\* The walk of the loader: what the chain does not lead out of holds, from
\* the bucket's last symbol down, all of them, and the null entry.
LEMMA ChainsFindAll ==
    ASSUME Buckets, Names, IsSeq(dsyms), Chains, DynDone
    PROVE  HashFindsAll
<1>1. /\ Len(dsyms) \in Nat /\ Len(chain) = Len(dsyms)
      /\ \A h \in 0 .. nbucket - 1 :
            buckets[h] \in 0 .. Len(dsyms) /\ (buckets[h] # 0 => Bucket(buckets[h]) = h)
      /\ \A j \in 1 .. Len(dsyms) :
            /\ j <= buckets[Bucket(j)] /\ chain[j] \in 0 .. j - 1
            /\ chain[j] # 0 => Bucket(chain[j]) = Bucket(j)
            /\ \A i \in 1 .. j - 1 : Bucket(i) = Bucket(j) => i <= chain[j]
  BY SeqFacts DEF Chains, DynDone
<1>2. \A j \in 1 .. Len(dsyms) : Bucket(j) \in 0 .. nbucket - 1
  BY HashAssumption DEF Bucket, Names, Buckets
<1> SUFFICES ASSUME NEW i \in 1 .. Len(dsyms), NEW W \in SUBSET (0 .. Len(dsyms)),
                    buckets[Bucket(i)] \in W, \A j \in W \ {0} : chain[j] \in W
             PROVE  i \in W /\ 0 \in W
  BY DEF HashFindsAll, Followed
<1>3. i \in W
  <2> DEFINE T == {j \in W : j # 0 /\ Bucket(j) = Bucket(i) /\ i <= j}
  <2>1. T \subseteq Nat
    <3>1. \A j \in W : j \in Nat
      BY <1>1
    <3> QED BY <3>1
  <2>2. buckets[Bucket(i)] \in T
    <3>1. i <= buckets[Bucket(i)] /\ buckets[Bucket(i)] \in 0 .. Len(dsyms)
      BY <1>1, <1>2
    <3>2. buckets[Bucket(i)] # 0
      BY <3>1
    <3>3. Bucket(buckets[Bucket(i)]) = Bucket(i)
      BY <1>1, <1>2, <3>2
    <3> QED BY <3>1, <3>2, <3>3
  <2>3. PICK m \in T : \A y \in T : m <= y
    BY <2>1, <2>2, LeastElement
  <2>4. CASE m = i
    BY <2>4
  <2>5. CASE m # i
    <3>1. m \in 1 .. Len(dsyms) /\ i \in 1 .. m - 1 /\ Bucket(m) = Bucket(i) /\ m \in W
      BY <1>1, <2>3, <2>5
    <3>2. i <= chain[m] /\ chain[m] \in 0 .. m - 1 /\ (chain[m] # 0 => Bucket(chain[m]) = Bucket(m))
      BY <1>1, <3>1
    <3>3. chain[m] # 0 /\ chain[m] < m
      BY <3>1, <3>2
    <3>4. chain[m] \in T
      BY <3>1, <3>2, <3>3
    <3> QED BY <2>3, <3>1, <3>2, <3>3, <3>4
  <2> QED BY <2>4, <2>5
<1>4. 0 \in W
  <2>1. PICK m \in W : \A y \in W : m <= y
    <3>1. W \subseteq Nat
      BY <1>1
    <3> QED BY <1>3, <3>1, LeastElement
  <2>2. CASE m # 0
    <3>1. m \in 1 .. Len(dsyms) /\ chain[m] \in W
      BY <1>1, <2>2
    <3>2. chain[m] \in 0 .. m - 1
      BY <1>1, <3>1
    <3> QED BY <2>1, <3>1, <3>2
  <2> QED BY <2>2
<1> QED BY <1>3, <1>4

-----------------------------------------------------------------------------
(* The file                                                                *)

LEMMA TableSizes ==
    ASSUME DynTypeOK
    PROVE  /\ Len(RelaDyn) = Len(rdyn) + Len(gots) /\ Len(RelaPlt) = Len(plts)
           /\ Len(rdyn) \in Nat /\ Len(gots) \in Nat /\ Len(plts) \in Nat
           /\ DynamicSize \in Nat \ {0}
<1>1. Len(rdyn) \in Nat /\ Len(gots) \in Nat /\ Len(plts) \in Nat
  BY SeqFacts DEF DynTypeOK
<1>2. Len(RelaDyn) = Len(rdyn) + Len(gots)
  BY RelaDynParts
<1>3. Len(RelaPlt) = Len(plts)
  <2>1. RelaPlt = [i \in 1 .. Len(plts) |-> RelaPlt[i]]
    BY DEF RelaPlt
  <2> QED BY <1>1, <2>1, TabulatedSeq
<1>4. DynamicSize \in Nat \ {0}
  BY DEF DynamicSize, DynEnt
<1> QED BY <1>1, <1>2, <1>3, <1>4

(* A list of twelve bounds that goes up one by one goes up.                *)
LEMMA Ascending ==
    ASSUME NEW B, \A z \in 1 .. 12 : B[z] \in Nat,
           \A z \in 1 .. 11 : B[z] <= B[z + 1]
    PROVE  \A y, z \in 1 .. 12 : y <= z => B[y] <= B[z]
<1> TAKE y, z \in 1 .. 12
<1> HAVE y <= z
<1> DEFINE T == {n \in 1 .. 12 : y <= n /\ ~(B[y] <= B[n])}
<1>1. CASE T = {}
  BY <1>1
<1>2. CASE T # {}
  <2>1. T \subseteq Nat
    OBVIOUS
  <2>2. PICK n \in T : \A m \in T : n <= m
    BY <1>2, <2>1, LeastElement
  <2>3. n \in 1 .. 12 /\ y <= n /\ ~(B[y] <= B[n]) /\ n # y
    BY <2>2
  <2>4. n - 1 \in 1 .. 11 /\ n - 1 + 1 = n /\ y <= n - 1 /\ n - 1 \in 1 .. 12 /\ ~(n <= n - 1)
    BY <2>3
  <2>5. B[y] <= B[n - 1]
    BY <2>2, <2>4
  <2>6. B[n - 1] <= B[n]
    BY <2>4
  <2> QED BY <2>3, <2>4, <2>5, <2>6
<1> QED BY <1>1, <1>2

(* Rounding up a multiple does not move it, and the sum of two is one.     *)
LEMMA AlignedStays ==
    ASSUME NEW x \in Nat, NEW a \in Nat \ {0}, x % a = 0
    PROVE  AlignUp(x, a) = x
<1> DEFINE q == x \div a
           p == (x + a - 1) \div a
<1>1. q \in Nat /\ x = q * a
  OBVIOUS
<1>2. p \in Nat /\ p * a <= x + a - 1 /\ x + a - 1 < p * a + a
  <2>1. x + a - 1 \in Nat
    OBVIOUS
  <2> QED BY <2>1, DivBounds
<1> HIDE DEF p, q
<1>3. ~(p < q)
  <2> SUFFICES ASSUME p < q PROVE FALSE
    OBVIOUS
  <2>1. (p + 1) * a <= q * a
    BY <1>1, <1>2
  <2>2. (p + 1) * a = p * a + a
    BY <1>2
  <2>3. p * a \in Nat /\ q * a \in Nat
    BY <1>1, <1>2
  <2> QED BY <1>1, <1>2, <2>1, <2>2, <2>3
<1>4. ~(q < p)
  <2> SUFFICES ASSUME q < p PROVE FALSE
    OBVIOUS
  <2>1. (q + 1) * a <= p * a
    BY <1>1, <1>2
  <2>2. (q + 1) * a = q * a + a
    BY <1>1
  <2>3. p * a \in Nat /\ q * a \in Nat
    BY <1>1, <1>2
  <2> QED BY <1>1, <1>2, <2>1, <2>2, <2>3
<1>5. p = q
  BY <1>1, <1>2, <1>3, <1>4
<1> QED BY <1>1, <1>5 DEF AlignUp, p

LEMMA AlignedSum ==
    ASSUME NEW x \in Nat, NEW y \in Nat, NEW a \in Nat \ {0}, x % a = 0, y % a = 0
    PROVE  (x + y) % a = 0
<1> DEFINE q == x \div a
           p == y \div a
<1>1. q \in Nat /\ x = q * a /\ p \in Nat /\ y = p * a
  OBVIOUS
<1> HIDE DEF p, q
<1>2. x + y = (q + p) * a /\ q + p \in Nat
  BY <1>1
<1> QED BY <1>2, MulMod

\* The addresses that divide the image, and between which of them a target
\* lies.
Bounds == <<Start, meta.plt, outVa[RODATA], meta.hash, meta.dynsym, meta.dynstr, meta.reladyn,
            meta.relaplt, outVa[DATA] + meta.delta, meta.got, meta.dynamic, RwEnd>>
Ready == link.mode # "static" /\ pc \in {"hash", "dynemit", "done"}

LEMMA Tables ==
    ASSUME StaticInv, DynInv, Ready
    PROVE  /\ DynTypeOK /\ LInv /\ AboveStart /\ lpc = "laid"
           /\ meta.plt \in Nat /\ meta.hash \in Nat /\ meta.hashSize \in Nat
           /\ meta.dynsym \in Nat /\ meta.dynstr \in Nat /\ meta.reladyn \in Nat
           /\ meta.relaplt \in Nat
           /\ meta.got \in Nat /\ meta.delta \in Nat /\ meta.delta % Page = 0
           /\ meta.dynamic \in Nat /\ RwEnd \in Nat
           /\ OutEnd(TEXT) <= meta.plt /\ OutEnd(RODATA) <= meta.hash
           /\ meta.hash + meta.hashSize <= meta.dynsym
           /\ meta.dynstr = meta.dynsym + Total * SymEnt
           /\ meta.dynstr + StrSize <= meta.reladyn
           /\ meta.relaplt = meta.reladyn + Len(RelaDyn) * RelaEnt
           /\ REnd = meta.relaplt + Len(RelaPlt) * RelaEnt
           /\ OutEnd(BSS) + meta.delta <= meta.got
           /\ meta.dynamic = meta.got + (Len(gots) + Len(plts)) * GotEnt
           /\ RwEnd = meta.dynamic + DynamicSize
           /\ Len(dsyms) \in Nat
<1>1. DynTypeOK /\ Synthesized /\ LInv /\ AboveStart /\ lpc = "laid"
  BY DEF DynInv, Ready, StaticInv, Phase
<1>2. /\ meta.plt \in Nat /\ meta.hash \in Nat /\ meta.hashSize \in Nat
      /\ meta.dynsym \in Nat /\ meta.dynstr \in Nat /\ meta.reladyn \in Nat
      /\ meta.got \in Nat /\ meta.delta \in Nat /\ meta.delta % Page = 0
      /\ OutEnd(TEXT) <= meta.plt /\ OutEnd(RODATA) <= meta.hash
      /\ meta.hash + meta.hashSize <= meta.dynsym
      /\ meta.dynstr = meta.dynsym + Total * SymEnt
      /\ meta.dynstr + StrSize <= meta.reladyn
      /\ meta.relaplt = meta.reladyn + (Len(rdyn) + Len(gots)) * RelaEnt
      /\ OutEnd(BSS) + meta.delta <= meta.got
      /\ meta.gotplt = meta.got + Len(gots) * GotEnt
      /\ meta.dynamic = meta.gotplt + Len(plts) * GotEnt
  BY <1>1 DEF Synthesized, DynDone, Ready
<1>3. /\ Len(RelaDyn) = Len(rdyn) + Len(gots) /\ Len(RelaPlt) = Len(plts)
      /\ Len(rdyn) \in Nat /\ Len(gots) \in Nat /\ Len(plts) \in Nat
      /\ DynamicSize \in Nat \ {0} /\ Len(dsyms) \in Nat
  BY <1>1, TableSizes, SeqFacts DEF DynTypeOK
<1>4. meta.relaplt \in Nat /\ meta.dynamic \in Nat /\ RwEnd \in Nat
      /\ meta.dynamic = meta.got + (Len(gots) + Len(plts)) * GotEnt
  <2>1. /\ meta.relaplt = meta.reladyn + (Len(rdyn) + Len(gots)) * 24 /\ meta.reladyn \in Nat
        /\ meta.gotplt = meta.got + Len(gots) * 8 /\ meta.got \in Nat
        /\ meta.dynamic = meta.gotplt + Len(plts) * 8
    BY <1>2 DEF RelaEnt, GotEnt
  <2>2. meta.relaplt \in Nat
    BY <1>3, <2>1
  <2>3. meta.dynamic \in Nat /\ meta.dynamic = meta.got + (Len(gots) + Len(plts)) * 8
    BY <1>3, <2>1
  <2>4. RwEnd \in Nat
    BY <1>3, <2>3 DEF RwEnd
  <2> QED BY <2>2, <2>3, <2>4 DEF GotEnt
<1> QED BY <1>1, <1>2, <1>3, <1>4 DEF REnd, RwEnd

LEMMA Extends ==
    ASSUME NEW a \in Nat, NEW n \in Nat, NEW m \in Nat, NEW b
    PROVE  /\ b = a + n * m => a <= b
           /\ b = a + n => a <= b
           /\ b \in Nat /\ a + n <= b => a <= b
<1>1. n * m \in Nat
  OBVIOUS
<1> QED BY <1>1

LEMMA BoundsAscend ==
    ASSUME StaticInv, DynInv, Ready, Fits
    PROVE  /\ \A z \in 1 .. 12 : Bounds[z] \in Nat
           /\ \A y, z \in 1 .. 12 : y <= z => Bounds[y] <= Bounds[z]
<1>a. /\ meta.plt \in Nat /\ OutEnd(TEXT) <= meta.plt
      /\ meta.hash \in Nat /\ OutEnd(RODATA) <= meta.hash
  BY Tables
<1>b. /\ meta.hash \in Nat /\ meta.hashSize \in Nat /\ meta.dynsym \in Nat
      /\ meta.dynstr \in Nat /\ meta.reladyn \in Nat
      /\ meta.hash + meta.hashSize <= meta.dynsym
      /\ meta.dynstr = meta.dynsym + Total * 24
      /\ meta.dynstr + StrSize <= meta.reladyn
  BY Tables DEF SymEnt
<1>c. /\ meta.reladyn \in Nat /\ meta.relaplt \in Nat /\ meta.delta \in Nat
      /\ meta.relaplt = meta.reladyn + Len(RelaDyn) * 24
      /\ REnd = meta.relaplt + Len(RelaPlt) * 24
  BY Tables DEF RelaEnt
<1>d. /\ meta.got \in Nat /\ meta.delta \in Nat /\ meta.dynamic \in Nat /\ RwEnd \in Nat
      /\ OutEnd(BSS) + meta.delta <= meta.got
      /\ meta.dynamic = meta.got + (Len(gots) + Len(plts)) * 8
      /\ RwEnd = meta.dynamic + DynamicSize
  BY Tables DEF GotEnt
<1>t. DynTypeOK /\ Len(dsyms) \in Nat
  BY Tables
<1>1. Start \in Nat /\ StrSize \in Nat
  BY PageAssumption, ReserveAssumption
<1>2. /\ OutEnd(TEXT) \in Nat /\ Start <= OutEnd(TEXT)
      /\ outVa[RODATA] \in Nat /\ outVa[RODATA] <= OutEnd(RODATA) /\ OutEnd(RODATA) \in Nat
      /\ outVa[DATA] \in Nat /\ outVa[DATA] <= OutEnd(BSS) /\ OutEnd(BSS) \in Nat
  <2>1. LInv /\ AboveStart /\ lpc = "laid"
    BY Tables
  <2>2. /\ \A s \in Slots : outVa[s] \in Nat /\ outSize[s] \in Nat /\ Start <= outVa[s]
        /\ \A s, t \in Slots : s < t => outVa[s] + outSize[s] <= outVa[t]
    BY <2>1, Laid
  <2>3. TEXT \in Slots /\ RODATA \in Slots /\ DATA \in Slots /\ BSS \in Slots /\ DATA < BSS
    BY DEF Slots, TEXT, RODATA, DATA, BSS
  <2> QED BY <1>1, <2>2, <2>3 DEF OutEnd
<1>3. Len(RelaDyn) \in Nat /\ Len(RelaPlt) \in Nat /\ Len(gots) \in Nat /\ Len(plts) \in Nat
      /\ DynamicSize \in Nat /\ Total \in Nat
  BY <1>t, TableSizes DEF Total
<1>4. /\ Start <= meta.plt /\ meta.plt <= outVa[RODATA] /\ outVa[RODATA] <= meta.hash
      /\ meta.hash <= meta.dynsym /\ meta.dynsym <= meta.dynstr /\ meta.dynstr <= meta.reladyn
      /\ meta.reladyn <= meta.relaplt /\ meta.relaplt <= outVa[DATA] + meta.delta
      /\ outVa[DATA] + meta.delta <= meta.got /\ meta.got <= meta.dynamic
      /\ meta.dynamic <= RwEnd
  <2>1. meta.plt + Len(plts) * PltEnt <= outVa[RODATA] /\ REnd <= outVa[DATA] + meta.delta
    BY DEF Fits
  <2>2. Start <= meta.plt /\ meta.plt <= outVa[RODATA] /\ outVa[RODATA] <= meta.hash
    BY SMTT(30), <1>a, <1>1, <1>2, <1>3, <2>1 DEF PltEnt
  <2>3. meta.hash <= meta.dynsym /\ meta.dynsym <= meta.dynstr /\ meta.dynstr <= meta.reladyn
    BY ZenonT(30), <1>b, <1>1, <1>3, Extends
  <2>4. meta.reladyn <= meta.relaplt /\ meta.relaplt <= REnd /\ REnd \in Nat
    BY SMTT(30), <1>c, <1>3, Extends
  <2>5. meta.relaplt <= outVa[DATA] + meta.delta
    BY SMTT(30), <1>c, <1>2, <2>1, <2>4
  <2>6. outVa[DATA] + meta.delta <= meta.got
    BY SMTT(30), <1>d, <1>2
  <2>7. meta.got <= meta.dynamic /\ meta.dynamic <= RwEnd
    BY <1>d, <1>3, Extends
  <2> QED BY <2>2, <2>3, <2>4, <2>5, <2>6, <2>7
<1>5. \A z \in 1 .. 12 : Bounds[z] \in Nat
  <2>0. outVa[DATA] + meta.delta \in Nat
    BY SMTT(30), <1>c, <1>2
  <2>1. meta.relaplt \in Nat /\ meta.dynamic \in Nat
        /\ RwEnd \in Nat /\ meta.plt \in Nat /\ meta.hash \in Nat /\ meta.dynsym \in Nat
        /\ meta.dynstr \in Nat /\ meta.reladyn \in Nat /\ meta.got \in Nat
    BY <1>a, <1>b, <1>c, <1>d, <1>2
  <2> QED BY <1>1, <1>2, <2>0, <2>1 DEF Bounds
<1>6. \A z \in 1 .. 11 : Bounds[z] <= Bounds[z + 1]
  BY <1>4 DEF Bounds
<1> QED BY <1>5, <1>6, Ascending

Zone(t) ==
    CASE t.what = "sec" -> IF Secs[t.id].slot = TEXT THEN 1
                           ELSE IF Secs[t.id].slot = RODATA THEN 3 ELSE 9
      [] t.what = "plt" -> 2
      [] t.what = "hash" -> 4
      [] t.what = "dynsym" -> 5
      [] t.what = "dynstr" -> 6
      [] t.what = "reladyn" -> 7
      [] t.what = "relaplt" -> 8
      [] t.what = "got" -> 10
      [] OTHER -> 11
Between(t, z) ==
    /\ t.va \in Nat /\ t.size \in Nat \ {0}
    /\ Bounds[z] <= t.va /\ t.va + t.size <= Bounds[z + 1]

\* A section lies in its slot, moved with it.
LEMMA SectionZone ==
    ASSUME StaticInv, DynInv, Ready, Fits, NEW i \in SecIds, InFile(i)
    PROVE  LET t == Target("sec", i, Va(i), Secs[i].size)
           IN Zone(t) \in {1, 3, 9} /\ Between(t, Zone(t))
<1> DEFINE t == Target("sec", i, Va(i), Secs[i].size)
           s == Secs[i].slot
<1>1. t.what = "sec" /\ t.id = i /\ t.va = Va(i) /\ t.size = Secs[i].size
  BY DEF Target
<1>2. LInv /\ AboveStart /\ lpc = "laid" /\ meta.delta \in Nat
  BY Tables
<1>3. /\ s \in 1 .. 4 /\ addr[i] \in Nat /\ Secs[i].size \in Nat \ {0}
      /\ outVa[s] <= addr[i] /\ addr[i] + Secs[i].size <= outVa[s] + outSize[s]
      /\ Start <= outVa[s]
  BY <1>2, Laid
<1>4. /\ \A a \in Slots : outVa[a] \in Nat /\ outSize[a] \in Nat
      /\ \A a, b \in Slots : a < b => outVa[a] + outSize[a] <= outVa[b]
  BY <1>2, Laid
<1>5. /\ TEXT = 1 /\ RODATA = 2 /\ DATA = 3 /\ INIT_ARRAY = 4 /\ BSS = 5
      /\ 1 \in Slots /\ 2 \in Slots /\ 3 \in Slots /\ 4 \in Slots /\ 5 \in Slots
  BY DEF TEXT, RODATA, DATA, INIT_ARRAY, BSS, Slots
<1>6. /\ Bounds[1] = Start /\ Bounds[2] = meta.plt /\ Bounds[3] = outVa[RODATA]
      /\ Bounds[4] = meta.hash /\ Bounds[9] = outVa[DATA] + meta.delta /\ Bounds[10] = meta.got
  BY DEF Bounds
<1>7. /\ OutEnd(TEXT) <= meta.plt /\ OutEnd(RODATA) <= meta.hash
      /\ OutEnd(BSS) + meta.delta <= meta.got
      /\ meta.plt \in Nat /\ meta.hash \in Nat /\ meta.got \in Nat
  BY Tables
<1>8. Start \in Nat
  BY PageAssumption
<1> HIDE DEF t
<1>9. CASE s = TEXT
  <2>1. Zone(t) = 1 /\ Va(i) = addr[i]
    BY <1>1, <1>2, <1>3, <1>5, <1>9 DEF Zone, Va, MovedBy, Writable
  <2>2. Start <= addr[i] /\ addr[i] + Secs[i].size <= meta.plt
    BY <1>3, <1>4, <1>5, <1>7, <1>8, <1>9 DEF OutEnd
  <2> QED BY <1>1, <1>3, <1>6, <2>1, <2>2 DEF Between, t
<1>10. CASE s = RODATA
  <2>1. Zone(t) = 3 /\ Va(i) = addr[i]
    BY <1>1, <1>2, <1>3, <1>5, <1>10 DEF Zone, Va, MovedBy, Writable
  <2>2. outVa[RODATA] <= addr[i] /\ addr[i] + Secs[i].size <= meta.hash
    BY <1>3, <1>4, <1>5, <1>7, <1>10 DEF OutEnd
  <2> QED BY <1>1, <1>3, <1>6, <2>1, <2>2 DEF Between, t
<1>11. CASE s \in {DATA, INIT_ARRAY}
  <2>1. Zone(t) = 9 /\ Va(i) = addr[i] + meta.delta
    BY <1>1, <1>2, <1>3, <1>5, <1>11 DEF Zone, Va, MovedBy, Writable
  <2>2. outVa[DATA] <= outVa[s] /\ outVa[s] + outSize[s] <= outVa[BSS]
    BY <1>4, <1>5, <1>11
  <2>3. /\ outVa[s] \in Nat /\ outSize[s] \in Nat /\ outVa[DATA] \in Nat
        /\ outVa[BSS] \in Nat /\ outSize[BSS] \in Nat
    BY <1>4, <1>5, <1>11
  <2>4. outVa[DATA] <= addr[i] /\ addr[i] + Secs[i].size <= OutEnd(BSS) /\ OutEnd(BSS) \in Nat
    BY <1>3, <2>2, <2>3 DEF OutEnd
  <2>5. /\ outVa[DATA] + meta.delta <= addr[i] + meta.delta
        /\ addr[i] + meta.delta + Secs[i].size <= meta.got /\ addr[i] + meta.delta \in Nat
    BY <1>2, <1>3, <1>7, <2>3, <2>4
  <2> QED BY <1>1, <1>3, <1>6, <2>1, <2>5 DEF Between, t
<1> QED BY <1>3, <1>5, <1>9, <1>10, <1>11 DEF t

\* A synthesized section is the one of its zone, and lies in it.
PltTarget     == Target("plt", 0, meta.plt, Len(plts) * PltEnt)
HashTarget    == Target("hash", 0, meta.hash, meta.hashSize)
DynsymTarget  == Target("dynsym", 0, meta.dynsym, Total * SymEnt)
DynstrTarget  == Target("dynstr", 0, meta.dynstr, StrSize)
RelaDynTarget == Target("reladyn", 0, meta.reladyn, Len(RelaDyn) * RelaEnt)
RelaPltTarget == Target("relaplt", 0, meta.relaplt, Len(RelaPlt) * RelaEnt)
GotTarget     == Target("got", 0, meta.got, (Len(gots) + Len(plts)) * GotEnt)
DynamicTarget == Target("dynamic", 0, meta.dynamic, DynamicSize)
Synthetic(t) ==
    \/ t = PltTarget /\ Zone(t) = 2
    \/ t = HashTarget /\ Zone(t) = 4
    \/ t = DynsymTarget /\ Zone(t) = 5
    \/ t = DynstrTarget /\ Zone(t) = 6
    \/ t = RelaDynTarget /\ Zone(t) = 7
    \/ t = RelaPltTarget /\ Zone(t) = 8
    \/ t = GotTarget /\ Zone(t) = 10
    \/ t = DynamicTarget /\ Zone(t) = 11

LEMMA TargetKinds ==
    ASSUME NEW t \in Targets
    PROVE  \/ /\ t.what = "sec" /\ t.id \in SecIds
              /\ HasData(t.id) /\ Secs[t.id].slot # DISCARD
              /\ t = Target("sec", t.id, Va(t.id), Secs[t.id].size)
           \/ t.what # "sec" /\ t.size > 0 /\ Synthetic(t)
<1>1. CASE t \in SectionTargets
  <2>1. PICK i \in SecIds : /\ HasData(i) /\ Secs[i].slot # DISCARD
                            /\ t = Target("sec", i, Va(i), Secs[i].size)
    BY <1>1 DEF SectionTargets
  <2>2. t.what = "sec" /\ t.id = i
    BY <2>1 DEF Target
  <2> QED BY <2>1, <2>2
<1>2. CASE t \notin SectionTargets
  <2>1. /\ t \in {PltTarget, HashTarget, DynsymTarget, DynstrTarget, RelaDynTarget, RelaPltTarget,
                  GotTarget, DynamicTarget}
        /\ t.size > 0
    BY <1>2 DEF Targets, PltTarget, HashTarget, DynsymTarget, DynstrTarget, RelaDynTarget,
       RelaPltTarget, GotTarget, DynamicTarget
  <2>2. /\ PltTarget.what = "plt" /\ HashTarget.what = "hash" /\ DynsymTarget.what = "dynsym"
        /\ DynstrTarget.what = "dynstr" /\ RelaDynTarget.what = "reladyn"
        /\ RelaPltTarget.what = "relaplt" /\ GotTarget.what = "got"
        /\ DynamicTarget.what = "dynamic"
    BY DEF Target, PltTarget, HashTarget, DynsymTarget, DynstrTarget, RelaDynTarget,
       RelaPltTarget, GotTarget, DynamicTarget
  <2>3. /\ Zone(PltTarget) = 2 /\ Zone(HashTarget) = 4 /\ Zone(DynsymTarget) = 5
        /\ Zone(DynstrTarget) = 6 /\ Zone(RelaDynTarget) = 7 /\ Zone(RelaPltTarget) = 8
        /\ Zone(GotTarget) = 10 /\ Zone(DynamicTarget) = 11
    BY <2>2 DEF Zone
  <2> QED BY <2>1, <2>2, <2>3 DEF Synthetic
<1> QED BY <1>1, <1>2

LEMMA SyntheticZone ==
    ASSUME StaticInv, DynInv, Ready, Fits, NEW t, t.size > 0, Synthetic(t)
    PROVE  Zone(t) \in {2, 4, 5, 6, 7, 8, 10, 11} /\ Between(t, Zone(t))
<1>1. /\ Bounds[2] = meta.plt /\ Bounds[3] = outVa[RODATA]
      /\ Bounds[4] = meta.hash /\ Bounds[5] = meta.dynsym /\ Bounds[6] = meta.dynstr
      /\ Bounds[7] = meta.reladyn /\ Bounds[8] = meta.relaplt
      /\ Bounds[9] = outVa[DATA] + meta.delta /\ Bounds[10] = meta.got
      /\ Bounds[11] = meta.dynamic /\ Bounds[12] = RwEnd
  BY DEF Bounds
<1>2. DynTypeOK /\ Len(dsyms) \in Nat
  BY Tables
<1>3. Len(RelaDyn) \in Nat /\ Len(RelaPlt) \in Nat /\ Len(gots) \in Nat /\ Len(plts) \in Nat
      /\ DynamicSize \in Nat /\ Total \in Nat
  BY <1>2, TableSizes DEF Total
<1>4. \A z \in 1 .. 12 : Bounds[z] \in Nat
  BY BoundsAscend
<1>5. \A what, v, n : /\ Target(what, 0, v, n).va = v
                      /\ Target(what, 0, v, n).size = n
  BY DEF Target
<1>6. CASE t = PltTarget /\ Zone(t) = 2
  <2>1. t.va = meta.plt /\ t.size = Len(plts) * PltEnt
    BY <1>5, <1>6 DEF PltTarget
  <2>2. Len(plts) * PltEnt \in Nat /\ meta.plt + Len(plts) * PltEnt <= outVa[RODATA]
    BY <1>3 DEF PltEnt, Fits
  <2>3. /\ Bounds[Zone(t)] = meta.plt /\ Bounds[Zone(t) + 1] = outVa[RODATA]
        /\ meta.plt \in Nat /\ outVa[RODATA] \in Nat
    BY <1>1, <1>4, <1>6
  <2> QED BY <1>6, <2>1, <2>2, <2>3 DEF Between
<1>7. CASE t = HashTarget /\ Zone(t) = 4
  <2>1. t.va = meta.hash /\ t.size = meta.hashSize
    BY <1>5, <1>7 DEF HashTarget
  <2>2. meta.hashSize \in Nat /\ meta.hash + meta.hashSize <= meta.dynsym
    BY Tables
  <2>3. /\ Bounds[Zone(t)] = meta.hash /\ Bounds[Zone(t) + 1] = meta.dynsym
        /\ meta.hash \in Nat /\ meta.dynsym \in Nat
    BY <1>1, <1>4, <1>7
  <2> QED BY <1>7, <2>1, <2>2, <2>3 DEF Between
<1>8. CASE t = DynsymTarget /\ Zone(t) = 5
  <2>1. t.va = meta.dynsym /\ t.size = Total * SymEnt
    BY <1>5, <1>8 DEF DynsymTarget
  <2>2. Total * SymEnt \in Nat /\ meta.dynsym + Total * SymEnt = meta.dynstr
    BY <1>3, Tables DEF SymEnt
  <2>3. /\ Bounds[Zone(t)] = meta.dynsym /\ Bounds[Zone(t) + 1] = meta.dynstr
        /\ meta.dynsym \in Nat /\ meta.dynstr \in Nat
    BY <1>1, <1>4, <1>8
  <2> QED BY <1>8, <2>1, <2>2, <2>3 DEF Between
<1>9. CASE t = DynstrTarget /\ Zone(t) = 6
  <2>1. t.va = meta.dynstr /\ t.size = StrSize
    BY <1>5, <1>9 DEF DynstrTarget
  <2>2. StrSize \in Nat /\ meta.dynstr + StrSize <= meta.reladyn
    BY ReserveAssumption, Tables
  <2>3. /\ Bounds[Zone(t)] = meta.dynstr /\ Bounds[Zone(t) + 1] = meta.reladyn
        /\ meta.dynstr \in Nat /\ meta.reladyn \in Nat
    BY <1>1, <1>4, <1>9
  <2> QED BY <1>9, <2>1, <2>2, <2>3 DEF Between
<1>10. CASE t = RelaDynTarget /\ Zone(t) = 7
  <2>1. t.va = meta.reladyn /\ t.size = Len(RelaDyn) * RelaEnt
    BY <1>5, <1>10 DEF RelaDynTarget
  <2>2. Len(RelaDyn) * RelaEnt \in Nat /\ meta.reladyn + Len(RelaDyn) * RelaEnt = meta.relaplt
    BY <1>3, Tables DEF RelaEnt
  <2>3. /\ Bounds[Zone(t)] = meta.reladyn /\ Bounds[Zone(t) + 1] = meta.relaplt
        /\ meta.reladyn \in Nat /\ meta.relaplt \in Nat
    BY <1>1, <1>4, <1>10
  <2> QED BY <1>10, <2>1, <2>2, <2>3 DEF Between
<1>11. CASE t = RelaPltTarget /\ Zone(t) = 8
  <2>1. t.va = meta.relaplt /\ t.size = Len(RelaPlt) * RelaEnt
    BY <1>5, <1>11 DEF RelaPltTarget
  <2>2. Len(RelaPlt) * RelaEnt \in Nat
    BY <1>3 DEF RelaEnt
  <2>3. meta.relaplt + Len(RelaPlt) * RelaEnt <= outVa[DATA] + meta.delta
    BY Tables DEF Fits
  <2>4. /\ Bounds[Zone(t)] = meta.relaplt /\ Bounds[Zone(t) + 1] = outVa[DATA] + meta.delta
        /\ meta.relaplt \in Nat /\ outVa[DATA] + meta.delta \in Nat
    BY <1>1, <1>4, <1>11
  <2> QED BY <1>11, <2>1, <2>2, <2>3, <2>4 DEF Between
<1>12. CASE t = GotTarget /\ Zone(t) = 10
  <2>1. t.va = meta.got /\ t.size = (Len(gots) + Len(plts)) * GotEnt
    BY <1>5, <1>12 DEF GotTarget
  <2>2. /\ (Len(gots) + Len(plts)) * GotEnt \in Nat
        /\ meta.got + (Len(gots) + Len(plts)) * GotEnt = meta.dynamic
    BY <1>3, Tables DEF GotEnt
  <2>3. /\ Bounds[Zone(t)] = meta.got /\ Bounds[Zone(t) + 1] = meta.dynamic
        /\ meta.got \in Nat /\ meta.dynamic \in Nat
    BY <1>1, <1>4, <1>12
  <2> QED BY <1>12, <2>1, <2>2, <2>3 DEF Between
<1>13. CASE t = DynamicTarget /\ Zone(t) = 11
  <2>1. t.va = meta.dynamic /\ t.size = DynamicSize
    BY <1>5, <1>13 DEF DynamicTarget
  <2>2. DynamicSize \in Nat /\ meta.dynamic + DynamicSize = RwEnd
    BY <1>3 DEF RwEnd
  <2>3. /\ Bounds[Zone(t)] = meta.dynamic /\ Bounds[Zone(t) + 1] = RwEnd
        /\ meta.dynamic \in Nat /\ RwEnd \in Nat
    BY <1>1, <1>4, <1>13
  <2> QED BY <1>13, <2>1, <2>2, <2>3 DEF Between
<1> QED BY <1>6, <1>7, <1>8, <1>9, <1>10, <1>11, <1>12, <1>13 DEF Synthetic

LEMMA TargetZone ==
    ASSUME StaticInv, DynInv, Ready, Fits, NEW t \in Targets
    PROVE  /\ Zone(t) \in 1 .. 11 /\ Between(t, Zone(t))
           /\ \/ /\ t.what = "sec" /\ t.id \in SecIds /\ InFile(t.id)
                 /\ t = Target("sec", t.id, Va(t.id), Secs[t.id].size)
                 /\ Zone(t) \in {1, 3, 9}
              \/ t.what # "sec" /\ Synthetic(t) /\ Zone(t) \in {2, 4, 5, 6, 7, 8, 10, 11}
<1>1. CASE /\ t.what = "sec" /\ t.id \in SecIds
           /\ HasData(t.id) /\ Secs[t.id].slot # DISCARD
           /\ t = Target("sec", t.id, Va(t.id), Secs[t.id].size)
  <2>1. LInv
    BY Tables
  <2>2. Secs[t.id].slot \in Slots
    BY <1>1, <2>1, Inputs DEF LInv
  <2>3. InFile(t.id)
    BY <1>1, <2>2 DEF InFile
  <2>4. Zone(t) \in {1, 3, 9} /\ Between(t, Zone(t))
    BY <1>1, <2>3, SectionZone
  <2> QED BY <1>1, <2>3, <2>4
<1>2. CASE t.what # "sec" /\ t.size > 0 /\ Synthetic(t)
  <2>1. Zone(t) \in {2, 4, 5, 6, 7, 8, 10, 11} /\ Between(t, Zone(t))
    BY <1>2, SyntheticZone
  <2> QED BY <1>2, <2>1
<1> QED BY <1>1, <1>2, TargetKinds

\* Two sections of one zone keep the order of the layout.
LEMMA SectionsApart ==
    ASSUME StaticInv, DynInv, Ready, NEW i \in SecIds, NEW j \in SecIds, InFile(i), InFile(j),
           Before(i, j), MovedBy(Secs[i].slot) = MovedBy(Secs[j].slot)
    PROVE  Va(i) + Secs[i].size <= Va(j)
<1>1. LInv /\ AboveStart /\ lpc = "laid" /\ meta.delta \in Nat
  BY Tables
<1>2. /\ addr[i] \in Nat /\ Secs[i].size \in Nat \ {0} /\ addr[j] \in Nat
      /\ addr[i] + Secs[i].size <= addr[j]
  BY <1>1, Laid
<1>3. MovedBy(Secs[i].slot) \in Nat
  BY <1>1 DEF MovedBy
<1> QED BY <1>2, <1>3 DEF Va

LEMMA SameZone ==
    ASSUME StaticInv, DynInv, Ready, Fits, NEW t \in Targets, NEW u \in Targets, t # u,
           Zone(t) = Zone(u)
    PROVE  t.va + t.size <= u.va \/ u.va + u.size <= t.va
<1>1. CASE t.what # "sec" \/ u.what # "sec"
  <2>1. Synthetic(t) /\ Synthetic(u)
    BY <1>1, TargetZone
  <2> QED BY <2>1 DEF Synthetic
<1>2. CASE t.what = "sec" /\ u.what = "sec"
  <2> DEFINE i == t.id
             j == u.id
  <2>1. /\ i \in SecIds /\ InFile(i) /\ t = Target("sec", i, Va(i), Secs[i].size)
        /\ j \in SecIds /\ InFile(j) /\ u = Target("sec", j, Va(j), Secs[j].size)
    BY <1>2, TargetZone
  <2>2. t.va = Va(i) /\ t.size = Secs[i].size /\ u.va = Va(j) /\ u.size = Secs[j].size
    BY <2>1 DEF Target
  <2>3. i # j
    BY <2>1
  <2>4. LInv /\ AboveStart /\ lpc = "laid"
    BY Tables
  <2>5. Secs[i].slot \in 1 .. 4 /\ Secs[j].slot \in 1 .. 4 /\ i \in Int /\ j \in Int
    BY <2>1, <2>4, Laid DEF SecIds
  <2>6. MovedBy(Secs[i].slot) = MovedBy(Secs[j].slot)
    <3>1. /\ Zone(t) = IF Secs[i].slot = 1 THEN 1 ELSE IF Secs[i].slot = 2 THEN 3 ELSE 9
          /\ Zone(u) = IF Secs[j].slot = 1 THEN 1 ELSE IF Secs[j].slot = 2 THEN 3 ELSE 9
      BY <1>2 DEF Zone, TEXT, RODATA
    <3>2. \A s \in 1 .. 4 : MovedBy(s) = IF s \in {1, 2} THEN 0 ELSE meta.delta
      BY DEF MovedBy, Writable, DATA, INIT_ARRAY, BSS
    <3>3. Secs[i].slot = Secs[j].slot \/ (Secs[i].slot \in {3, 4} /\ Secs[j].slot \in {3, 4})
      <4>1. \A a, b \in 1 .. 4 :
              (IF a = 1 THEN 1 ELSE IF a = 2 THEN 3 ELSE 9)
                = (IF b = 1 THEN 1 ELSE IF b = 2 THEN 3 ELSE 9)
              => a = b \/ (a \in {3, 4} /\ b \in {3, 4})
        OBVIOUS
      <4> QED BY ZenonT(30), <2>5, <3>1, <4>1
    <3> QED BY <2>5, <3>2, <3>3
  <2>7. Before(i, j) \/ Before(j, i)
    BY <2>3, <2>5 DEF Before
  <2> HIDE DEF i, j
  <2>8. Va(i) + Secs[i].size <= Va(j) \/ Va(j) + Secs[j].size <= Va(i)
    BY <2>1, <2>6, <2>7, SectionsApart
  <2> QED BY <2>2, <2>8
<1> QED BY <1>1, <1>2

\* No two targets overlap.
LEMMA TargetsApart ==
    ASSUME StaticInv, DynInv, Ready, Fits, NEW t \in Targets, NEW u \in Targets, t # u,
           t.va <= u.va
    PROVE  t.va + t.size <= u.va
<1>1. /\ Zone(t) \in 1 .. 11 /\ Between(t, Zone(t))
      /\ Zone(u) \in 1 .. 11 /\ Between(u, Zone(u))
  BY TargetZone
<1> DEFINE y == Zone(t)
           z == Zone(u)
<1>2. /\ t.va \in Nat /\ t.size \in Nat \ {0} /\ Bounds[y] <= t.va /\ t.va + t.size <= Bounds[y + 1]
      /\ u.va \in Nat /\ u.size \in Nat \ {0} /\ Bounds[z] <= u.va /\ u.va + u.size <= Bounds[z + 1]
  BY <1>1 DEF Between
<1>3. /\ \A a \in 1 .. 12 : Bounds[a] \in Nat
      /\ \A a, b \in 1 .. 12 : a <= b => Bounds[a] <= Bounds[b]
  BY BoundsAscend
<1>4. y \in 1 .. 11 /\ z \in 1 .. 11
  BY <1>1
<1> HIDE DEF y, z
<1>5. CASE y < z
  <2>1. Bounds[y + 1] <= Bounds[z] /\ Bounds[y + 1] \in Nat /\ Bounds[z] \in Nat
    BY <1>3, <1>4, <1>5
  <2> QED BY <1>2, <2>1
<1>6. CASE z < y
  <2>1. Bounds[z + 1] <= Bounds[y] /\ Bounds[z + 1] \in Nat /\ Bounds[y] \in Nat
    BY <1>3, <1>4, <1>6
  <2> QED BY <1>2, <2>1
<1>7. CASE y = z
  <2>1. t.va + t.size <= u.va \/ u.va + u.size <= t.va
    BY <1>7, SameZone DEF y, z
  <2> QED BY <1>2, <2>1
<1> QED BY <1>4, <1>5, <1>6, <1>7

\* While the targets are appended, and afterwards: each of them is in the
\* file or still to come, those in the file lie at their addresses, and the
\* file does not reach those to come.
Written(t) == \E e \in filepos : e.target = t
Emission ==
    pc = "dynemit" \/ DynDone =>
        /\ left \subseteq Targets
        /\ \A e \in filepos : e.target \in Targets
        /\ \A t \in Targets : t \in left \/ Written(t)
        /\ Fits => /\ len \in Nat
                   /\ \A e \in filepos : e.pos = e.target.va
                   /\ \A t \in left : len <= t.va
        /\ pc = "done" => left = {}

\* The targets, once collected, stay.
LEMMA TargetsStay ==
    ASSUME UNCHANGED layoutVars, UNCHANGED <<dsyms, gots, plts, rdyn, meta>>
    PROVE  Targets' = Targets /\ (Fits' <=> Fits)
<1>1. /\ Secs' = Secs /\ SecIds' = SecIds /\ addr' = addr /\ outVa' = outVa /\ outSize' = outSize
  BY LayoutFixed
<1>2. RelaDyn' = RelaDyn /\ RelaPlt' = RelaPlt /\ Total' = Total /\ REnd' = REnd
  BY DEF RelaDyn, RelaPlt, Total, REnd
<1>3. DynamicSize' = DynamicSize
  BY <1>1, <1>2 DEF DynamicSize
<1>4. \A i : Va(i)' = Va(i) /\ (HasData(i)' <=> HasData(i))
  BY <1>1 DEF Va, MovedBy, HasData
<1>5. SectionTargets' = SectionTargets
  BY <1>1, <1>4 DEF SectionTargets
<1>6. /\ PltTarget' = PltTarget /\ HashTarget' = HashTarget /\ DynsymTarget' = DynsymTarget
      /\ DynstrTarget' = DynstrTarget /\ RelaDynTarget' = RelaDynTarget
      /\ RelaPltTarget' = RelaPltTarget /\ GotTarget' = GotTarget
      /\ DynamicTarget' = DynamicTarget
  BY <1>2, <1>3 DEF PltTarget, HashTarget, DynsymTarget, DynstrTarget, RelaDynTarget,
     RelaPltTarget, GotTarget, DynamicTarget
<1>7. Targets = SectionTargets \cup
        {t \in {PltTarget, HashTarget, DynsymTarget, DynstrTarget, RelaDynTarget, RelaPltTarget,
                GotTarget, DynamicTarget} : t.size > 0}
  BY DEF Targets, PltTarget, HashTarget, DynsymTarget, DynstrTarget, RelaDynTarget,
     RelaPltTarget, GotTarget, DynamicTarget
<1>8. Targets' = SectionTargets' \cup
        {t \in {PltTarget', HashTarget', DynsymTarget', DynstrTarget', RelaDynTarget',
                RelaPltTarget', GotTarget', DynamicTarget'} : t.size > 0}
  BY DEF Targets, PltTarget, HashTarget, DynsymTarget, DynstrTarget, RelaDynTarget,
     RelaPltTarget, GotTarget, DynamicTarget
<1>9. Targets' = Targets
  BY <1>5, <1>6, <1>7, <1>8
<1> QED BY <1>1, <1>2, <1>9 DEF Fits

LEMMA StartEmission ==
    ASSUME StaticInv, DynInv, StartEmit
    PROVE  Emission'
<1>1. /\ UNCHANGED layoutVars /\ UNCHANGED <<dsyms, gots, plts, rdyn, meta>>
      /\ left' = Targets /\ len' = Headers /\ filepos' = {} /\ pc' = "dynemit" /\ pc = "hash"
  BY DEF StartEmit
<1>2. Targets' = Targets /\ (Fits' <=> Fits)
  BY <1>1, TargetsStay
<1>3. Ready
  BY <1>1 DEF Ready, StaticInv, Phase, DynPhases
<1>4. Headers \in Nat /\ Headers <= Start /\ Start \in Nat
  BY ReserveAssumption, PageAssumption
<1>5. ASSUME Fits, NEW t \in Targets
      PROVE  Headers <= t.va
  <2>1. Zone(t) \in 1 .. 11 /\ Between(t, Zone(t))
    BY <1>3, <1>5, TargetZone
  <2>2. /\ \A a \in 1 .. 12 : Bounds[a] \in Nat
        /\ \A a, b \in 1 .. 12 : a <= b => Bounds[a] <= Bounds[b]
    BY <1>3, <1>5, BoundsAscend
  <2>3. Bounds[1] <= Bounds[Zone(t)] /\ Bounds[Zone(t)] \in Nat /\ Bounds[1] = Start
    BY <2>1, <2>2 DEF Bounds
  <2>4. t.va \in Nat /\ Bounds[Zone(t)] <= t.va
    BY <2>1 DEF Between
  <2> QED BY <1>4, <2>3, <2>4
<1> QED BY <1>1, <1>2, <1>4, <1>5 DEF Emission

LEMMA EmitAtKeeps ==
    ASSUME StaticInv, DynInv, Emission, EmitAt
    PROVE  Emission'
<1>1. /\ UNCHANGED layoutVars /\ UNCHANGED <<dsyms, gots, plts, rdyn, meta>>
      /\ pc = "dynemit" /\ pc' = "dynemit"
  BY DEF EmitAt
<1>2. Targets' = Targets /\ (Fits' <=> Fits)
  BY <1>1, TargetsStay
<1>3. Ready
  BY <1>1 DEF Ready, StaticInv, Phase, DynPhases
<1>4. PICK t \in left :
        /\ NextTarget(t) /\ left' = left \ {t}
        /\ filepos' = filepos \cup {[target |-> t, pos |-> Longer(len, t.va)]}
        /\ len' = Longer(len, t.va) + t.size
  BY DEF EmitAt
<1> DEFINE d == [target |-> t, pos |-> Longer(len, t.va)]
<1>5. /\ left \subseteq Targets /\ t \in Targets
      /\ \A e \in filepos : e.target \in Targets
      /\ \A u \in Targets : u \in left \/ Written(u)
      /\ Fits => /\ len \in Nat
                 /\ \A e \in filepos : e.pos = e.target.va
                 /\ \A u \in left : len <= u.va
  BY <1>1 DEF Emission
<1>6. filepos' = filepos \cup {d} /\ d.target = t /\ d.pos = Longer(len, t.va)
  BY <1>4
<1> HIDE DEF d
<1>7. /\ \A e \in filepos' : e.target \in Targets
      /\ \A u \in Targets : u \in left' \/ \E e \in filepos' : e.target = u
  BY <1>4, <1>5, <1>6 DEF Written
<1>8. ASSUME Fits
      PROVE  /\ len' \in Nat
             /\ \A e \in filepos' : e.pos = e.target.va
             /\ \A u \in left' : len' <= u.va
  <2>0. t.va \in Nat /\ t.size \in Nat
    BY <1>3, <1>5, <1>8, TargetZone DEF Between
  <2>1. len <= t.va /\ Longer(len, t.va) = t.va /\ len' = t.va + t.size
    BY <1>4, <1>5, <1>8, <2>0 DEF Longer
  <2>2. \A u \in left' : u \in Targets /\ u # t /\ t.va <= u.va
    <3> TAKE u \in left'
    <3>1. u \in left /\ u \in Targets /\ u # t /\ (t.va < u.va \/ t.va = u.va)
      BY <1>4, <1>5 DEF NextTarget
    <3>2. u.va \in Nat
      BY <1>3, <1>8, <3>1, TargetZone DEF Between
    <3> QED BY <2>0, <3>1, <3>2
  <2>3. \A u \in left' : t.va + t.size <= u.va
    BY <1>3, <1>5, <1>8, <2>2, TargetsApart
  <2> QED BY <1>5, <1>6, <1>8, <2>0, <2>1, <2>3
<1> QED BY <1>1, <1>2, <1>4, <1>5, <1>7, <1>8 DEF Emission, Written

LEMMA EmissionStep ==
    ASSUME StaticInv, DynInv, Emission, DynStep
    PROVE  Emission'
<1>1. CASE StartEmit
  BY <1>1, StartEmission
<1>2. CASE EmitAt
  BY <1>2, EmitAtKeeps
<1>3. CASE DynWriteFile
  <2>1. /\ UNCHANGED layoutVars /\ UNCHANGED <<dsyms, gots, plts, rdyn, meta>>
        /\ UNCHANGED <<left, len, filepos>> /\ pc = "dynemit" /\ left = {}
    BY <1>3 DEF DynWriteFile
  <2>2. Targets' = Targets /\ (Fits' <=> Fits)
    BY <2>1, TargetsStay
  <2> QED BY <2>1, <2>2 DEF Emission, Written
<1>4. CASE pc' \notin {"dynemit", "done"}
  BY <1>4 DEF Emission, DynDone
<1>5. StartEmit \/ EmitAt \/ DynWriteFile \/ pc' \notin {"dynemit", "done"}
  BY DEF DynStep, ScanPc32, ScanPlt32, ScanGot, ScanR64, Scanned, SkipDiscarded, ScanFails,
     Export, Listed, DoubleBuckets, Synthesize, FillExports, ApplyFixups, DynFindEntry,
     DynEntryMissing, PushHash
<1> QED BY <1>1, <1>2, <1>3, <1>4, <1>5

-----------------------------------------------------------------------------
(* What the loader finds                                                   *)

TablesInv ==
    link.mode # "static" => Exporting /\ Valued /\ Names /\ Unpushed /\ Chains /\ Emission

LEMMA TablesStutter ==
    ASSUME TablesInv, UNCHANGED vars
    PROVE  TablesInv'
<1>1. /\ UNCHANGED layoutVars /\ UNCHANGED <<pc, len>>
      /\ UNCHANGED <<dsyms, gots, plts, rdyn, exps, xi, nbucket, buckets, chain, meta, left, filepos>>
  BY DEF vars, linkVars, dynVars, hashVars
<1>2. link' = link /\ \A y : ShiftedAddr(y)' = ShiftedAddr(y)
  BY <1>1, LayoutFixed, ShiftedStays
<1>3. \A j : Bucket(j)' = Bucket(j)
  BY <1>1 DEF Bucket
<1>4. Targets' = Targets /\ (Fits' <=> Fits)
  BY <1>1, TargetsStay
<1> SUFFICES ASSUME link.mode # "static"
             PROVE  Exporting' /\ Valued' /\ Names' /\ Unpushed' /\ Chains' /\ Emission'
  BY <1>2 DEF TablesInv
<1>5. Exporting /\ Valued /\ Names /\ Unpushed /\ Chains /\ Emission
  BY DEF TablesInv
<1>6. Exporting' /\ Names' /\ Unpushed'
  BY <1>1, <1>2, <1>5 DEF Exporting, Names, Unpushed
<1>7. Valued'
  BY <1>1, <1>2, <1>5 DEF Valued, DynDone
<1>8. Chains'
  BY <1>1, <1>2, <1>3, <1>5 DEF Chains, DynDone
<1>9. Emission'
  BY <1>1, <1>2, <1>4, <1>5 DEF Emission, Written, DynDone
<1> QED BY <1>6, <1>7, <1>8, <1>9

LEMMA TablesStart ==
    ASSUME TablesInv, Lay, UNCHANGED dynVars
    PROVE  TablesInv'
<1>1. /\ pc = "layout" /\ link' = link /\ pc' \in {"layout", "reloc", "scan"}
      /\ UNCHANGED <<dsyms, exps, xi, chain>>
  <2>1. pc = "layout" /\ LayoutNext /\ pc' \in {"layout", "reloc", "scan"}
    BY DEF Lay
  <2>2. link' = link
    BY <2>1 DEF LayoutNext, OpenSlot, PlaceSection, SkipSection, SectionsPlaced, PlaceCommon,
       CommonsPlaced, CloseSlot
  <2> QED BY <2>1, <2>2 DEF dynVars, hashVars
<1>2. Valued' /\ Chains' /\ Emission'
  BY <1>1 DEF Valued, Chains, Emission, DynDone
<1> QED BY <1>1, <1>2 DEF TablesInv, Exporting, Names, Unpushed

LEMMA TablesInvariant ==
    Spec => [](StaticInv /\ DynInv /\ Records /\ Buckets /\ TablesInv)
<1>1. Init => TablesInv
  <2> SUFFICES ASSUME Init PROVE TablesInv
    OBVIOUS
  <2>1. dsyms = << >> /\ exps = << >> /\ xi = 1 /\ chain = << >> /\ pc = "layout"
    BY DEF Init, LinkInit, DynInit
  <2>2. ToSet(exps) = {} /\ IsSeq(exps) /\ Len(dsyms) = 0
    BY <2>1, EmptyTable
  <2>3. Exporting /\ Names /\ Unpushed
    BY <2>1, <2>2 DEF Exporting, Names, Unpushed
  <2>4. Valued /\ Chains /\ Emission
    BY <2>1 DEF Valued, Chains, Emission, DynDone
  <2> QED BY <2>3, <2>4 DEF TablesInv
<1>2. StaticInv /\ DynInv /\ Records /\ Buckets /\ TablesInv /\ [Next]_vars => TablesInv'
  <2> SUFFICES ASSUME StaticInv, DynInv, Records, Buckets, TablesInv, [Next]_vars
               PROVE  TablesInv'
    OBVIOUS
  <2>1. CASE Lay /\ UNCHANGED <<staticVars, dynVars>>
    BY <2>1, TablesStart
  <2>2. CASE StaticStep /\ UNCHANGED dynVars
    <3>1. pc \in StaticPhases /\ UNCHANGED layoutVars
      BY <2>2, StaticLeaves DEF StaticStep, Relocate, RelocateFails, Relocated, FindEntry,
         EntryMissing, EmitSlot, EmitSection, EmitNothing, SlotEmitted, WriteFile, StaticPhases
    <3>2. link'.mode = "static"
      BY <3>1, LayoutFixed DEF StaticInv, Phase
    <3> QED BY <3>2 DEF TablesInv
  <2>3. CASE DynStep
    <3>1. link.mode # "static"
      BY <2>3, DynPhase, DynStart
    <3>2. Exporting /\ Valued /\ Names /\ Unpushed /\ Chains /\ Emission /\ xi \in Nat \ {0}
      BY <3>1 DEF TablesInv, Exporting
    <3>3. Exporting' /\ Valued' /\ Names'
      BY <2>3, <3>2, ExportingStep, NamesStep
    <3>4. Unpushed' /\ Chains' /\ Emission'
      BY <2>3, <3>2, ChainsStep, EmissionStep
    <3> QED BY <3>3, <3>4 DEF TablesInv
  <2>4. CASE UNCHANGED vars
    BY <2>4, TablesStutter
  <2> QED BY <2>1, <2>2, <2>3, <2>4 DEF Next, Terminated
<1> QED BY <1>1, <1>2, DynInvariant, PTL DEF Spec

(* The loader, following the chain of a name's bucket, visits every dynamic *)
(* symbol of the bucket and ends at the null entry: .hash, filled symbol by *)
(* symbol once .dynsym is complete, finds all that the object exports or    *)
(* imports, however many buckets there are (elf_link, step 7).              *)
THEOREM HashFindsSymbols == Spec => []HashFindsAll
<1>1. StaticInv /\ DynInv /\ Records /\ Buckets /\ TablesInv => HashFindsAll
  <2> SUFFICES ASSUME StaticInv, DynInv, Buckets, TablesInv, DynDone
               PROVE  HashFindsAll
    BY DEF HashFindsAll
  <2>1. IsSeq(dsyms) /\ Names /\ Chains
    BY DEF DynDone, DynInv, DynTypeOK, TablesInv
  <2> QED BY <2>1, ChainsFindAll
<1> QED BY <1>1, TablesInvariant, PTL

\* A definition another object may bind to is in a section that is kept.
ExportsDefined ==
    link.mode # "static" =>
        \A n \in 1 .. Len(link.exports) : LET y == link.exports[n].sym IN
            y.kind = "sec" => y.id \in SecIds /\ Secs[y.id].slot # DISCARD

\* The writable segment begins with .data.
LEMMA WritableStart ==
    ASSUME StaticInv, DynInv, Ready, Fits
    PROVE  RwStart = Bounds[9]
<1>1. LInv /\ lpc = "laid" /\ meta.delta \in Nat /\ meta.delta % Page = 0
  BY Tables
<1>2. LayoutTypeOK /\ Where /\ Extents
  BY <1>1 DEF LInv
<1>3. Opened(DATA) /\ DATA \in Slots /\ OutAlign(DATA) = Page
  BY <1>1, <1>2 DEF Where, Opened, Slots, DATA, TEXT, BSS, OutAlign, INIT_ARRAY
<1>4. outVa[DATA] \in Nat /\ outVa[DATA] % Page = 0
  BY <1>2, <1>3, Inputs DEF Extents
<1>5. Page \in Nat \ {0}
  BY PageAssumption
<1> DEFINE v == outVa[DATA] + meta.delta
<1>6. v \in Nat /\ v % Page = 0
  BY <1>1, <1>4, <1>5, AlignedSum
<1>7. v = Bounds[9]
  BY DEF Bounds
<1>8. Longer(REnd, v) = v
  <2>1. REnd <= v
    BY DEF Fits
  <2>2. REnd \in Int
    <3>1. meta.relaplt \in Nat /\ REnd = meta.relaplt + Len(RelaPlt) * RelaEnt /\ DynTypeOK
      BY Tables
    <3>2. Len(RelaPlt) \in Nat
      BY <3>1, TableSizes
    <3> QED BY <3>1, <3>2 DEF RelaEnt
  <2> HIDE DEF v
  <2> QED BY <1>6, <2>1, <2>2 DEF Longer
<1>9. AlignUp(v, Page) = v
  BY <1>5, <1>6, AlignedStays
<1> QED BY <1>7, <1>8, <1>9 DEF RwStart

LEMMA WritableParts ==
    ASSUME StaticInv, DynInv, Ready, Fits, NEW t \in Targets,
           t.what \in {"got", "dynamic"} \/ (t.what = "sec" /\ Writable(Secs[t.id].slot))
    PROVE  RwStart <= t.va /\ t.va + t.size <= RwEnd
<1>1. Zone(t) \in {9, 10, 11}
  BY DEF Zone, Writable, TEXT, RODATA, DATA, INIT_ARRAY, BSS
<1>2. Between(t, Zone(t))
  BY TargetZone
<1>3. /\ \A a \in 1 .. 12 : Bounds[a] \in Nat
      /\ \A a, b \in 1 .. 12 : a <= b => Bounds[a] <= Bounds[b]
  BY BoundsAscend
<1> DEFINE z == Zone(t)
<1>4. /\ Bounds[9] <= Bounds[z] /\ Bounds[z + 1] <= Bounds[12]
      /\ Bounds[9] \in Nat /\ Bounds[z] \in Nat /\ Bounds[z + 1] \in Nat /\ Bounds[12] \in Nat
  BY <1>1, <1>3
<1>5. t.va \in Nat /\ t.size \in Nat /\ Bounds[z] <= t.va /\ t.va + t.size <= Bounds[z + 1]
  BY <1>2 DEF Between
<1>6. RwStart = Bounds[9] /\ RwEnd = Bounds[12]
  BY WritableStart DEF Bounds
<1> HIDE DEF z
<1> QED BY <1>4, <1>5, <1>6

\* The value of an exported definition is where its section lies.
LEMMA ExportPlaced ==
    ASSUME StaticInv, DynInv, TablesInv, ExportsDefined, DynDone, Fits, NEW i \in 1 .. Len(exps),
           exps[i].sym.kind = "sec", HasData(exps[i].sym.id)
    PROVE  \E e \in filepos :
              /\ e.target.what = "sec" /\ e.target.id = exps[i].sym.id
              /\ dsyms[exps[i].pos].value = e.pos + exps[i].sym.val
<1> DEFINE y == exps[i].sym
           t == Target("sec", y.id, Va(y.id), Secs[y.id].size)
<1>1. Exporting /\ Valued /\ Emission /\ link.mode # "static" /\ link \in Links
  BY DEF TablesInv, DynDone, StaticInv, Phase
<1>2. exps[i] \in ToSet(exps)
  BY <1>1, SeqFacts DEF Exporting, ToSet
<1>3. PICK n \in 1 .. Len(link.exports) : y = link.exports[n].sym
  BY <1>1, <1>2 DEF Exporting
<1>4. y.id \in SecIds /\ Secs[y.id].slot # DISCARD
  BY <1>1, <1>3 DEF ExportsDefined
<1>5. y.val \in Nat
  <2>1. link.exports \in Seq(ExportRef)
    BY <1>1, DynAssumption, Zenon
  <2>2. link.exports[n] \in ExportRef
    BY <1>3, <2>1
  <2>3. y \in SymRef
    BY <1>3, <2>2 DEF ExportRef
  <2> QED BY <2>3 DEF SymRef
<1>6. t \in Targets /\ t.what = "sec" /\ t.id = y.id /\ t.va = Va(y.id)
  BY SMTT(30), <1>4 DEF Targets, SectionTargets, Target
<1>7. PICK e \in filepos : e.target = t /\ e.pos = t.va
  BY <1>1, <1>6 DEF Emission, Written, DynDone
<1>8. dsyms[exps[i].pos].value = ShiftedAddr(y)
  BY <1>1, <1>2 DEF Valued
<1>9. ShiftedAddr(y) = Va(y.id) + y.val
  <2>1. ShiftedAddr(y) = addr[y.id] + y.val + MovedBy(Secs[y.id].slot)
    BY DEF ShiftedAddr, SymAddr
  <2>2. addr[y.id] \in Nat /\ meta.delta \in Nat
    BY <1>1, <1>4, Inputs DEF DynInv, Synthesized, DynDone, StaticInv, LInv
  <2>3. MovedBy(Secs[y.id].slot) \in Nat
    BY <2>2 DEF MovedBy
  <2> QED BY <1>5, <2>1, <2>2, <2>3 DEF Va
<1> QED BY <1>6, <1>7, <1>8, <1>9

(* In a shared object or a PIE whose parts fit, every part is in the file  *)
(* at the offset that is its address, the writable ones within the         *)
(* writable segment, and the value of an exported definition, listed       *)
(* before the writable sections were moved, is where its section's bytes   *)
(* are (elf_link, steps 3b, 5b and 9).                                     *)
THEOREM ExportsAtTheirPlace == Spec => [](ExportsDefined => ExportsInFile)
<1>1. StaticInv /\ DynInv /\ Records /\ Buckets /\ TablesInv /\ ExportsDefined => ExportsInFile
  <2> SUFFICES ASSUME StaticInv, DynInv, TablesInv, ExportsDefined, DynDone, Fits
               PROVE  ExportsInFile
    BY DEF ExportsInFile
  <2>1. Ready /\ Emission
    BY DEF DynDone, Ready, TablesInv
  <2>2. \A e \in filepos : e.pos = e.target.va /\ e.target \in Targets
    BY <2>1 DEF Emission
  <2>3. \A t \in Targets :
          t.what \in {"got", "dynamic"} \/ (t.what = "sec" /\ Writable(Secs[t.id].slot)) =>
            RwStart <= t.va /\ t.va + t.size <= RwEnd
    BY <2>1, WritableParts
  <2>4. \A i \in 1 .. Len(exps) : exps[i].sym.kind = "sec" /\ HasData(exps[i].sym.id) =>
            \E e \in filepos :
                /\ e.target.what = "sec" /\ e.target.id = exps[i].sym.id
                /\ dsyms[exps[i].pos].value = e.pos + exps[i].sym.val
    BY ExportPlaced
  <2> QED BY <2>2, <2>3, <2>4 DEF ExportsInFile
<1> QED BY <1>1, TablesInvariant, PTL

-----------------------------------------------------------------------------
(* References in the file                                                  *)

\* Every part is in the file, at its address.
LEMMA PartInFile ==
    ASSUME StaticInv, DynInv, TablesInv, DynDone, Fits, NEW t \in Targets
    PROVE  /\ t.va \in Nat
           /\ \A v : FileHas(t.what, t.id, v, t.va + v)
           /\ \E e \in filepos : e.target = t /\ e.pos = t.va
<1>1. Emission /\ Ready
  BY DEF TablesInv, DynDone, Ready
<1>2. PICK e \in filepos : e.target = t /\ e.pos = t.va
  BY <1>1 DEF Emission, Written, DynDone
<1>3. t.va \in Nat
  BY <1>1, TargetZone DEF Between
<1> QED BY <1>2, <1>3 DEF FileHas

\* The synthesized parts have one target each, so that the file has nothing
\* else at their offsets.
LEMMA PartOnce ==
    ASSUME StaticInv, DynInv, TablesInv, DynDone, Fits, NEW v, NEW off,
           FileHas("got", 0, off, v)
    PROVE  v = meta.got + off
<1>1. Emission /\ Ready
  BY DEF TablesInv, DynDone, Ready
<1>2. PICK e \in filepos : e.target.what = "got" /\ e.pos + off = v
  BY DEF FileHas
<1>3. e.pos = e.target.va /\ e.target \in Targets
  BY <1>1, <1>2 DEF Emission, DynDone
<1>4. Synthetic(e.target) /\ e.target.what = "got"
  BY <1>2, <1>3, TargetKinds
<1>5. e.target = GotTarget
  BY <1>4 DEF Synthetic, Zone
<1>6. GotTarget.va = meta.got
  BY DEF GotTarget, Target
<1> QED BY <1>2, <1>3, <1>5, <1>6

\* A field that leads to an address leads to what the file has there.
LEMMA FieldInFile ==
    ASSUME StaticInv, DynInv, TablesInv, DynSmall, DynDone, Fits, NEW i \in Live, FromUnmoved(i),
           NEW t \in Targets, NEW off, FieldTarget(i) = t.va + off
    PROVE  Leads(i, t.what, t.id, off)
<1> DEFINE n == Rels[i].sec
           u == Target("sec", n, Va(n), Secs[n].size)
<1>1. /\ n \in SecIds /\ Rels[i].off \in Nat /\ Rels[i].off < Secs[n].size
      /\ Secs[n].slot # DISCARD /\ LInv
  BY FinishedImage DEF DynSmall, Live
<1>2. Secs[n].slot # BSS /\ Secs[n].size \in Nat
  BY <1>1, Inputs DEF FromUnmoved, Writable, BSS, DATA, LInv
<1>3. u \in Targets /\ u.what = "sec" /\ u.id = n /\ u.va = Va(n)
  BY SMTT(30), <1>1, <1>2 DEF Targets, SectionTargets, Target, HasData
<1>4. PICK f \in filepos : f.target = u /\ f.pos = Va(n)
  BY <1>3, PartInFile
<1>5. FieldTarget(i) = Signed(patch[i]) + (f.pos + Rels[i].off) - Rels[i].add
  BY <1>4 DEF FieldTarget, Place
<1>6. FileHas(t.what, t.id, off, FieldTarget(i))
  BY PartInFile
<1> QED BY <1>3, <1>4, <1>5, <1>6 DEF Leads

\* The tables of the finished file.
LEMMA FileTables ==
    ASSUME StaticInv, DynInv, TablesInv, DynDone, Fits
    PROVE  /\ DynTypeOK /\ Len(plts) \in Nat /\ Len(gots) \in Nat
           /\ meta.plt \in Nat /\ meta.got \in Nat
           /\ meta.gotplt = meta.got + Len(gots) * GotEnt
           /\ Len(plts) > 0 => PltTarget \in Targets /\ RelaPltTarget \in Targets
           /\ Len(plts) + Len(gots) > 0 => GotTarget \in Targets
           /\ Len(RelaDyn) > 0 => RelaDynTarget \in Targets
<1>1. Ready
  BY DEF DynDone, Ready
<1>2. DynTypeOK /\ meta.plt \in Nat /\ meta.got \in Nat
  BY <1>1, Tables
<1>3. Len(RelaDyn) \in Nat /\ Len(RelaPlt) = Len(plts) /\ Len(gots) \in Nat /\ Len(plts) \in Nat
  BY <1>2, TableSizes
<1>4. \A t \in {PltTarget, RelaPltTarget, GotTarget, RelaDynTarget} : t.size > 0 => t \in Targets
  BY DEF Targets, PltTarget, RelaPltTarget, GotTarget, RelaDynTarget
<1>5. /\ PltTarget.size = Len(plts) * PltEnt /\ RelaPltTarget.size = Len(RelaPlt) * RelaEnt
      /\ GotTarget.size = (Len(gots) + Len(plts)) * GotEnt
      /\ RelaDynTarget.size = Len(RelaDyn) * RelaEnt
  BY DEF PltTarget, RelaPltTarget, GotTarget, RelaDynTarget, Target
<1>6. /\ Len(plts) > 0 => PltTarget.size > 0 /\ RelaPltTarget.size > 0
      /\ Len(plts) + Len(gots) > 0 => GotTarget.size > 0
      /\ Len(RelaDyn) > 0 => RelaDynTarget.size > 0
  BY <1>3, <1>5 DEF PltEnt, RelaEnt, GotEnt
<1>7. meta.gotplt = meta.got + Len(gots) * GotEnt
  BY DEF DynInv, Synthesized, DynDone
<1> QED BY <1>2, <1>3, <1>4, <1>6, <1>7

LEMMA CallsAreBound ==
    ASSUME StaticInv, DynInv, TablesInv, DynSmall
    PROVE  CallsBound
<1> SUFFICES ASSUME DynDone, Fits, NEW i \in Live, ImportedBy(i, "PLT32"), FromUnmoved(i)
             PROVE  \E e, j \in 1 .. Len(plts) :
                /\ Leads(i, "plt", 0, (e - 1) * PltEnt)
                /\ FileHas("plt", 0, (e - 1) * PltEnt + JumpEnd + JumpField(e), RelaPlt[j].off)
                /\ FileHas("got", 0, (Len(gots) + e - 1) * GotEnt, RelaPlt[j].off)
                /\ FileHas("relaplt", 0, 0, meta.relaplt)
                /\ DynName(RelaPlt[j].sym) = Rels[i].sym.id
  BY DEF CallsBound, ImportedBy
<1>1. PICK e \in 1 .. Len(plts) :
        /\ FieldTarget(i) = meta.plt + (e - 1) * PltEnt
        /\ RelaPlt[e].off = meta.gotplt + (e - 1) * GotEnt
        /\ DynName(RelaPlt[e].sym) = Rels[i].sym.id
  BY CallEntries
<1>2. /\ Len(plts) \in Nat /\ Len(gots) \in Nat /\ meta.plt \in Nat /\ meta.got \in Nat
      /\ meta.gotplt = meta.got + Len(gots) * GotEnt /\ e \in Nat /\ Len(plts) > 0
  BY FileTables
<1>3. PltTarget \in Targets /\ RelaPltTarget \in Targets /\ GotTarget \in Targets
  BY <1>2, FileTables
<1>4. /\ PltTarget.what = "plt" /\ PltTarget.id = 0 /\ PltTarget.va = meta.plt
      /\ RelaPltTarget.what = "relaplt" /\ RelaPltTarget.id = 0
      /\ RelaPltTarget.va = meta.relaplt
      /\ GotTarget.what = "got" /\ GotTarget.id = 0 /\ GotTarget.va = meta.got
  BY DEF PltTarget, RelaPltTarget, GotTarget, Target
<1>5. Leads(i, "plt", 0, (e - 1) * PltEnt)
  BY <1>1, <1>3, <1>4, FieldInFile
<1>6. FileHas("plt", 0, (e - 1) * PltEnt + JumpEnd + JumpField(e), RelaPlt[e].off)
  <2> DEFINE v == (e - 1) * PltEnt + JumpEnd + JumpField(e)
  <2>0. /\ RelaPlt[e].off = meta.gotplt + (e - 1) * 8 /\ meta.gotplt \in Nat
        /\ v = (e - 1) * 16 + 6 + (meta.gotplt + (e - 1) * 8 - (meta.plt + (e - 1) * 16 + 6))
    <3>1. meta.gotplt \in Nat
      BY <1>2 DEF GotEnt
    <3> QED BY <1>1, <3>1 DEF JumpField, PltEnt, GotEnt, JumpEnd
  <2>1. meta.plt + v = RelaPlt[e].off
    <3> HIDE DEF v
    <3> QED BY <1>2, <2>0
  <2> HIDE DEF v
  <2>2. FileHas("plt", 0, v, meta.plt + v)
    BY <1>3, <1>4, PartInFile
  <2> QED BY <2>1, <2>2 DEF v
<1>7. FileHas("got", 0, (Len(gots) + e - 1) * GotEnt, RelaPlt[e].off)
  <2> DEFINE v == (Len(gots) + e - 1) * GotEnt
  <2>1. meta.got + v = RelaPlt[e].off
    BY <1>1, <1>2 DEF GotEnt
  <2> HIDE DEF v
  <2>2. FileHas("got", 0, v, meta.got + v)
    BY <1>3, <1>4, PartInFile
  <2> QED BY <2>1, <2>2 DEF v
<1>8. FileHas("relaplt", 0, 0, meta.relaplt)
  <2>1. FileHas("relaplt", 0, 0, meta.relaplt + 0) /\ meta.relaplt \in Nat
    BY <1>3, <1>4, PartInFile
  <2> QED BY <2>1
<1> QED BY <1>1, <1>5, <1>6, <1>7, <1>8

LEMMA GotReadsBound ==
    ASSUME StaticInv, DynInv, TablesInv, DynSmall
    PROVE  GotImportsBound
<1> SUFFICES ASSUME DynDone, Fits, NEW i \in Live, ImportedBy(i, "GOT"), FromUnmoved(i)
             PROVE  \E s \in 1 .. Len(gots) : \E j \in 1 .. Len(RelaDyn) :
                /\ Leads(i, "got", 0, (s - 1) * GotEnt)
                /\ \A m \in 1 .. Len(RelaDyn) :
                    FileHas("got", 0, (s - 1) * GotEnt, RelaDyn[m].off) <=> m = j
                /\ FileHas("reladyn", 0, 0, meta.reladyn)
                /\ RelaDyn[j].type = "GLOB_DAT"
                /\ DynName(RelaDyn[j].sym) = Rels[i].sym.id
  BY DEF GotImportsBound, ImportedBy
<1>1. PICK s \in 1 .. Len(gots) : \E j \in 1 .. Len(RelaDyn) :
        /\ FieldTarget(i) = meta.got + (s - 1) * GotEnt
        /\ \A m \in 1 .. Len(RelaDyn) : RelaDyn[m].off = FieldTarget(i) <=> m = j
        /\ RelaDyn[j].type = "GLOB_DAT"
        /\ DynName(RelaDyn[j].sym) = Rels[i].sym.id
  BY GotSlots
<1>2. PICK j \in 1 .. Len(RelaDyn) :
        /\ FieldTarget(i) = meta.got + (s - 1) * GotEnt
        /\ \A m \in 1 .. Len(RelaDyn) : RelaDyn[m].off = FieldTarget(i) <=> m = j
        /\ RelaDyn[j].type = "GLOB_DAT"
        /\ DynName(RelaDyn[j].sym) = Rels[i].sym.id
  BY <1>1
<1>3. Len(plts) \in Nat /\ Len(gots) \in Nat /\ meta.got \in Nat
  BY FileTables
<1>4. Len(RelaDyn) \in Nat
  BY FileTables, TableSizes
<1>5. RelaDynTarget \in Targets /\ GotTarget \in Targets
  BY <1>3, <1>4, FileTables
<1>6. /\ RelaDynTarget.what = "reladyn" /\ RelaDynTarget.id = 0
      /\ RelaDynTarget.va = meta.reladyn
      /\ GotTarget.what = "got" /\ GotTarget.id = 0 /\ GotTarget.va = meta.got
  BY DEF RelaDynTarget, GotTarget, Target
<1> DEFINE v == (s - 1) * GotEnt
<1>7. FileHas("got", 0, v, meta.got + v) /\ \A a : FileHas("got", 0, v, a) => a = meta.got + v
  BY <1>5, <1>6, PartInFile, PartOnce
<1>8. \A m \in 1 .. Len(RelaDyn) : FileHas("got", 0, v, RelaDyn[m].off) <=> m = j
  <2> TAKE m \in 1 .. Len(RelaDyn)
  <2>1. FileHas("got", 0, v, RelaDyn[m].off) <=> RelaDyn[m].off = meta.got + v
    BY <1>7, Zenon
  <2> QED BY <1>2, <2>1
<1>9. Leads(i, "got", 0, v)
  BY <1>2, <1>5, <1>6, FieldInFile
<1>10. FileHas("reladyn", 0, 0, meta.reladyn)
  <2>1. FileHas("reladyn", 0, 0, meta.reladyn + 0) /\ meta.reladyn \in Nat
    BY <1>5, <1>6, PartInFile
  <2> QED BY <2>1
<1> QED BY <1>2, <1>8, <1>9, <1>10

LEMMA ReadOnlyBound ==
    ASSUME StaticInv, DynInv, TablesInv, DynSmall
    PROVE  ReadOnlyRefsReach
<1> SUFFICES ASSUME DynDone, Fits, NEW i \in Live,
                    Rels[i].type \in {"PC32", "PLT32"}, Rels[i].sym.kind = "sec", FromUnmoved(i),
                    Secs[Rels[i].sym.id].slot \in {TEXT, RODATA}, HasData(Rels[i].sym.id)
             PROVE  Leads(i, "sec", Rels[i].sym.id, Rels[i].sym.val)
  BY DEF ReadOnlyRefsReach
<1> DEFINE y == Rels[i].sym
           t == Target("sec", y.id, Va(y.id), Secs[y.id].size)
<1>1. y.id \in SecIds /\ Secs[y.id].slot # DISCARD /\ ~Writable(Secs[y.id].slot)
  <2>1. y.id \in SecIds
    BY DEF DynSmall
  <2>2. \A a \in {TEXT, RODATA} : a # DISCARD /\ ~Writable(a)
    BY DEF TEXT, RODATA, DISCARD, DATA, INIT_ARRAY, BSS, Writable
  <2> QED BY <2>1, <2>2
<1>2. t \in Targets /\ t.what = "sec" /\ t.id = y.id /\ t.va = Va(y.id)
  BY SMTT(30), <1>1 DEF Targets, SectionTargets, Target
<1>3. FieldTarget(i) = FinalAddr(y)
  BY <1>1, ReadOnlyReach
<1>4. addr[y.id] \in Nat /\ y.val \in Nat
  BY <1>1, FinishedImage DEF LInv, LayoutTypeOK, Rel, SymRef
<1>5. FinalAddr(y) = t.va + y.val
  BY <1>1, <1>2, <1>4 DEF FinalAddr, ShiftedAddr, MovedBy, SymAddr, Va
<1> HIDE DEF t
<1> QED BY <1>2, <1>3, <1>5, FieldInFile

(* In every PIE and shared object that elf_link writes and whose parts     *)
(* fit, calls and GOT reads of imports, as they are in the file, are bound *)
(* by the loader to the name they ask for, and fields between sections     *)
(* that are not moved lead to the bytes of their definition, when          *)
(* relocations are well formed and distances fit their fields.             *)
THEOREM DynamicReferencesBound == Spec => [](DynSmall => ReferencesBound)
<1>1. StaticInv /\ DynInv /\ Records /\ Buckets /\ TablesInv => (DynSmall => ReferencesBound)
  BY CallsAreBound, GotReadsBound, ReadOnlyBound DEF ReferencesBound
<1> QED BY <1>1, TablesInvariant, PTL
=============================================================================
