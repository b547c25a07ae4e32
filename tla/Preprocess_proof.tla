-------------------------- MODULE Preprocess_proof --------------------------
(***************************************************************************)
(* Proofs about Preprocess, for all files: the conditional stack of a call *)
(* decides as C does, and files that guard themselves are read once.       *)
(***************************************************************************)
EXTENDS Preprocess, WellFoundedInduction, FiniteSetTheorems, TLAPS

Conditionals == Openers \cup {"elif", "else", "endif"}

(* A non-empty set of naturals has a least element: the first group of its *)
(* level.                                                                  *)
LEMMA LeastElement ==
    ASSUME NEW T, T \subseteq Nat, T # {}
    PROVE  \E x \in T : \A y \in T : x <= y
<1>1. IsWellFoundedOn(OpToRel(<, Nat), Nat)
  BY NatLessThanWellFounded
<1>2. PICK x \in T : \A y \in T : ~(<<y, x>> \in OpToRel(<, Nat))
  BY <1>1, WFMin
<1>3. \A y \in T : ~(y < x)
  BY <1>2 DEF OpToRel
<1> QED
  BY <1>3

-----------------------------------------------------------------------------
(* The groups open before a line, counted.                                 *)

\* A line is counted from the next line on.
LEMMA CountStep ==
    ASSUME NEW lines, NEW j \in Nat \ {0}, NEW ds
    PROVE  /\ Count(lines, j, ds) \in Nat
           /\ lines[j].d \in ds => Count(lines, j + 1, ds) = Count(lines, j, ds) + 1
           /\ lines[j].d \notin ds => Count(lines, j + 1, ds) = Count(lines, j, ds)
<1> DEFINE T(n) == {m \in 1 .. n - 1 : lines[m].d \in ds}
<1>1. IsFiniteSet(T(j)) /\ Cardinality(T(j)) \in Nat
  <2>1. IsFiniteSet(1 .. j - 1)
    BY FS_Interval
  <2>2. T(j) \subseteq 1 .. j - 1
    OBVIOUS
  <2> QED
    BY <2>1, <2>2, FS_Subset, FS_CardinalityType
<1>2. ASSUME lines[j].d \in ds
      PROVE  Cardinality(T(j + 1)) = Cardinality(T(j)) + 1
  <2>1. T(j + 1) = T(j) \cup {j} /\ j \notin T(j)
    BY <1>2
  <2> HIDE DEF T
  <2> QED
    BY <1>1, <2>1, FS_AddElement
<1>3. ASSUME lines[j].d \notin ds
      PROVE  T(j + 1) = T(j)
  BY <1>3
<1> QED
  BY <1>1, <1>2, <1>3 DEF Count

LEMMA LevelStep ==
    ASSUME NEW lines, NEW j \in Nat \ {0}
    PROVE  /\ Level(lines, j) \in Int
           /\ lines[j].d \in Openers => Level(lines, j + 1) = Level(lines, j) + 1
           /\ lines[j].d = "endif" => Level(lines, j + 1) = Level(lines, j) - 1
           /\ lines[j].d \notin Openers \cup {"endif"} => Level(lines, j + 1) = Level(lines, j)
<1>1. "endif" \notin Openers
  BY DEF Openers
<1>2. /\ Count(lines, j, Openers) \in Nat
      /\ lines[j].d \in Openers => Count(lines, j + 1, Openers) = Count(lines, j, Openers) + 1
      /\ lines[j].d \notin Openers => Count(lines, j + 1, Openers) = Count(lines, j, Openers)
  BY CountStep
<1>3. /\ Count(lines, j, {"endif"}) \in Nat
      /\ lines[j].d \in {"endif"} => Count(lines, j + 1, {"endif"}) = Count(lines, j, {"endif"}) + 1
      /\ lines[j].d \notin {"endif"} => Count(lines, j + 1, {"endif"}) = Count(lines, j, {"endif"})
  BY CountStep
<1> QED
  BY <1>1, <1>2, <1>3 DEF Level

\* Lines that open and close nothing leave the level as it is.
LEMMA LevelQuiet ==
    ASSUME NEW lines, NEW i \in Nat \ {0}, NEW j \in Nat, i <= j,
           \A m \in i .. j - 1 : lines[m].d \notin Conditionals
    PROVE  Level(lines, j) = Level(lines, i)
<1>1. ASSUME NEW ds, ds \subseteq Conditionals
      PROVE  Count(lines, j, ds) = Count(lines, i, ds)
  <2>1. {m \in 1 .. j - 1 : lines[m].d \in ds} = {m \in 1 .. i - 1 : lines[m].d \in ds}
    BY <1>1
  <2> QED
    BY <2>1 DEF Count
<1>2. Openers \subseteq Conditionals /\ {"endif"} \subseteq Conditionals
  BY DEF Conditionals
<1> QED
  BY <1>1, <1>2 DEF Level

-----------------------------------------------------------------------------
(* How the groups around a line and their branches grow by one line.       *)

LEMMA EnclosesStep ==
    ASSUME NEW lines, NEW i \in Nat \ {0}, NEW p \in 1 .. i - 1
    PROVE  Encloses(lines, p, i + 1)
               <=> Encloses(lines, p, i) /\ Level(lines, i + 1) > Level(lines, p)
BY DEF Encloses

LEMMA BranchesBelow ==
    ASSUME NEW lines, NEW i \in Nat \ {0}, NEW p \in 1 .. i - 1, NEW m \in Branches(lines, p, i)
    PROVE  m \in 1 .. i - 1
BY DEF Branches

LEMMA BranchesSame ==
    ASSUME NEW lines, NEW i \in Nat \ {0}, NEW p \in 1 .. i - 1,
           lines[i].d \notin {"elif", "else"} \/ Level(lines, i) # Level(lines, p) + 1
    PROVE  Branches(lines, p, i + 1) = Branches(lines, p, i)
BY DEF Branches

LEMMA BranchesNew ==
    ASSUME NEW lines, NEW i \in Nat \ {0}, NEW p \in 1 .. i - 1,
           lines[i].d \in {"elif", "else"}, Level(lines, i) = Level(lines, p) + 1
    PROVE  Branches(lines, p, i + 1) = Branches(lines, p, i) \cup {i}
BY DEF Branches

\* Some branch up to a line has held.
Met(lines, held, p, j) == \E m \in Branches(lines, p, j) : BranchHolds(lines, held, m)

\* What is recorded of later lines does not change what held.
LEMMA BranchesKept ==
    ASSUME NEW lines, NEW held, NEW held2, NEW i \in Nat \ {0}, NEW j, NEW p \in 1 .. i - 1,
           \A m \in 1 .. i - 1 : m \in held <=> m \in held2,
           Branches(lines, p, j) = Branches(lines, p, i)
    PROVE  /\ Met(lines, held2, p, j) <=> Met(lines, held, p, i)
           /\ InFirstTrue(lines, held2, p, j) <=> InFirstTrue(lines, held, p, i)
<1>1. \A m \in Branches(lines, p, i) :
          BranchHolds(lines, held2, m) <=> BranchHolds(lines, held, m)
  BY BranchesBelow DEF BranchHolds
<1> QED
  BY <1>1 DEF Met, InFirstTrue

\* A branch that is added is the one a line is in.
LEMMA BranchAdded ==
    ASSUME NEW lines, NEW held, NEW held2, NEW i \in Nat \ {0}, NEW p \in 1 .. i - 1,
           \A m \in 1 .. i - 1 : m \in held <=> m \in held2,
           lines[i].d \in {"elif", "else"}, Level(lines, i) = Level(lines, p) + 1
    PROVE  /\ Met(lines, held2, p, i + 1)
                  <=> Met(lines, held, p, i) \/ BranchHolds(lines, held2, i)
           /\ InFirstTrue(lines, held2, p, i + 1)
                  <=> ~Met(lines, held, p, i) /\ BranchHolds(lines, held2, i)
<1> DEFINE B == Branches(lines, p, i)
<1>1. Branches(lines, p, i + 1) = B \cup {i}
  BY BranchesNew
<1>2. \A m \in B : m \in Int /\ m < i
  BY BranchesBelow
<1>3. \A m \in B : BranchHolds(lines, held2, m) <=> BranchHolds(lines, held, m)
  BY BranchesBelow DEF BranchHolds
<1> HIDE DEF B
<1>4. Met(lines, held, p, i) <=> \E m \in B : BranchHolds(lines, held, m)
  BY DEF Met, B
<1> QED
  BY <1>1, <1>2, <1>3, <1>4 DEF Met, InFirstTrue

-----------------------------------------------------------------------------
(* The conditional stack of a call, against the lines it has read: one     *)
(* entry per open group, which knows whether a branch has held and whether *)
(* the branch it is in is the first, in a group around that is active.     *)
CondState == [condition_met : BOOLEAN, active : BOOLEAN]

GroupMatch(lines, i, conds, held, p) ==
    /\ Level(lines, p) \in 0 .. Len(conds) - 1
    /\ conds[Level(lines, p) + 1].condition_met <=> Met(lines, held, p, i)
    /\ conds[Level(lines, p) + 1].active
           <=> /\ InFirstTrue(lines, held, p, i)
               /\ \A b \in 1 .. Level(lines, p) : conds[b].active
CondsMatch(lines, i, conds, held) ==
    /\ held \subseteq 1 .. i - 1
    /\ Len(conds) = Level(lines, i)
    /\ \A c \in 1 .. Len(conds) :
          \E p \in 1 .. i - 1 : Encloses(lines, p, i) /\ Level(lines, p) = c - 1
    /\ \A p \in 1 .. i - 1 : Encloses(lines, p, i) => GroupMatch(lines, i, conds, held, p)

\* At the first line nothing is open.
LEMMA MatchAtStart ==
    ASSUME NEW lines
    PROVE  CondsMatch(lines, 1, << >>, {})
<1>1. \A ds : Count(lines, 1, ds) = 0
  <2>1. \A ds : {m \in 1 .. 1 - 1 : lines[m].d \in ds} = {}
    OBVIOUS
  <2> QED
    BY <2>1, FS_EmptySet DEF Count
<1>2. Level(lines, 1) = 0
  BY <1>1 DEF Level
<1> QED
  BY <1>2 DEF CondsMatch

\* If each entry is active when its branch is the first true one and the
\* entries below are active, all are active exactly when the line is live.
LEMMA MatchMeansLive ==
    ASSUME NEW lines, NEW i \in Nat \ {0}, NEW conds \in Seq(CondState), NEW held,
           CondsMatch(lines, i, conds, held)
    PROVE  is_active(conds) <=> Live(lines, held, i)
<1>1. ASSUME is_active(conds) PROVE Live(lines, held, i)
  BY <1>1 DEF is_active, Live, CondsMatch, GroupMatch
<1>2. ASSUME Live(lines, held, i), ~is_active(conds) PROVE FALSE
  <2> DEFINE Bad == {c \in 1 .. Len(conds) : ~conds[c].active}
  <2>1. Bad \subseteq Nat /\ Bad # {}
    BY <1>2 DEF is_active
  <2>2. PICK c \in Bad : \A b \in Bad : c <= b
    BY <2>1, LeastElement
  <2>3. \A b \in 1 .. c - 1 : conds[b].active
    BY <2>2
  <2>4. PICK p \in 1 .. i - 1 : Encloses(lines, p, i) /\ Level(lines, p) = c - 1
    BY DEF CondsMatch
  <2>5. InFirstTrue(lines, held, p, i)
    BY <1>2, <2>4 DEF Live
  <2>6. GroupMatch(lines, i, conds, held, p)
    BY <2>4 DEF CondsMatch
  <2>7. c \in Nat /\ (c - 1) + 1 = c
    BY <2>2
  <2>8. conds[c].active <=> InFirstTrue(lines, held, p, i) /\ \A b \in 1 .. c - 1 : conds[b].active
    BY <2>4, <2>6, <2>7 DEF GroupMatch
  <2> QED
    BY <2>2, <2>3, <2>5, <2>8
<1> QED
  BY <1>1, <1>2 DEF is_active, Live

\* Line i is recorded if its condition holds.
HeldNext(held, i, holds, held2) ==
    /\ held2 \subseteq 1 .. i
    /\ \A m \in 1 .. i - 1 : m \in held <=> m \in held2
    /\ i \in held2 <=> holds
LEMMA HeldStep ==
    ASSUME NEW i \in Nat \ {0}, NEW held, held \subseteq 1 .. i - 1, NEW holds \in BOOLEAN
    PROVE  HeldNext(held, i, holds, held \cup {j \in {i} : holds})
<1> DEFINE held2 == held \cup {j \in {i} : holds}
<1>1. i \notin 1 .. i - 1 /\ 1 .. i - 1 \subseteq 1 .. i /\ i \in 1 .. i
  OBVIOUS
<1>2. \A m : m \in held2 <=> m \in held \/ (m = i /\ holds)
  BY Zenon
<1> HIDE DEF held2
<1>3. ASSUME NEW m \in held2 PROVE m \in 1 .. i
  <2>1. m \in held \/ m = i
    BY <1>2, Zenon
  <2> QED
    BY <1>1, <2>1
<1>4. ASSUME NEW m \in 1 .. i - 1 PROVE m \in held <=> m \in held2
  <2>1. m # i
    BY <1>1
  <2> QED
    BY <1>2, <2>1, Zenon
<1>5. i \in held2 <=> holds
  <2>1. i \notin held
    BY <1>1
  <2> QED
    BY <1>2, <2>1, Zenon
<1>6. HeldNext(held, i, holds, held2)
  <2>1. held2 \subseteq 1 .. i
    BY <1>3
  <2> QED
    BY <1>4, <1>5, <2>1, Zenon DEF HeldNext
<1> QED
  BY <1>6 DEF held2

\* #if, #ifdef and #ifndef push an entry.
LEMMA MatchOpens ==
    ASSUME NEW lines, NEW i \in Nat \ {0}, NEW conds \in Seq(CondState), NEW held,
           CondsMatch(lines, i, conds, held), lines[i].d \in Openers,
           NEW holds \in BOOLEAN, NEW held2, HeldNext(held, i, holds, held2)
    PROVE  CondsMatch(lines, i + 1, push_cond(conds, holds, holds /\ is_active(conds)), held2)
<1> DEFINE entry == [condition_met |-> holds, active |-> holds /\ is_active(conds)]
           new == Append(conds, entry)
<1>0. "endif" \notin Openers /\ "elif" \notin Openers /\ "else" \notin Openers
  BY DEF Openers
<1>1. Level(lines, i) \in Int /\ Level(lines, i + 1) = Level(lines, i) + 1
  BY LevelStep
<1>2. Len(conds) = Level(lines, i) /\ Len(conds) \in Nat
  BY DEF CondsMatch
<1>3. Len(new) = Len(conds) + 1 /\ new[Len(conds) + 1] = entry
      /\ \A c \in 1 .. Len(conds) : new[c] = conds[c]
  OBVIOUS
<1>4. \A p \in 1 .. i - 1 : Encloses(lines, p, i) => Level(lines, p) \in 0 .. Len(conds) - 1
  BY DEF CondsMatch, GroupMatch
<1>5. /\ held2 \subseteq 1 .. (i + 1) - 1
      /\ \A m \in 1 .. i - 1 : m \in held <=> m \in held2
      /\ i \in held2 <=> holds
  BY DEF HeldNext
<1>6. Encloses(lines, i, i + 1)
  BY <1>1 DEF Encloses
<1>7. \A p \in 1 .. i - 1 : Encloses(lines, p, i + 1) <=> Encloses(lines, p, i)
  BY <1>1, <1>2, <1>4, EnclosesStep
<1> HIDE DEF new, entry
<1>8. ASSUME NEW c \in 1 .. Len(new)
      PROVE  \E p \in 1 .. (i + 1) - 1 : Encloses(lines, p, i + 1) /\ Level(lines, p) = c - 1
  <2>1. CASE c = Len(conds) + 1
    BY <1>1, <1>2, <1>6, <2>1
  <2>2. CASE c \in 1 .. Len(conds)
    <3>1. PICK p \in 1 .. i - 1 : Encloses(lines, p, i) /\ Level(lines, p) = c - 1
      BY <2>2 DEF CondsMatch
    <3> QED
      BY <3>1, <1>7
  <2> QED
    BY <1>2, <1>3, <2>1, <2>2
<1>9. ASSUME NEW p \in 1 .. i - 1, Encloses(lines, p, i)
      PROVE  GroupMatch(lines, i + 1, new, held2, p)
  <2>1. GroupMatch(lines, i, conds, held, p)
    BY <1>9 DEF CondsMatch
  <2>2. Branches(lines, p, i + 1) = Branches(lines, p, i)
    BY <1>0, BranchesSame
  <2>3. /\ Met(lines, held2, p, i + 1) <=> Met(lines, held, p, i)
        /\ InFirstTrue(lines, held2, p, i + 1) <=> InFirstTrue(lines, held, p, i)
    <3>1. \A m \in 1 .. i - 1 : m \in held <=> m \in held2
      BY <1>5
    <3> QED
      BY <2>2, <3>1, BranchesKept
  <2>4. new[Level(lines, p) + 1] = conds[Level(lines, p) + 1]
        /\ \A b \in 1 .. Level(lines, p) : new[b] = conds[b]
    BY <1>2, <1>3, <1>4, <1>9
  <2> QED
    BY SMTT(30), <1>2, <1>3, <1>4, <1>9, <2>1, <2>3, <2>4 DEF GroupMatch
<1>10. GroupMatch(lines, i + 1, new, held2, i)
  <2>1. Branches(lines, i, i + 1) = {i}
    BY DEF Branches
  <2>2. BranchHolds(lines, held2, i) <=> holds
    BY <1>0, <1>5 DEF BranchHolds
  <2>3. /\ Met(lines, held2, i, i + 1) <=> holds
        /\ InFirstTrue(lines, held2, i, i + 1) <=> holds
    BY <2>1, <2>2 DEF Met, InFirstTrue
  <2>4. (\A b \in 1 .. Level(lines, i) : new[b].active) <=> is_active(conds)
    BY <1>2, <1>3 DEF is_active
  <2>5. entry.condition_met = holds /\ entry.active = (holds /\ is_active(conds))
    BY DEF entry
  <2>6. new[Level(lines, i) + 1] = entry
    BY <1>2, <1>3
  <2>7. Level(lines, i) \in 0 .. Len(new) - 1
    BY <1>2, <1>3
  <2> QED
    BY <2>3, <2>4, <2>5, <2>6, <2>7 DEF GroupMatch
<1>11. ASSUME NEW p \in 1 .. (i + 1) - 1, Encloses(lines, p, i + 1)
       PROVE  GroupMatch(lines, i + 1, new, held2, p)
  <2>1. p = i \/ p \in 1 .. i - 1
    OBVIOUS
  <2> QED
    BY <1>7, <1>9, <1>10, <1>11, <2>1
<1>12. CondsMatch(lines, i + 1, new, held2)
  BY <1>1, <1>2, <1>3, <1>5, <1>8, <1>11 DEF CondsMatch
<1> QED
  BY <1>12 DEF new, entry, push_cond


\* #endif removes the entry of the innermost group.
LEMMA MatchEndif ==
    ASSUME NEW lines, NEW i \in Nat \ {0}, NEW conds \in Seq(CondState), NEW held,
           CondsMatch(lines, i, conds, held), lines[i].d = "endif", conds # << >>,
           NEW new \in Seq(CondState), Len(new) = Len(conds) - 1,
           \A c \in 1 .. Len(new) : new[c] = conds[c]
    PROVE  CondsMatch(lines, i + 1, new, held)
<1>0. "endif" \notin Openers /\ "endif" \notin {"elif", "else"}
  BY DEF Openers
<1>1. Level(lines, i) \in Int /\ Level(lines, i + 1) = Level(lines, i) - 1
  BY LevelStep
<1>2. Len(conds) = Level(lines, i) /\ Len(conds) \in Nat \ {0}
  BY DEF CondsMatch
<1>3. \A p \in 1 .. i - 1 : Encloses(lines, p, i) => Level(lines, p) \in 0 .. Len(conds) - 1
  BY DEF CondsMatch, GroupMatch
<1>4. \A p \in 1 .. i - 1 :
         Encloses(lines, p, i + 1) <=> Encloses(lines, p, i) /\ Level(lines, p) < Len(new)
  BY <1>1, <1>2, <1>3, EnclosesStep
<1>5. ~Encloses(lines, i, i + 1)
  BY <1>0 DEF Encloses
<1>6. ASSUME NEW c \in 1 .. Len(new)
      PROVE  \E p \in 1 .. (i + 1) - 1 : Encloses(lines, p, i + 1) /\ Level(lines, p) = c - 1
  <2>1. PICK p \in 1 .. i - 1 : Encloses(lines, p, i) /\ Level(lines, p) = c - 1
    BY <1>2 DEF CondsMatch
  <2> QED
    BY <1>2, <1>4, <2>1
<1>7. ASSUME NEW p \in 1 .. (i + 1) - 1, Encloses(lines, p, i + 1)
      PROVE  GroupMatch(lines, i + 1, new, held, p)
  <2>1. p \in 1 .. i - 1
    BY <1>5, <1>7
  <2>2. Encloses(lines, p, i) /\ Level(lines, p) < Len(new) /\ Level(lines, p) \in 0 .. Len(new) - 1
    BY <1>2, <1>3, <1>4, <1>7, <2>1
  <2>3. GroupMatch(lines, i, conds, held, p)
    BY <2>1, <2>2 DEF CondsMatch
  <2>4. Branches(lines, p, i + 1) = Branches(lines, p, i)
    BY <1>0, <2>1, BranchesSame
  <2>5. /\ Met(lines, held, p, i + 1) <=> Met(lines, held, p, i)
        /\ InFirstTrue(lines, held, p, i + 1) <=> InFirstTrue(lines, held, p, i)
    BY <2>1, <2>4, BranchesKept
  <2>6. new[Level(lines, p) + 1] = conds[Level(lines, p) + 1]
        /\ \A b \in 1 .. Level(lines, p) : new[b] = conds[b]
    BY <1>2, <2>2
  <2> QED
    BY <2>2, <2>3, <2>5, <2>6 DEF GroupMatch
<1>8. held \subseteq 1 .. (i + 1) - 1
  BY DEF CondsMatch
<1> QED
  BY <1>1, <1>2, <1>6, <1>7, <1>8 DEF CondsMatch

\* #elif and #else replace the entry of the innermost group.
LEMMA MatchBranch ==
    ASSUME NEW lines, NEW i \in Nat \ {0}, NEW conds \in Seq(CondState), NEW held,
           CondsMatch(lines, i, conds, held), lines[i].d \in {"elif", "else"}, conds # << >>,
           NEW holds \in BOOLEAN, NEW held2, HeldNext(held, i, holds, held2),
           NEW new \in Seq(CondState), Len(new) = Len(conds),
           \A c \in 1 .. Len(conds) - 1 : new[c] = conds[c],
           new[Len(conds)].condition_met <=>
               conds[Len(conds)].condition_met \/ lines[i].d = "else" \/ holds,
           new[Len(conds)].active <=>
               /\ ~conds[Len(conds)].condition_met /\ (lines[i].d = "else" \/ holds)
               /\ \A b \in 1 .. Len(conds) - 1 : conds[b].active
    PROVE  CondsMatch(lines, i + 1, new, held2)
<1>0. lines[i].d \notin Openers /\ lines[i].d # "endif"
  BY DEF Openers
<1>1. Level(lines, i) \in Int /\ Level(lines, i + 1) = Level(lines, i)
  BY <1>0, LevelStep
<1>2. Len(conds) = Level(lines, i) /\ Len(conds) \in Nat \ {0}
  BY DEF CondsMatch
<1>3. \A p \in 1 .. i - 1 : Encloses(lines, p, i) => Level(lines, p) \in 0 .. Len(conds) - 1
  BY DEF CondsMatch, GroupMatch
<1>4. \A p \in 1 .. i - 1 : Encloses(lines, p, i + 1) <=> Encloses(lines, p, i)
  BY <1>1, <1>2, <1>3, EnclosesStep
<1>5. ~Encloses(lines, i, i + 1)
  BY <1>0 DEF Encloses
<1>6. \A m \in 1 .. i - 1 : m \in held <=> m \in held2
  BY DEF HeldNext
<1>7. BranchHolds(lines, held2, i) <=> lines[i].d = "else" \/ holds
  BY DEF HeldNext, BranchHolds
<1>8. ASSUME NEW c \in 1 .. Len(new)
      PROVE  \E p \in 1 .. (i + 1) - 1 : Encloses(lines, p, i + 1) /\ Level(lines, p) = c - 1
  <2>1. PICK p \in 1 .. i - 1 : Encloses(lines, p, i) /\ Level(lines, p) = c - 1
    BY <1>2 DEF CondsMatch
  <2> QED
    BY <1>4, <2>1
<1>9. ASSUME NEW p \in 1 .. (i + 1) - 1, Encloses(lines, p, i + 1)
      PROVE  GroupMatch(lines, i + 1, new, held2, p)
  <2>1. p \in 1 .. i - 1
    BY <1>5, <1>9
  <2>2. Encloses(lines, p, i) /\ Level(lines, p) \in 0 .. Len(conds) - 1
    BY <1>3, <1>4, <1>9, <2>1
  <2>3. GroupMatch(lines, i, conds, held, p)
    BY <2>1, <2>2 DEF CondsMatch
  <2>4. \A b \in 1 .. Level(lines, p) : new[b] = conds[b]
    BY <1>2, <2>2
  <2>5. CASE Level(lines, p) + 1 = Level(lines, i)
    <3>1. /\ Met(lines, held2, p, i + 1)
                <=> Met(lines, held, p, i) \/ BranchHolds(lines, held2, i)
          /\ InFirstTrue(lines, held2, p, i + 1)
                <=> ~Met(lines, held, p, i) /\ BranchHolds(lines, held2, i)
      BY <1>6, <2>1, <2>5, BranchAdded
    <3>2. Level(lines, p) + 1 = Len(conds) /\ Level(lines, p) = Len(conds) - 1
      BY <1>2, <2>2, <2>5
    <3>3. conds[Len(conds)].condition_met <=> Met(lines, held, p, i)
      BY <2>3, <3>2 DEF GroupMatch
    <3>4. new[Level(lines, p) + 1].condition_met <=> Met(lines, held2, p, i + 1)
      BY <1>7, <3>1, <3>2, <3>3
    <3>5. new[Level(lines, p) + 1].active
              <=> InFirstTrue(lines, held2, p, i + 1) /\ \A b \in 1 .. Level(lines, p) : new[b].active
      BY <1>7, <2>4, <3>1, <3>2, <3>3
    <3> QED
      BY <2>2, <3>4, <3>5 DEF GroupMatch
  <2>6. CASE Level(lines, p) + 1 # Level(lines, i)
    <3>1. Branches(lines, p, i + 1) = Branches(lines, p, i)
      BY <2>1, <2>6, BranchesSame
    <3>2. /\ Met(lines, held2, p, i + 1) <=> Met(lines, held, p, i)
          /\ InFirstTrue(lines, held2, p, i + 1) <=> InFirstTrue(lines, held, p, i)
      BY <1>6, <2>1, <3>1, BranchesKept
    <3>3. new[Level(lines, p) + 1] = conds[Level(lines, p) + 1]
      BY <1>2, <2>2, <2>6
    <3> QED
      BY <2>2, <2>3, <2>4, <3>2, <3>3 DEF GroupMatch
  <2> QED
    BY <2>5, <2>6
<1>10. held2 \subseteq 1 .. (i + 1) - 1
  BY DEF HeldNext
<1> QED
  BY <1>1, <1>2, <1>8, <1>9, <1>10 DEF CondsMatch

\* Other lines leave the stack as it is.
LEMMA MatchQuiet ==
    ASSUME NEW lines, NEW i \in Nat \ {0}, NEW conds \in Seq(CondState), NEW held,
           CondsMatch(lines, i, conds, held),
           NEW j \in Nat, i <= j, \A m \in i .. j - 1 : lines[m].d \notin Conditionals
    PROVE  CondsMatch(lines, j, conds, held)
<1>1. Level(lines, i) \in Int
  BY LevelStep
<1>2. \A m \in i .. j : Level(lines, m) = Level(lines, i)
  BY LevelQuiet
<1>3. Len(conds) = Level(lines, i) /\ Len(conds) \in Nat
  BY DEF CondsMatch
<1>4. \A p \in 1 .. i - 1 : Encloses(lines, p, i) => Level(lines, p) \in 0 .. Len(conds) - 1
  BY DEF CondsMatch, GroupMatch
<1>5. \A p \in 1 .. i - 1 : Encloses(lines, p, j) <=> Encloses(lines, p, i)
  BY <1>2, <1>3, <1>4 DEF Encloses
<1>6. ASSUME NEW p \in i .. j - 1 PROVE ~Encloses(lines, p, j)
  BY DEF Encloses, Conditionals
<1>7. ASSUME NEW p \in 1 .. i - 1 PROVE Branches(lines, p, j) = Branches(lines, p, i)
  BY DEF Branches, Conditionals
<1>8. ASSUME NEW p \in 1 .. j - 1, Encloses(lines, p, j)
      PROVE  GroupMatch(lines, j, conds, held, p)
  <2>1. p \in 1 .. i - 1 /\ Encloses(lines, p, i)
    BY <1>5, <1>6, <1>8
  <2>2. GroupMatch(lines, i, conds, held, p)
    BY <2>1 DEF CondsMatch
  <2>3. /\ Met(lines, held, p, j) <=> Met(lines, held, p, i)
        /\ InFirstTrue(lines, held, p, j) <=> InFirstTrue(lines, held, p, i)
    BY <1>7, <2>1, BranchesKept
  <2> QED
    BY <2>2, <2>3 DEF GroupMatch
<1>9. ASSUME NEW c \in 1 .. Len(conds)
      PROVE  \E p \in 1 .. j - 1 : Encloses(lines, p, j) /\ Level(lines, p) = c - 1
  <2>1. PICK p \in 1 .. i - 1 : Encloses(lines, p, i) /\ Level(lines, p) = c - 1
    BY DEF CondsMatch
  <2> QED
    BY <1>5, <2>1
<1>10. held \subseteq 1 .. j - 1 /\ Len(conds) = Level(lines, j)
  BY <1>2, <1>3 DEF CondsMatch
<1> QED
  BY <1>8, <1>9, <1>10 DEF CondsMatch

-----------------------------------------------------------------------------
(* The calls of preprocessor_preprocess: their types, the globals that are *)
(* the innermost call's, where each stands, and their conditional stacks.  *)
FrameSet(files) ==
    {fr \in [file : files, path : Path, i : Nat \ {0}, conds : Seq(CondState), parent_file : Path,
             parent_line : Nat, held : SUBSET Nat] : fr.file = FileAt(fr.path)}
TakenSet(files) ==
    {e \in [file : files, path : Path, from : Nat, to : Nat] : e.file = FileAt(e.path)}
TypeOK ==
    /\ src \in Sources
    /\ stack \in Seq(FrameSet(DOMAIN src)) /\ stack # << >>
    /\ preprocessor_current_file \in Path /\ preprocessor_current_line \in Nat
    /\ included_files \subseteq Path
    /\ taken \in Seq(TakenSet(DOMAIN src))
    /\ pc \in {"run", "expand", "expanded", "done", "error"}
FilesKnown ==
    /\ preprocessor_current_file = Top.path
    /\ \A k \in 2 .. Len(stack) : stack[k].parent_file = stack[k - 1].path
LinesOf(k) == src[stack[k].file]
Positions ==
    /\ \A k \in 1 .. Len(stack) : stack[k].i \in 1 .. Len(LinesOf(k)) + 1
    /\ \A k \in 1 .. Len(stack) - 1 :
          stack[k].i <= Len(LinesOf(k)) /\ LinesOf(k)[stack[k].i].d = "include"
    /\ pc \in {"expand", "expanded"} => ~AtEnd /\ L.d = "text" /\ Active
CondsRight ==
    \A k \in 1 .. Len(stack) :
        CondsMatch(LinesOf(k), stack[k].i, stack[k].conds, stack[k].held)
CallsInv == TypeOK /\ FilesKnown /\ Positions /\ CondsRight

\* The innermost call moves on.
TopBecomes(i, conds, held) ==
    /\ stack' \in Seq(FrameSet(DOMAIN src)) /\ Len(stack') = Len(stack)
    /\ \A k \in 1 .. Len(stack) - 1 : stack'[k] = stack[k]
    /\ stack'[Len(stack)] = [Top EXCEPT !.i = i, !.conds = conds, !.held = held]

LEMMA SeqReplace ==
    ASSUME NEW T, NEW s \in Seq(T), NEW n \in 1 .. Len(s), NEW e \in T
    PROVE  /\ [s EXCEPT ![n] = e] \in Seq(T) /\ Len([s EXCEPT ![n] = e]) = Len(s)
           /\ [s EXCEPT ![n] = e][n] = e
           /\ \A k \in 1 .. Len(s) : k # n => [s EXCEPT ![n] = e][k] = s[k]
OBVIOUS

LEMMA TopType ==
    ASSUME TypeOK
    PROVE  /\ Len(stack) \in Nat \ {0} /\ Top \in FrameSet(DOMAIN src)
           /\ Top.file \in DOMAIN src /\ Top.path \in Path /\ Top.file = FileAt(Top.path)
           /\ Top.i \in Nat \ {0} /\ Top.conds \in Seq(CondState)
           /\ Top.held \subseteq Nat /\ Top.parent_line \in Nat
           /\ \A k \in 1 .. Len(stack) : stack[k] \in FrameSet(DOMAIN src)
<1> DEFINE T == FrameSet(DOMAIN src)
<1>1. stack \in Seq(T) /\ stack # << >>
  BY DEF TypeOK
<1> HIDE DEF T
<1>2. Len(stack) \in Nat \ {0} /\ \A k \in 1 .. Len(stack) : stack[k] \in T
  BY <1>1
<1>3. Top \in T
  BY <1>2 DEF Top
<1> QED
  BY <1>2, <1>3 DEF T, FrameSet

LEMMA LinesType ==
    ASSUME TypeOK
    PROVE  \A f \in DOMAIN src :
              /\ Len(src[f]) \in Nat /\ DOMAIN src[f] = 1 .. Len(src[f])
              /\ \A m \in DOMAIN src[f] : src[f][m].p \in Int /\ src[f][m].f \in Path
BY FilesAssumption DEF TypeOK

LEMMA HoldsType ==
    ASSUME NEW l
    PROVE  Holds(l) \in BOOLEAN
BY DEF Holds

LEMMA FrameMoves ==
    ASSUME NEW files, NEW fr \in FrameSet(files), NEW i \in Nat \ {0},
           NEW conds \in Seq(CondState), NEW held \in SUBSET Nat
    PROVE  [fr EXCEPT !.i = i, !.conds = conds, !.held = held] \in FrameSet(files)
BY DEF FrameSet

LEMMA AdvanceTop ==
    ASSUME TypeOK, NEW len \in Nat, NEW conds \in Seq(CondState), Advance(len, conds)
    PROVE  /\ TopBecomes(Top.i + len, conds, Top.held \cup {j \in {Top.i} : Holds(L)})
           /\ src' = src /\ preprocessor_current_file' = preprocessor_current_file
           /\ preprocessor_current_line' \in Nat
<1> DEFINE T == FrameSet(DOMAIN src)
           held == Top.held \cup {j \in {Top.i} : Holds(L)}
           fr == [Top EXCEPT !.i = Top.i + len, !.conds = conds, !.held = held]
<1>1. stack' = [stack EXCEPT ![Len(stack)] = fr]
  BY DEF Advance
<1>2. held \in SUBSET Nat
  BY TopType
<1> HIDE DEF held
<1>3. fr \in T
  <2>1. Top.i + len \in Nat \ {0}
    BY TopType
  <2> QED
    BY <1>2, <2>1, TopType, FrameMoves
<1>4. stack \in Seq(T) /\ Len(stack) \in 1 .. Len(stack)
  BY TopType DEF TypeOK
<1>5. src' = src /\ preprocessor_current_file' = preprocessor_current_file
      /\ preprocessor_current_line' \in Nat
  BY DEF Advance, TypeOK
<1>6. stack' \in Seq(T) /\ Len(stack') = Len(stack) /\ stack'[Len(stack)] = fr
      /\ \A k \in 1 .. Len(stack) - 1 : stack'[k] = stack[k]
  <2> HIDE DEF T, fr
  <2> QED
    BY <1>1, <1>3, <1>4, SeqReplace
<1> QED
  BY <1>5, <1>6 DEF TopBecomes, held

\* What TopBecomes says of each call.
LEMMA TopMoved ==
    ASSUME TypeOK, NEW i, NEW conds, NEW held, TopBecomes(i, conds, held)
    PROVE  /\ Len(stack') = Len(stack)
           /\ \A k \in 1 .. Len(stack) - 1 : stack'[k] = stack[k]
           /\ Top' = stack'[Len(stack)]
           /\ Top'.i = i /\ Top'.conds = conds /\ Top'.held = held
           /\ Top'.file = Top.file /\ Top'.path = Top.path /\ Top'.parent_file = Top.parent_file
           /\ \A k \in 1 .. Len(stack) :
                 /\ stack'[k].file = stack[k].file /\ stack'[k].path = stack[k].path
                 /\ stack'[k].parent_file = stack[k].parent_file
<1>1. Top' = [Top EXCEPT !.i = i, !.conds = conds, !.held = held] /\ Top' = stack'[Len(stack)]
      /\ Len(stack') = Len(stack) /\ \A k \in 1 .. Len(stack) - 1 : stack'[k] = stack[k]
  BY DEF TopBecomes, Top
<1>2. Top \in FrameSet(DOMAIN src) /\ Len(stack) \in Nat \ {0} /\ Top = stack[Len(stack)]
  BY TopType DEF Top
<1>3. /\ Top'.i = i /\ Top'.conds = conds /\ Top'.held = held
      /\ Top'.file = Top.file /\ Top'.path = Top.path /\ Top'.parent_file = Top.parent_file
  BY <1>1, <1>2 DEF FrameSet
<1>4. ASSUME NEW k \in 1 .. Len(stack)
      PROVE  /\ stack'[k].file = stack[k].file /\ stack'[k].path = stack[k].path
             /\ stack'[k].parent_file = stack[k].parent_file
  <2>1. k = Len(stack) \/ k \in 1 .. Len(stack) - 1
    BY <1>2
  <2> QED
    BY <1>1, <1>2, <1>3, <2>1
<1> QED
  BY <1>1, <1>3, <1>4

\* A turn of the loop that ends in the same call keeps the invariant if its
\* conditional stack is right for where it goes on.
LEMMA CallsMove ==
    ASSUME CallsInv, NEW i \in 1 .. Len(Lines) + 1, NEW conds \in Seq(CondState), NEW held,
           TopBecomes(i, conds, held), CondsMatch(Lines, i, conds, held),
           src' = src, preprocessor_current_file' = preprocessor_current_file,
           preprocessor_current_line' \in Nat, included_files' \subseteq Path,
           taken' \in Seq(TakenSet(DOMAIN src)), pc' = "run"
    PROVE  CallsInv'
<1> USE DEF CallsInv
<1>1. /\ Len(stack') = Len(stack) /\ Len(stack) \in Nat \ {0}
      /\ \A k \in 1 .. Len(stack) - 1 : stack'[k] = stack[k]
      /\ Top' = stack'[Len(stack)]
      /\ Top'.i = i /\ Top'.conds = conds /\ Top'.held = held
      /\ Top'.file = Top.file /\ Top'.path = Top.path /\ Top'.parent_file = Top.parent_file
      /\ \A k \in 1 .. Len(stack) :
            /\ stack'[k].file = stack[k].file /\ stack'[k].path = stack[k].path
            /\ stack'[k].parent_file = stack[k].parent_file
  BY TopMoved, TopType
<1>2. TypeOK'
  <2> DEFINE T == FrameSet(DOMAIN src)
  <2>1. stack' \in Seq(T)
    BY DEF TopBecomes
  <2> HIDE DEF T
  <2>2. stack' # << >>
    BY <1>1, <2>1
  <2> QED
    BY <2>1, <2>2 DEF TypeOK, T
<1>3. FilesKnown'
  BY <1>1 DEF FilesKnown
<1>4. \A k \in 1 .. Len(stack) : LinesOf(k)' = LinesOf(k)
  BY <1>1 DEF LinesOf
<1>5. LinesOf(Len(stack)) = Lines
  BY DEF LinesOf, Lines, Top
<1>6. Positions'
  <2>1. ASSUME NEW k \in 1 .. Len(stack)
        PROVE  stack'[k].i \in 1 .. Len(LinesOf(k)') + 1
    <3>1. CASE k = Len(stack)
      BY <1>1, <1>4, <1>5, <3>1
    <3>2. CASE k \in 1 .. Len(stack) - 1
      BY <1>1, <1>4, <3>2 DEF Positions
    <3> QED
      BY <1>1, <3>1, <3>2
  <2>2. ASSUME NEW k \in 1 .. Len(stack) - 1
        PROVE  stack'[k].i <= Len(LinesOf(k)') /\ LinesOf(k)'[stack'[k].i].d = "include"
    <3>1. LinesOf(k)' = LinesOf(k) /\ stack'[k] = stack[k]
      BY <1>1, <1>4
    <3> QED
      BY <3>1 DEF Positions
  <2> QED
    BY <1>1, <2>1, <2>2 DEF Positions
<1>7. CondsRight'
  <2>1. ASSUME NEW k \in 1 .. Len(stack)
        PROVE  CondsMatch(LinesOf(k)', stack'[k].i, stack'[k].conds, stack'[k].held)
    <3>1. CASE k = Len(stack)
      BY <1>1, <1>4, <1>5, <3>1
    <3>2. CASE k \in 1 .. Len(stack) - 1
      <4>1. stack'[k] = stack[k] /\ LinesOf(k)' = LinesOf(k)
        BY <1>1, <1>4, <3>2
      <4> QED
        BY <4>1 DEF CondsRight
    <3> QED
      BY <1>1, <3>1, <3>2
  <2> QED
    BY <1>1, <2>1 DEF CondsRight
<1> QED
  BY <1>2, <1>3, <1>6, <1>7

\* The innermost call: its lines, and its line if it is not at the end.
LEMMA TopFacts ==
    ASSUME CallsInv
    PROVE  /\ Len(Lines) \in Nat /\ DOMAIN Lines = 1 .. Len(Lines)
           /\ Top.i \in 1 .. Len(Lines) + 1 /\ Top.i \in Nat \ {0}
           /\ Top.conds \in Seq(CondState) /\ Top.held \subseteq 1 .. Top.i - 1
           /\ CondsMatch(Lines, Top.i, Top.conds, Top.held)
           /\ ~AtEnd => Top.i \in 1 .. Len(Lines) /\ Top.i + 1 \in 1 .. Len(Lines) + 1
           /\ Len(stack) \in Nat \ {0}
<1> USE DEF CallsInv
<1>1. Len(stack) \in Nat \ {0} /\ Top.file \in DOMAIN src /\ Top.i \in Nat \ {0}
      /\ Top.conds \in Seq(CondState)
  BY TopType
<1>2. Len(Lines) \in Nat /\ DOMAIN Lines = 1 .. Len(Lines)
  BY <1>1, LinesType DEF Lines
<1>3. LinesOf(Len(stack)) = Lines /\ stack[Len(stack)] = Top
  BY DEF LinesOf, Lines, Top
<1>4. Len(stack) \in 1 .. Len(stack)
  BY <1>1
<1>5. Top.i \in 1 .. Len(Lines) + 1
  BY <1>3, <1>4 DEF Positions
<1>6. CondsMatch(Lines, Top.i, Top.conds, Top.held)
  BY <1>3, <1>4 DEF CondsRight
<1>7. Top.held \subseteq 1 .. Top.i - 1
  BY <1>6 DEF CondsMatch
<1>8. ~AtEnd => Top.i \in 1 .. Len(Lines) /\ Top.i + 1 \in 1 .. Len(Lines) + 1
  BY <1>1, <1>2, <1>5 DEF AtEnd
<1> QED
  BY <1>1, <1>2, <1>5, <1>6, <1>7, <1>8

LEMMA IfKeeps ==
    ASSUME CallsInv, If
    PROVE  CallsInv'
<1> DEFINE conds == push_cond(Top.conds, Holds(L), Holds(L) /\ Active)
           held == Top.held \cup {j \in {Top.i} : Holds(L)}
<1>1. TypeOK /\ ~AtEnd /\ L.d \in Openers /\ Advance(1, conds) /\ pc = "run"
  BY DEF If, Running, CallsInv
<1>2. Holds(L) \in BOOLEAN /\ Active = is_active(Top.conds) /\ Active \in BOOLEAN
  BY HoldsType DEF Active, is_active
<1>3. conds \in Seq(CondState)
  <2>1. [condition_met |-> Holds(L), active |-> Holds(L) /\ Active] \in CondState
    BY <1>2 DEF CondState
  <2> QED
    BY <2>1, TopFacts DEF push_cond
<1>4. HeldNext(Top.held, Top.i, Holds(L), held)
  BY <1>2, TopFacts, HeldStep
<1>5. CondsMatch(Lines, Top.i + 1, conds, held)
  <2> HIDE DEF held
  <2>1. L = Lines[Top.i]
    BY DEF L
  <2> QED
    BY <1>1, <1>2, <1>4, <2>1, TopFacts, MatchOpens
<1>6. /\ TopBecomes(Top.i + 1, conds, held)
      /\ src' = src /\ preprocessor_current_file' = preprocessor_current_file
      /\ preprocessor_current_line' \in Nat
  BY <1>1, <1>3, AdvanceTop
<1>7. included_files' = included_files /\ taken' = taken /\ pc' = "run"
  BY <1>1 DEF If
<1>8. included_files' \subseteq Path /\ taken' \in Seq(TakenSet(DOMAIN src))
  BY <1>1, <1>7 DEF TypeOK
<1> HIDE DEF conds, held
<1> QED
  BY <1>1, <1>3, <1>5, <1>6, <1>7, <1>8, TopFacts, CallsMove

\* What #elif and #else have in common: new replaces the last entry.
LEMMA BranchKeeps ==
    ASSUME CallsInv, pc = "run", ~AtEnd, L.d \in {"elif", "else"}, Top.conds # << >>,
           NEW new \in CondState, Advance(1, Append(Front(Top.conds), new)),
           new.condition_met <=> Last(Top.conds).condition_met \/ L.d = "else" \/ Holds(L),
           new.active <=> /\ ~Last(Top.conds).condition_met /\ (L.d = "else" \/ Holds(L))
                          /\ parent_active,
           UNCHANGED <<included_files, taken, pc>>
    PROVE  CallsInv'
<1> DEFINE old == Top.conds
           conds == Append(Front(Top.conds), new)
           held == Top.held \cup {j \in {Top.i} : Holds(L)}
<1>1. old \in Seq(CondState) /\ old # << >> /\ Len(old) \in Nat \ {0} /\ TypeOK
  BY TopFacts DEF CallsInv
<1>2. Front(old) = SubSeq(old, 1, Len(old) - 1) /\ Last(old) = old[Len(old)]
  BY DEF Front, Last
<1>3. /\ Front(old) \in Seq(CondState) /\ Len(Front(old)) = Len(old) - 1
      /\ \A c \in 1 .. Len(old) - 1 : Front(old)[c] = old[c]
  BY <1>1, <1>2
<1>4. /\ conds \in Seq(CondState) /\ Len(conds) = Len(old)
      /\ \A c \in 1 .. Len(old) - 1 : conds[c] = old[c]
      /\ conds[Len(old)] = new
  <2> DEFINE front == Front(old)
  <2>1. front \in Seq(CondState) /\ Len(front) = Len(old) - 1 /\ Len(old) \in Nat \ {0}
        /\ \A c \in 1 .. Len(old) - 1 : front[c] = old[c]
    BY <1>1, <1>3
  <2> HIDE DEF front
  <2>2. /\ Append(front, new) \in Seq(CondState) /\ Len(Append(front, new)) = Len(old)
        /\ \A c \in 1 .. Len(old) - 1 : Append(front, new)[c] = old[c]
        /\ Append(front, new)[Len(old)] = new
    BY <2>1
  <2> QED
    BY <2>2 DEF front
<1>5. parent_active <=> \A b \in 1 .. Len(old) - 1 : old[b].active
  BY SMTT(30), <1>1, <1>3 DEF parent_active, is_active
<1>6. Holds(L) \in BOOLEAN /\ L = Lines[Top.i]
  BY HoldsType DEF L
<1>7. HeldNext(Top.held, Top.i, Holds(L), held)
  BY <1>6, TopFacts, HeldStep
<1>8. /\ TopBecomes(Top.i + 1, conds, held)
      /\ src' = src /\ preprocessor_current_file' = preprocessor_current_file
      /\ preprocessor_current_line' \in Nat
  BY <1>1, <1>4, AdvanceTop
<1> HIDE DEF conds, held
<1>9. /\ conds[Len(old)].condition_met <=> old[Len(old)].condition_met \/ Lines[Top.i].d = "else" \/ Holds(L)
      /\ conds[Len(old)].active <=>
               /\ ~old[Len(old)].condition_met /\ (Lines[Top.i].d = "else" \/ Holds(L))
               /\ \A b \in 1 .. Len(old) - 1 : old[b].active
  BY <1>2, <1>4, <1>5, <1>6
<1>10. CondsMatch(Lines, Top.i + 1, conds, held)
  BY ZenonT(30), <1>1, <1>4, <1>6, <1>7, <1>9, TopFacts, MatchBranch
<1>11. included_files' \subseteq Path /\ taken' \in Seq(TakenSet(DOMAIN src))
       /\ pc' = "run"
  BY <1>1 DEF TypeOK
<1> QED
  BY <1>4, <1>8, <1>10, <1>11, TopFacts, CallsMove

LEMMA ElifKeeps ==
    ASSUME CallsInv, Elif
    PROVE  CallsInv'
<1> DEFINE top == Last(Top.conds)
           new == IF top.condition_met
                  THEN [top EXCEPT !.active = FALSE]
                  ELSE [active |-> Holds(L) /\ parent_active, condition_met |-> Holds(L)]
<1>1. pc = "run" /\ ~AtEnd /\ L.d = "elif" /\ Top.conds # << >>
      /\ Advance(1, Append(Front(Top.conds), new)) /\ UNCHANGED <<included_files, taken, pc>>
  BY DEF Elif, Running
<1>2. top \in CondState
  BY <1>1, TopFacts DEF Last
<1>3. Holds(L) \in BOOLEAN /\ parent_active \in BOOLEAN
  BY HoldsType DEF parent_active, is_active
<1>4. /\ new \in CondState
      /\ new.condition_met <=> top.condition_met \/ L.d = "else" \/ Holds(L)
      /\ new.active <=> /\ ~top.condition_met /\ (L.d = "else" \/ Holds(L)) /\ parent_active
  <2>1. CASE top.condition_met
    BY <1>1, <1>2, <1>3, <2>1 DEF CondState
  <2>2. CASE ~top.condition_met
    BY <1>1, <1>2, <1>3, <2>2 DEF CondState
  <2> QED
    BY <2>1, <2>2
<1> HIDE DEF new
<1> QED
  BY <1>1, <1>4, BranchKeeps

LEMMA ElseKeeps ==
    ASSUME CallsInv, Else
    PROVE  CallsInv'
<1> DEFINE top == Last(Top.conds)
           new == [active |-> ~top.condition_met /\ parent_active, condition_met |-> TRUE]
<1>1. pc = "run" /\ ~AtEnd /\ L.d = "else" /\ Top.conds # << >>
      /\ Advance(1, Append(Front(Top.conds), new)) /\ UNCHANGED <<included_files, taken, pc>>
  BY DEF Else, Running
<1>2. top \in CondState
  BY <1>1, TopFacts DEF Last
<1>3. Holds(L) \in BOOLEAN /\ parent_active \in BOOLEAN
  BY HoldsType DEF parent_active, is_active
<1>4. /\ new \in CondState
      /\ new.condition_met <=> top.condition_met \/ L.d = "else" \/ Holds(L)
      /\ new.active <=> /\ ~top.condition_met /\ (L.d = "else" \/ Holds(L)) /\ parent_active
  BY <1>1, <1>2, <1>3 DEF CondState
<1> HIDE DEF new
<1> QED
  BY <1>1, <1>4, BranchKeeps

\* A line that is no condition leaves the record of them as it is.
LEMMA NotHeld ==
    ASSUME L.d \notin Openers \cup {"elif"}
    PROVE  Top.held \cup {j \in {Top.i} : Holds(L)} = Top.held
<1>1. ~Holds(L)
  BY DEF Holds, Openers
<1> QED
  BY <1>1

LEMMA EndifKeeps ==
    ASSUME CallsInv, Endif
    PROVE  CallsInv'
<1> DEFINE old == Top.conds
           conds == Front(Top.conds)
<1>1. TypeOK /\ pc = "run" /\ ~AtEnd /\ L.d = "endif" /\ old # << >> /\ Advance(1, conds)
      /\ UNCHANGED <<included_files, taken, pc>>
  BY DEF Endif, Running, CallsInv
<1>2. old \in Seq(CondState) /\ Len(old) \in Nat \ {0} /\ conds = SubSeq(old, 1, Len(old) - 1)
  BY <1>1, TopFacts DEF Front
<1>3. conds \in Seq(CondState) /\ Len(conds) = Len(old) - 1
      /\ \A c \in 1 .. Len(conds) : conds[c] = old[c]
  BY <1>2
<1> HIDE DEF conds
<1>4. Top.held \cup {j \in {Top.i} : Holds(L)} = Top.held
  BY <1>1, NotHeld DEF Openers
<1>5. /\ TopBecomes(Top.i + 1, conds, Top.held)
      /\ src' = src /\ preprocessor_current_file' = preprocessor_current_file
      /\ preprocessor_current_line' \in Nat
  <2>1. TopBecomes(Top.i + 1, conds, Top.held \cup {j \in {Top.i} : Holds(L)})
        /\ src' = src /\ preprocessor_current_file' = preprocessor_current_file
        /\ preprocessor_current_line' \in Nat
    BY <1>1, <1>3, AdvanceTop
  <2> QED
    BY <1>4, <2>1, Zenon
<1>6. L = Lines[Top.i]
  BY DEF L
<1>7. CondsMatch(Lines, Top.i + 1, conds, Top.held)
  BY <1>1, <1>3, <1>6, TopFacts, MatchEndif
<1>8. included_files' \subseteq Path /\ taken' \in Seq(TakenSet(DOMAIN src))
       /\ pc' = "run"
  BY <1>1 DEF TypeOK
<1> QED
  BY <1>1, <1>3, <1>5, <1>7, <1>8, TopFacts, CallsMove

\* Lines that are no conditionals: the turn ends j - Top.i lines on.
LEMMA QuietKeeps ==
    ASSUME CallsInv, ~AtEnd, NEW j \in Top.i + 1 .. Len(Lines) + 1,
           \A m \in Top.i .. j - 1 : Lines[m].d \notin Conditionals,
           Advance(j - Top.i, Top.conds),
           included_files' \subseteq Path,
           taken' \in Seq(TakenSet(DOMAIN src)), pc' = "run"
    PROVE  CallsInv'
<1>1. TypeOK /\ Top.conds \in Seq(CondState) /\ Top.i \in Nat \ {0} /\ j - Top.i \in Nat
      /\ j \in Nat /\ Top.i <= j /\ Top.i + (j - Top.i) = j /\ Top.i \in Top.i .. j - 1
      /\ j \in 1 .. Len(Lines) + 1
  BY TopFacts DEF CallsInv
<1>2. L.d \notin Openers \cup {"elif"}
  BY <1>1 DEF L, Conditionals
<1>3. /\ TopBecomes(j, Top.conds, Top.held)
      /\ src' = src /\ preprocessor_current_file' = preprocessor_current_file
      /\ preprocessor_current_line' \in Nat
  <2>1. TopBecomes(Top.i + (j - Top.i), Top.conds, Top.held \cup {n \in {Top.i} : Holds(L)})
        /\ src' = src /\ preprocessor_current_file' = preprocessor_current_file
        /\ preprocessor_current_line' \in Nat
    BY <1>1, AdvanceTop
  <2>2. Top.held \cup {n \in {Top.i} : Holds(L)} = Top.held
    BY <1>2, NotHeld
  <2>3. Top.i + (j - Top.i) = j
    BY <1>1
  <2> QED
    BY <2>1, <2>2, <2>3, Zenon
<1>4. CondsMatch(Lines, j, Top.conds, Top.held)
  BY <1>1, TopFacts, MatchQuiet
<1> QED
  BY <1>1, <1>3, <1>4, CallsMove

\* The same for one line.
LEMMA QuietLineKeeps ==
    ASSUME CallsInv, ~AtEnd, L.d \notin Conditionals, Advance(1, Top.conds),
           included_files' \subseteq Path, taken' = taken, pc' = "run"
    PROVE  CallsInv'
<1>1. Top.i \in Nat \ {0} /\ Top.i + 1 \in Top.i + 1 .. Len(Lines) + 1 /\ (Top.i + 1) - Top.i = 1
      /\ Top.i .. (Top.i + 1) - 1 = {Top.i}
  BY TopFacts
<1>2. \A m \in Top.i .. (Top.i + 1) - 1 : Lines[m].d \notin Conditionals
  BY <1>1 DEF L
<1>3. taken' \in Seq(TakenSet(DOMAIN src))
  BY DEF CallsInv, TypeOK
<1> QED
  BY <1>1, <1>2, <1>3, QuietKeeps

LEMMA DirectivesKeep ==
    ASSUME CallsInv, Define \/ Undef \/ IncludeSkipped \/ Once \/ Skip
    PROVE  CallsInv'
<1>1. ~AtEnd /\ L.d \in {"define", "undef", "include", "once", "line", "error", "text"}
      /\ Advance(1, Top.conds) /\ taken' = taken /\ pc' = "run"
  BY DEF Define, Undef, IncludeSkipped, Once, Skip, Running
<1>2. L.d \notin Conditionals
  BY <1>1 DEF Conditionals, Openers
<1>3. included_files \subseteq Path /\ preprocessor_current_file \in Path
  BY DEF CallsInv, TypeOK
<1>4. included_files' \subseteq Path
  BY <1>3 DEF Define, Undef, IncludeSkipped, Once, Skip
<1> QED
  BY <1>1, <1>2, <1>4, QuietLineKeeps

LEMMA LineKeeps ==
    ASSUME CallsInv, Line
    PROVE  CallsInv'
<1> DEFINE T == FrameSet(DOMAIN src)
           fr == [Top EXCEPT !.i = Top.i + 1]
<1>1. TypeOK /\ pc = "run" /\ ~AtEnd /\ L.d = "line" /\ L.p >= 1
      /\ stack' = [stack EXCEPT ![Len(stack)] = fr] /\ src' = src
      /\ preprocessor_current_file' = preprocessor_current_file
      /\ preprocessor_current_line' = (L.p - 1) + 1
      /\ UNCHANGED <<included_files, taken, pc>>
  BY DEF Line, Running, CallsInv
<1>2. Top \in T /\ stack \in Seq(T) /\ Len(stack) \in 1 .. Len(stack) /\ Top.file \in DOMAIN src
  BY <1>1, TopType DEF TypeOK
<1>3. fr = [Top EXCEPT !.i = Top.i + 1, !.conds = Top.conds, !.held = Top.held]
  BY <1>2 DEF FrameSet
<1>4. fr \in T
  <2>1. Top.i + 1 \in Nat \ {0} /\ Top.conds \in Seq(CondState) /\ Top.held \in SUBSET Nat
    BY <1>1, TopType
  <2> QED
    BY <1>2, <1>3, <2>1, FrameMoves
<1>5. stack' \in Seq(T) /\ Len(stack') = Len(stack) /\ stack'[Len(stack)] = fr
      /\ \A k \in 1 .. Len(stack) - 1 : stack'[k] = stack[k]
  <2> HIDE DEF T, fr
  <2> QED
    BY <1>1, <1>2, <1>4, SeqReplace
<1>6. TopBecomes(Top.i + 1, Top.conds, Top.held)
  BY <1>3, <1>5 DEF TopBecomes
<1>7. preprocessor_current_line' \in Nat
  <2>1. L.p \in Int
    BY <1>1, <1>2, TopFacts, LinesType DEF L, Lines
  <2> QED
    BY <1>1, <2>1
<1>8. CondsMatch(Lines, Top.i + 1, Top.conds, Top.held)
  <2>1. L = Lines[Top.i] /\ "line" \notin Conditionals
    BY DEF L, Conditionals, Openers
  <2>2. Top.i \in Nat \ {0} /\ Top.i + 1 \in Nat /\ Top.i <= Top.i + 1
        /\ Top.i .. (Top.i + 1) - 1 = {Top.i}
    BY TopFacts
  <2> QED
    BY <1>1, <2>1, <2>2, TopFacts, MatchQuiet
<1>9. included_files' \subseteq Path /\ taken' \in Seq(TakenSet(DOMAIN src))
       /\ pc' = "run"
  BY <1>1 DEF TypeOK
<1> QED
  BY <1>1, <1>6, <1>7, <1>8, <1>9, TopFacts, CallsMove

\* Joining lines: one is taken at least, all are text, and none is left
\* out before the last.
LEMMA LastTakenIsText ==
    ASSUME CallsInv, ~AtEnd, L.d = "text"
    PROVE  /\ LastTaken \in Top.i .. Len(Lines)
           /\ \A m \in Top.i .. LastTaken : Lines[m].d = "text"
<1> DEFINE Stop(j) == Depth(j) = 0 \/ j = Len(Lines) \/ Lines[j + 1].d # "text"
           S == {j \in Top.i .. Len(Lines) : Stop(j)}
           Right(j) == /\ \A m \in Top.i .. j : Lines[m].d = "text"
                       /\ \A m \in Top.i .. j - 1 : Depth(m) # 0
                       /\ Stop(j)
<1>1. Top.i \in 1 .. Len(Lines) /\ Len(Lines) \in Nat /\ Lines[Top.i].d = "text"
  BY TopFacts DEF L
<1>2. Len(Lines) \in S /\ S \subseteq Nat
  BY <1>1
<1>3. PICK j \in S : \A m \in S : j <= m
  <2> HIDE DEF S
  <2> QED
    BY <1>2, LeastElement
<1>4. \A m \in Top.i .. j - 1 : ~Stop(m)
  BY <1>1, <1>3
<1>5. ASSUME NEW m \in Top.i .. j PROVE Lines[m].d = "text"
  <2>1. CASE m = Top.i
    BY <1>1, <2>1
  <2>2. CASE m # Top.i
    <3>1. m - 1 \in Top.i .. j - 1 /\ (m - 1) + 1 = m
      BY <1>1, <2>2
    <3>2. ~Stop(m - 1)
      BY <1>4, <3>1
    <3> QED
      BY <3>1, <3>2
  <2> QED
    BY <2>1, <2>2
<1>6. Right(j) /\ j \in Top.i .. Len(Lines)
  BY <1>3, <1>4, <1>5
<1>7. LastTaken = CHOOSE n \in Top.i .. Len(Lines) : Right(n)
  BY DEF LastTaken
<1> HIDE DEF Right
<1>8. LastTaken \in Top.i .. Len(Lines) /\ Right(LastTaken)
  BY <1>6, <1>7
<1> QED
  BY <1>8 DEF Right

LEMMA AppendTextKeeps ==
    ASSUME CallsInv, AppendText
    PROVE  CallsInv'
<1> DEFINE j == LastTaken + 1
           T == TakenSet(DOMAIN src)
           entry == [file |-> Top.file, path |-> Top.path, from |-> Top.i, to |-> LastTaken]
<1>1. TypeOK /\ pc = "expanded" /\ ~AtEnd /\ L.d = "text"
  BY DEF AppendText, CallsInv, Positions
<1>2. /\ LastTaken \in Top.i .. Len(Lines)
      /\ \A m \in Top.i .. LastTaken : Lines[m].d = "text"
  BY <1>1, LastTakenIsText
<1>3. Top.i \in Nat \ {0} /\ Len(Lines) \in Nat /\ Top.file \in DOMAIN src
      /\ Top.path \in Path /\ Top.file = FileAt(Top.path)
  BY <1>1, TopFacts, TopType
<1>4. j \in Top.i + 1 .. Len(Lines) + 1 /\ j - Top.i = LastTaken - Top.i + 1
      /\ Top.i .. j - 1 = Top.i .. LastTaken
  BY <1>2, <1>3
<1>5. Advance(j - Top.i, Top.conds)
  <2>1. Advance(LastTaken - Top.i + 1, Top.conds)
    BY DEF AppendText
  <2> HIDE DEF j
  <2> QED
    BY <1>4, <2>1
<1>6. \A m \in Top.i .. j - 1 : Lines[m].d \notin Conditionals
  <2>1. "text" \notin Conditionals
    BY DEF Conditionals, Openers
  <2> HIDE DEF j
  <2> QED
    BY <1>2, <1>4, <2>1
<1>7. taken' \in Seq(T)
  <2>1. entry \in T
    BY <1>2, <1>3 DEF TakenSet
  <2>2. taken \in Seq(T) /\ taken' = Append(taken, entry)
    BY <1>1 DEF TypeOK, AppendText
  <2> HIDE DEF T, entry
  <2> QED
    BY <2>1, <2>2
<1>8. included_files' \subseteq Path /\ pc' = "run"
  BY <1>1 DEF TypeOK, AppendText
<1> HIDE DEF j
<1> QED
  BY <1>1, <1>4, <1>5, <1>6, <1>7, <1>8, QuietKeeps

\* The path an include is found by leads to one of the files.
LEMMA FoundPath ==
    ASSUME CallsInv, ~AtEnd, Found # {}
    PROVE  inc_path \in Path /\ FileAt(inc_path) \in DOMAIN src
<1>1. L.f \in Path
  BY TopFacts, TopType, LinesType DEF L, Lines, CallsInv
<1>2. current_file_dir \in Path
  <2>1. \A q \in Seq(STRING) : Len(q) # 1 => SubSeq(q, 1, Len(q) - 1) \in Seq(STRING)
    OBVIOUS
  <2>2. Top.path \in Path
    BY TopType DEF CallsInv
  <2>3. Here \in Path
    BY PathsAssumption
  <2> QED
    BY <2>1, <2>2, <2>3 DEF current_file_dir, Front, Path
<1>3. Len(IncludeDirs) \in Nat /\ \A k \in 1 .. Len(IncludeDirs) : IncludeDirs[k] \in Path
  BY PathsAssumption
<1>4. \A d, f \in Path : d \o f \in Path
  BY DEF Path
<1>5. \A k \in DOMAIN candidates : k \in 0 .. Len(IncludeDirs) /\ candidates[k] \in Path
  <2>1. ASSUME NEW k \in DOMAIN candidates PROVE k \in 0 .. Len(IncludeDirs) /\ candidates[k] \in Path
    <3>1. k \in 0 .. Len(IncludeDirs)
      BY <1>3 DEF candidates
    <3>2. candidates[k] = (IF k = 0 THEN current_file_dir ELSE IncludeDirs[k]) \o L.f
      BY DEF candidates
    <3>3. CASE k = 0
      BY <1>1, <1>2, <1>4, <3>1, <3>2, <3>3
    <3>4. CASE k # 0
      <4>1. IncludeDirs[k] \in Path
        BY <1>3, <3>1, <3>4
      <4> QED
        BY <1>1, <1>4, <3>1, <3>2, <3>4, <4>1
    <3> QED
      BY <3>3, <3>4
  <2> QED
    BY <2>1
<1>6. PICK m \in Found : \A j \in Found : m <= j
  <2>1. Found \subseteq DOMAIN candidates
    BY DEF Found
  <2>2. \A k \in 0 .. Len(IncludeDirs) : k \in Nat
    BY <1>3
  <2>3. Found \subseteq Nat
    BY <1>5, <2>1, <2>2, Zenon
  <2> QED
    BY <2>3, LeastElement
<1> DEFINE first == CHOOSE k \in Found : \A j \in Found : k <= j
<1>7. first \in Found
  BY <1>6
<1>8. inc_path = candidates[first]
  BY DEF inc_path
<1> HIDE DEF first
<1> QED
  BY <1>5, <1>7, <1>8 DEF Found, exists

\* The call for an included file starts at its first line.
LEMMA IncludeKeeps ==
    ASSUME CallsInv, Include
    PROVE  CallsInv'
<1> DEFINE T == FrameSet(DOMAIN src)
           fr == Frame(inc_path, preprocessor_current_file, preprocessor_current_line)
           n == Len(stack)
<1> USE DEF CallsInv
<1>0. pc = "run" /\ ~AtEnd /\ L.d = "include" /\ Found # {}
  BY DEF Include, Running
<1>1. pc = "run" /\ ~AtEnd /\ L.d = "include" /\ src' = src
      /\ stack' = Append(stack, fr)
      /\ preprocessor_current_file' = inc_path /\ preprocessor_current_line' = 1
      /\ UNCHANGED <<included_files, taken, pc>>
  BY DEF Include, Running
<1>01. inc_path \in Path /\ FileAt(inc_path) \in DOMAIN src
  BY <1>0, FoundPath
<1>2. n \in Nat \ {0} /\ stack \in Seq(T)
  BY TopType DEF TypeOK
<1>3. /\ fr \in T /\ fr.file = FileAt(inc_path) /\ fr.path = inc_path /\ fr.i = 1 /\ fr.conds = << >> /\ fr.held = {}
      /\ fr.parent_file = preprocessor_current_file
  <2>1. << >> \in Seq(CondState) /\ {} \in SUBSET Nat /\ 1 \in Nat \ {0}
    OBVIOUS
  <2>2. preprocessor_current_file \in Path
        /\ preprocessor_current_line \in Nat
    BY <1>1 DEF TypeOK
  <2>3. fr \in T
    <3> HIDE DEF CallsInv
    <3> QED
      BY <1>01, <2>1, <2>2 DEF Frame, FrameSet
  <2> QED
    BY <2>3 DEF Frame
<1>4. /\ stack' \in Seq(T) /\ Len(stack') = n + 1 /\ stack'[n + 1] = fr
      /\ \A k \in 1 .. n : stack'[k] = stack[k]
  <2> HIDE DEF T, fr
  <2> QED
    BY <1>1, <1>2, <1>3
<1> HIDE DEF fr
<1>5. TypeOK'
  <2> HIDE DEF T
  <2>1. stack' # << >>
    BY <1>2, <1>4
  <2> QED
    BY <1>01, <1>1, <1>4, <2>1 DEF TypeOK, T
<1>6. Top' = fr
  BY <1>2, <1>4 DEF Top
<1>7. FilesKnown'
  <2>1. ASSUME NEW k \in 2 .. n + 1 PROVE stack'[k].parent_file = stack'[k - 1].path
    <3>1. CASE k = n + 1
      <4>1. stack'[k - 1] = stack[n] /\ stack'[k] = fr
        BY <1>2, <1>4, <3>1
      <4> QED
        BY <1>3, <4>1 DEF FilesKnown, Top
    <3>2. CASE k \in 2 .. n
      <4>1. stack'[k - 1] = stack[k - 1] /\ stack'[k] = stack[k]
        BY <1>2, <1>4, <3>2
      <4> QED
        BY <3>2, <4>1 DEF FilesKnown
    <3> QED
      BY <1>2, <3>1, <3>2
  <2> QED
    BY <1>1, <1>3, <1>4, <1>6, <2>1 DEF FilesKnown
<1>8. /\ \A k \in 1 .. n : LinesOf(k)' = LinesOf(k)
      /\ \A k : k = n + 1 => LinesOf(k)' = src[FileAt(inc_path)]
  BY <1>1, <1>3, <1>4 DEF LinesOf
<1>9. Len(src[FileAt(inc_path)]) \in Nat
  BY <1>01, LinesType
<1>10. LinesOf(n) = Lines /\ stack[n] = Top
  BY DEF LinesOf, Lines, Top
<1>11. Positions'
  <2>1. ASSUME NEW k \in 1 .. n + 1 PROVE stack'[k].i \in 1 .. Len(LinesOf(k)') + 1
    <3>1. CASE k = n + 1
      BY <1>3, <1>4, <1>8, <1>9, <3>1
    <3>2. CASE k \in 1 .. n
      BY <1>4, <1>8, <3>2 DEF Positions
    <3> QED
      BY <1>2, <3>1, <3>2
  <2>2. ASSUME NEW k \in 1 .. n
        PROVE  stack'[k].i <= Len(LinesOf(k)') /\ LinesOf(k)'[stack'[k].i].d = "include"
    <3>1. stack'[k] = stack[k] /\ LinesOf(k)' = LinesOf(k)
      BY <1>4, <1>8
    <3>2. CASE k = n
      BY <1>1, <1>10, <3>1, <3>2, TopFacts DEF L
    <3>3. CASE k \in 1 .. n - 1
      BY <3>1, <3>3 DEF Positions
    <3> QED
      BY <1>2, <3>2, <3>3
  <2> QED
    BY <1>1, <1>2, <1>4, <2>1, <2>2 DEF Positions
<1>12. CondsRight'
  <2>1. ASSUME NEW k \in 1 .. n + 1
        PROVE  CondsMatch(LinesOf(k)', stack'[k].i, stack'[k].conds, stack'[k].held)
    <3>1. CASE k = n + 1
      BY <1>3, <1>4, <3>1, MatchAtStart
    <3>2. CASE k \in 1 .. n
      BY <1>4, <1>8, <3>2 DEF CondsRight
    <3> QED
      BY <1>2, <3>1, <3>2
  <2> QED
    BY <1>4, <2>1 DEF CondsRight
<1> QED
  BY <1>5, <1>7, <1>11, <1>12

\* The end of an included file: the caller goes on after its #include.
LEMMA ReturnStack ==
    ASSUME CallsInv, Return
    PROVE  LET n == Len(stack)
               caller == stack[n - 1]
           IN  /\ n \in Nat \ {0, 1} /\ caller \in FrameSet(DOMAIN src)
               /\ stack' \in Seq(FrameSet(DOMAIN src)) /\ Len(stack') = n - 1
               /\ \A k \in 1 .. n - 2 : stack'[k] = stack[k]
               /\ stack'[n - 1] = [caller EXCEPT !.i = caller.i + 1]
               /\ \A k \in 1 .. n - 1 : /\ stack'[k].file = stack[k].file
                                        /\ stack'[k].path = stack[k].path
                                        /\ stack'[k].parent_file = stack[k].parent_file
                                        /\ stack'[k].conds = stack[k].conds
                                        /\ stack'[k].held = stack[k].held
               /\ stack'[n - 1].i = caller.i + 1
<1> DEFINE n == Len(stack)
           caller == stack[n - 1]
           T == FrameSet(DOMAIN src)
           fr == [caller EXCEPT !.i = caller.i + 1]
           below == SubSeq(stack, 1, n - 2)
<1>0. n \in Nat /\ n > 1
  BY TopType DEF CallsInv, Return
<1>01. n \in Nat \ {0, 1} /\ n - 1 \in 1 .. n /\ n - 2 \in 0 .. n /\ n - 2 \in Nat /\ (n - 2) + 1 = n - 1
  <2> HIDE DEF n
  <2> QED
    BY <1>0
<1>1. n \in Nat \ {0, 1} /\ stack \in Seq(T) /\ \A k \in 1 .. n : stack[k] \in T
  <2>1. TypeOK /\ n > 1
    BY DEF CallsInv, Return
  <2>2. stack \in Seq(T)
    BY <2>1 DEF TypeOK
  <2>3. n \in Nat \ {0} /\ \A k \in 1 .. n : stack[k] \in T
    BY <2>1, TopType
  <2> HIDE DEF T
  <2> QED
    BY <1>01, <2>1, <2>2, <2>3
<1>2. caller \in T
  <2> HIDE DEF T
  <2> QED
    BY <1>1, <1>01
<1>3. fr \in T /\ fr.i = caller.i + 1 /\ fr.file = caller.file /\ fr.path = caller.path /\ fr.conds = caller.conds
      /\ fr.held = caller.held /\ fr.parent_file = caller.parent_file
  <2> HIDE DEF caller
  <2>1. caller.i \in Nat
    BY <1>2 DEF FrameSet
  <2>2. caller.i + 1 \in Nat \ {0}
    BY <2>1
  <2> QED
    BY <1>2, <2>2 DEF FrameSet
<1>4. stack' = Append(below, fr)
  BY DEF Return
<1> HIDE DEF T, fr
<1>5. below \in Seq(T) /\ Len(below) = n - 2 /\ \A k \in 1 .. n - 2 : below[k] = stack[k]
  BY <1>1, <1>01
<1> HIDE DEF below
<1>6. stack' \in Seq(T) /\ Len(stack') = n - 1 /\ stack'[n - 1] = fr
      /\ \A k \in 1 .. n - 2 : stack'[k] = stack[k]
  BY <1>3, <1>4, <1>5, <1>01
<1>7. ASSUME NEW k \in 1 .. n - 1
      PROVE  /\ stack'[k].file = stack[k].file /\ stack'[k].path = stack[k].path
             /\ stack'[k].parent_file = stack[k].parent_file
             /\ stack'[k].conds = stack[k].conds /\ stack'[k].held = stack[k].held
  <2>1. k = n - 1 \/ k \in 1 .. n - 2
    BY <1>1
  <2> QED
    BY <1>3, <1>6, <2>1
<1> QED
  BY <1>1, <1>2, <1>3, <1>6, <1>7 DEF T, fr

LEMMA ReturnKeeps ==
    ASSUME CallsInv, Return
    PROVE  CallsInv'
<1> DEFINE n == Len(stack)
           caller == stack[n - 1]
<1> USE DEF CallsInv
<1>1. pc = "run" /\ src' = src /\ preprocessor_current_file' = Top.parent_file
      /\ preprocessor_current_line' = Top.parent_line + 1
      /\ UNCHANGED <<included_files, taken, pc>>
  BY DEF Return
<1>2. /\ n \in Nat \ {0, 1} /\ caller \in FrameSet(DOMAIN src)
      /\ stack' \in Seq(FrameSet(DOMAIN src)) /\ Len(stack') = n - 1
      /\ \A k \in 1 .. n - 2 : stack'[k] = stack[k]
      /\ \A k \in 1 .. n - 1 : /\ stack'[k].file = stack[k].file
                               /\ stack'[k].path = stack[k].path
                               /\ stack'[k].parent_file = stack[k].parent_file
                               /\ stack'[k].conds = stack[k].conds
                               /\ stack'[k].held = stack[k].held
      /\ stack'[n - 1].i = caller.i + 1
  BY ReturnStack
<1>3. caller.file \in DOMAIN src /\ caller.path \in Path /\ caller.i \in Nat \ {0} /\ caller.conds \in Seq(CondState)
  <2> HIDE DEF caller
  <2> QED
    BY <1>2 DEF FrameSet
<1>4. Top.parent_file = caller.path
  BY <1>2 DEF FilesKnown, Top
<1>5. TypeOK'
  <2> DEFINE T == FrameSet(DOMAIN src)
  <2>1. stack' \in Seq(T) /\ Len(stack') # 0
    BY <1>2
  <2> HIDE DEF T
  <2>2. stack' # << >>
    BY <2>1
  <2>3. Top.parent_line + 1 \in Nat
    BY TopType
  <2> QED
    BY <1>1, <1>3, <1>4, <2>1, <2>2, <2>3 DEF TypeOK, T
<1>6. Top' = stack'[n - 1]
  BY <1>2 DEF Top
<1>7. FilesKnown'
  <2>1. ASSUME NEW k \in 2 .. n - 1 PROVE stack'[k].parent_file = stack'[k - 1].path
    <3>1. k - 1 \in 1 .. n - 1 /\ k \in 1 .. n - 1 /\ k \in 2 .. n
      BY <1>2
    <3> QED
      BY <1>2, <3>1 DEF FilesKnown
  <2>2. n - 1 \in 1 .. n - 1
    BY <1>2
  <2> QED
    BY <1>1, <1>2, <1>4, <1>6, <2>1, <2>2 DEF FilesKnown
<1>8. \A k \in 1 .. n - 1 : LinesOf(k)' = LinesOf(k)
  BY <1>1, <1>2 DEF LinesOf
<1>9. n - 1 \in 1 .. n - 1 /\ n - 1 \in 1 .. n
  BY <1>2
<1>10. /\ LinesOf(n - 1)[caller.i].d = "include" /\ caller.i <= Len(LinesOf(n - 1))
       /\ Len(LinesOf(n - 1)) \in Nat
  BY <1>3, <1>9, LinesType DEF Positions, LinesOf
<1>11. Positions'
  <2>1. ASSUME NEW k \in 1 .. n - 1 PROVE stack'[k].i \in 1 .. Len(LinesOf(k)') + 1
    <3>1. CASE k = n - 1
      <4>1. stack'[k].i = caller.i + 1 /\ LinesOf(k)' = LinesOf(n - 1)
        BY <1>2, <1>8, <1>9, <3>1
      <4> HIDE DEF n, caller
      <4> QED
        BY <1>3, <1>10, <4>1
    <3>2. CASE k \in 1 .. n - 2
      <4>1. k \in 1 .. n /\ k \in 1 .. n - 1
        BY <1>2
      <4> QED
        BY <1>2, <1>8, <3>2, <4>1 DEF Positions
    <3> QED
      BY <1>2, <3>1, <3>2
  <2>2. ASSUME NEW k \in 1 .. n - 2
        PROVE  stack'[k].i <= Len(LinesOf(k)') /\ LinesOf(k)'[stack'[k].i].d = "include"
    <3>1. k \in 1 .. n - 1
      BY <1>2
    <3>2. stack'[k] = stack[k] /\ LinesOf(k)' = LinesOf(k)
      BY <1>2, <1>8, <3>1
    <3> QED
      BY <3>1, <3>2 DEF Positions
  <2>3. (n - 1) - 1 = n - 2
    BY <1>2
  <2> QED
    BY <1>1, <1>2, <2>1, <2>2, <2>3 DEF Positions
<1>12. CondsMatch(LinesOf(n - 1), caller.i + 1, caller.conds, caller.held)
  <2>1. CondsMatch(LinesOf(n - 1), caller.i, caller.conds, caller.held)
    BY <1>9 DEF CondsRight
  <2>2. caller.i + 1 \in Nat /\ caller.i <= caller.i + 1 /\ caller.i .. (caller.i + 1) - 1 = {caller.i}
    BY <1>3
  <2>3. "include" \notin Conditionals
    BY DEF Conditionals, Openers
  <2> QED
    BY <1>3, <1>10, <2>1, <2>2, <2>3, MatchQuiet
<1>13. CondsRight'
  <2>1. ASSUME NEW k \in 1 .. n - 1
        PROVE  CondsMatch(LinesOf(k)', stack'[k].i, stack'[k].conds, stack'[k].held)
    <3>1. CASE k = n - 1
      BY <1>2, <1>8, <1>9, <1>12, <3>1
    <3>2. CASE k \in 1 .. n - 2
      <4>1. k \in 1 .. n /\ stack'[k] = stack[k] /\ LinesOf(k)' = LinesOf(k)
        BY <1>2, <1>8, <3>2
      <4> QED
        BY <4>1 DEF CondsRight
    <3> QED
      BY <1>2, <3>1, <3>2
  <2> QED
    BY <1>2, <2>1 DEF CondsRight
<1> QED
  BY <1>5, <1>7, <1>11, <1>13

\* The expander's steps touch nothing but its own calls and the result.
LEMMA ExpandStepFrame ==
    ASSUME ExpandStep
    PROVE  macros' = macros /\ pc = "expand" /\ pc' \in {"expand", "expanded"}
BY DEF ExpandStep, Emit, ExpandObject, BeginCall, Stringize, CommaPaste, PasteNext, CopyToken,
       CopyRaw, Prescan, PrescanReturn, SpliceCall, EndExpand, InLoop, InSubst, Finished

\* Steps that leave every call where it is.
LEMMA StandingKeeps ==
    ASSUME CallsInv, UNCHANGED <<src, stack, preprocessor_current_file, included_files, taken>>,
           preprocessor_current_line' \in Nat,
           pc' \in {"run", "expand", "expanded", "done", "error"},
           pc' \in {"expand", "expanded"} => ~AtEnd /\ L.d = "text" /\ Active
    PROVE  CallsInv'
<1> USE DEF CallsInv
<1>1. Top' = Top /\ \A k : LinesOf(k)' = LinesOf(k)
  BY DEF Top, LinesOf
<1>2. Lines' = Lines
  BY <1>1 DEF Lines
<1>3. L' = L /\ AtEnd' = AtEnd /\ Active' = Active
  BY <1>1, <1>2 DEF L, AtEnd, Active, is_active
<1>4. TypeOK' /\ FilesKnown'
  BY <1>1 DEF TypeOK, FilesKnown
<1>5. Positions'
  BY <1>1, <1>3 DEF Positions
<1>6. CondsRight'
  BY <1>1 DEF CondsRight
<1> QED
  BY <1>4, <1>5, <1>6

LEMMA OthersKeep ==
    ASSUME CallsInv, Error \/ Text \/ ExpandText \/ Finish \/ Done \/ UNCHANGED vars
    PROVE  CallsInv'
<1> USE DEF CallsInv
<1>1. preprocessor_current_line \in Nat /\ pc \in {"run", "expand", "expanded", "done", "error"}
  BY DEF TypeOK
<1>2. CASE Error \/ Finish
  BY <1>1, <1>2, StandingKeeps DEF Error, Finish, lineVars
<1>3. CASE Text
  <2>1. ~AtEnd /\ L.d = "text" /\ Active /\ pc' = "expand"
        /\ preprocessor_current_line' = preprocessor_current_line + (LastTaken - Top.i)
        /\ UNCHANGED <<src, stack, preprocessor_current_file, included_files, taken>>
    BY <1>3 DEF Text, Running, BeginExpand
  <2>2. LastTaken \in Top.i .. Len(Lines) /\ Top.i \in Nat /\ Len(Lines) \in Nat
    BY <2>1, LastTakenIsText, TopFacts
  <2>3. preprocessor_current_line' \in Nat
    BY <1>1, <2>1, <2>2
  <2> QED
    BY <2>1, <2>3, StandingKeeps
<1>4. CASE ExpandText
  <2>1. pc = "expand" /\ pc' \in {"expand", "expanded"} /\ UNCHANGED lineVars
    BY <1>4, ExpandStepFrame DEF ExpandText
  <2>2. ~AtEnd /\ L.d = "text" /\ Active
    BY <2>1 DEF Positions
  <2> QED
    BY <1>1, <2>1, <2>2, StandingKeeps DEF lineVars
<1>5. CASE Done \/ UNCHANGED vars
  <2>1. UNCHANGED lineVars /\ pc' = pc
    BY <1>5 DEF Done, vars
  <2>2. pc \in {"expand", "expanded"} => ~AtEnd /\ L.d = "text" /\ Active
    BY DEF Positions
  <2> QED
    BY <1>1, <2>1, <2>2, StandingKeeps DEF lineVars
<1> QED
  BY <1>2, <1>3, <1>4, <1>5

LEMMA CallsInit ==
    ASSUME Init
    PROVE  CallsInv
<1> DEFINE fr == Frame(Main, << >>, 1)
           T == FrameSet(DOMAIN src)
<1>1. src \in Sources /\ stack = <<fr>> /\ preprocessor_current_file = Main
      /\ preprocessor_current_line = 1 /\ included_files = {Main} /\ taken = << >> /\ pc = "run"
  BY DEF Init
<1>2. FileAt(Main) \in DOMAIN src /\ Len(src[FileAt(Main)]) \in Nat /\ Main \in Path /\ << >> \in Path
  BY <1>1, FilesAssumption, PathsAssumption DEF Path
<1>3. fr.file = FileAt(Main) /\ fr.path = Main /\ fr.i = 1 /\ fr.conds = << >> /\ fr.held = {}
  BY DEF Frame
<1>4. fr \in T
  <2>1. << >> \in Seq(CondState) /\ {} \in SUBSET Nat /\ 1 \in Nat \ {0} /\ 1 \in Nat
    OBVIOUS
  <2> QED
    BY <1>2, <2>1 DEF Frame, FrameSet
<1> HIDE DEF fr
<1>5. stack \in Seq(T) /\ Len(stack) = 1 /\ stack[1] = fr /\ stack # << >>
  <2> HIDE DEF T
  <2> QED
    BY <1>1, <1>4
<1>6. TypeOK
  <2>1. taken \in Seq(TakenSet(DOMAIN src))
    BY <1>1
  <2> QED
    BY <1>1, <1>2, <1>5, <2>1 DEF TypeOK
<1>7. FilesKnown
  BY <1>1, <1>3, <1>5 DEF FilesKnown, Top
<1>8. Positions
  BY <1>1, <1>2, <1>3, <1>5 DEF Positions, LinesOf
<1>9. CondsRight
  <2>1. ASSUME NEW k \in 1 .. Len(stack)
        PROVE  CondsMatch(LinesOf(k), stack[k].i, stack[k].conds, stack[k].held)
    <3>1. stack[k] = fr
      BY <1>5
    <3>2. CondsMatch(LinesOf(k), 1, << >>, {})
      BY MatchAtStart
    <3> QED
      BY <1>3, <3>1, <3>2
  <2> QED
    BY <2>1 DEF CondsRight
<1> QED
  BY <1>6, <1>7, <1>8, <1>9 DEF CallsInv

LEMMA CallsStep ==
    ASSUME CallsInv, [Next]_vars
    PROVE  CallsInv'
BY IfKeeps, ElifKeeps, ElseKeeps, EndifKeeps, DirectivesKeep, LineKeeps, AppendTextKeeps,
   IncludeKeeps, ReturnKeeps, OthersKeep DEF Next, Step

(* The types of the preprocessor's state, for all files: the stack of      *)
(* calls and their conditional stacks, the globals of the innermost call,  *)
(* the files recorded and the lines taken.                                 *)
THEOREM PreprocessTypeCorrect == Spec => []TypeOK
<1>1. Init => CallsInv
  BY CallsInit
<1>2. CallsInv /\ [Next]_vars => CallsInv'
  BY CallsStep
<1>3. CallsInv => TypeOK
  BY DEF CallsInv
<1> QED
  BY <1>1, <1>2, <1>3, PTL DEF Spec

(* In every file, at every depth of includes: a line is taken exactly when *)
(* it is in the first true branch of every group around it.                *)
THEOREM ConditionalsDecide == Spec => []ActiveIsLive
<1>1. Init => CallsInv
  BY CallsInit
<1>2. CallsInv /\ [Next]_vars => CallsInv'
  BY CallsStep
<1>3. CallsInv => ActiveIsLive
  BY SMTT(30), TopFacts, MatchMeansLive DEF ActiveIsLive, Active
<1> QED
  BY <1>1, <1>2, <1>3, PTL DEF Spec

-----------------------------------------------------------------------------
(* Files that guard themselves.  One that begins with #pragma once has not *)
(* been read beyond that line by a path before the path is recorded, and   *)
(* is never opened by it again afterwards.                                 *)
InOrder(f) ==
    \A x, y \in DOMAIN taken :
        x < y /\ taken[x].file = f /\ taken[y].file = f => taken[x].to < taken[y].from
InPathOrder(p) ==
    \A x, y \in DOMAIN taken :
        x < y /\ taken[x].path = p /\ taken[y].path = p => taken[x].to < taken[y].from
PragmaOnce(p) ==
    /\ InPathOrder(p)
    /\ p \in included_files =>
          /\ \A j, k \in 1 .. Len(stack) : stack[j].path = p /\ stack[k].path = p => j = k
          /\ \A x \in DOMAIN taken, k \in 1 .. Len(stack) :
                taken[x].path = p /\ stack[k].path = p => taken[x].to < stack[k].i
    /\ p \notin included_files =>
          /\ \A x \in DOMAIN taken : taken[x].path # p
          /\ \A k \in 1 .. Len(stack) : stack[k].path = p => k = Len(stack) /\ stack[k].i = 1

(* In a file guarded by a macro at most one call is inside the guard and   *)
(* active, and the macro is defined once that call is past the #define or  *)
(* has brought out a line.                                                 *)
InGuard(f, k) ==
    /\ stack[k].file = f /\ stack[k].i \in 2 .. Len(src[f])
    /\ stack[k].conds[1].active
MacroOnce(f) ==
    /\ InOrder(f)
    /\ \A k \in 1 .. Len(stack) : stack[k].file = f =>
          /\ stack[k].i \in {1, Len(src[f]) + 1} => stack[k].conds = << >>
          /\ stack[k].i \in 2 .. Len(src[f]) => Len(stack[k].conds) = 1
    /\ \A x \in DOMAIN taken : taken[x].file = f => src[f][1].n \in DOMAIN macros
    /\ \A k \in 1 .. Len(stack) : InGuard(f, k) /\ stack[k].i > 2 => src[f][1].n \in DOMAIN macros
    /\ \A j, k \in 1 .. Len(stack) : InGuard(f, j) /\ InGuard(f, k) => j = k
    /\ \A x \in DOMAIN taken, k \in 1 .. Len(stack) :
          taken[x].file = f /\ InGuard(f, k) => taken[x].to < stack[k].i
OnceInv ==
    /\ \A p : FileAt(p) \in DOMAIN src /\ PragmaGuarded(FileAt(p)) => PragmaOnce(p)
    /\ \A f \in DOMAIN src : MacroGuarded(f) => MacroOnce(f)

\* One line's turn, for all directives that take it in the same call.
Moves(i, conds) ==
    /\ Len(stack') = Len(stack) /\ \A k \in 1 .. Len(stack) - 1 : stack'[k] = stack[k]
    /\ stack'[Len(stack)].file = Top.file /\ stack'[Len(stack)].path = Top.path
    /\ stack'[Len(stack)].i = i
    /\ stack'[Len(stack)].conds = conds
Turn(conds) ==
    /\ Moves(Top.i + 1, conds) /\ ~AtEnd
    /\ L.d \notin Conditionals => conds = Top.conds
    /\ L.d \in Openers => conds = push_cond(Top.conds, Holds(L), Holds(L) /\ Active)
    /\ L.d = "endif" => conds = Front(Top.conds)
    /\ L.d = "define" /\ Active => L.n \in DOMAIN macros'
    /\ \A g \in DOMAIN macros : (L.d = "undef" /\ L.n = g) \/ g \in DOMAIN macros'
    /\ L.d = "once" => included_files' = included_files \cup {preprocessor_current_file}
    /\ L.d # "once" => included_files' = included_files
    /\ taken' = taken /\ src' = src

LEMMA MovesTop ==
    ASSUME TypeOK, TypeOK', NEW fr, stack' = [stack EXCEPT ![Len(stack)] = fr],
           NEW conds, fr.file = Top.file, fr.path = Top.path, fr.conds = conds, NEW i, fr.i = i
    PROVE  Moves(i, conds)
<1> DEFINE T == FrameSet(DOMAIN src)
           U == FrameSet(DOMAIN src')
<1>1. stack \in Seq(T) /\ stack' \in Seq(U) /\ Len(stack) \in Nat \ {0}
  BY TopType DEF TypeOK
<1> HIDE DEF T, U
<1>2. DOMAIN stack = 1 .. Len(stack) /\ DOMAIN stack' = 1 .. Len(stack') /\ Len(stack') \in Nat
  BY <1>1
<1>3. DOMAIN stack' = DOMAIN stack
  OBVIOUS
<1>4. Len(stack') = Len(stack)
  <2>1. Len(stack) \in 1 .. Len(stack') /\ Len(stack) + 1 \notin 1 .. Len(stack')
    BY <1>1, <1>2, <1>3
  <2> QED
    BY <1>1, <1>2, <2>1
<1>5. Len(stack) \in DOMAIN stack
      /\ \A k \in 1 .. Len(stack) - 1 : k \in DOMAIN stack /\ k # Len(stack)
  <2>1. \A n \in Nat \ {0} : n \in 1 .. n /\ \A k \in 1 .. n - 1 : k \in 1 .. n /\ k # n
    OBVIOUS
  <2> QED
    BY <1>1, <1>2, <2>1, Zenon
<1>6. stack'[Len(stack)] = fr
  BY <1>5
<1>7. \A k \in 1 .. Len(stack) - 1 : stack'[k] = stack[k]
  <2>1. \A k \in DOMAIN stack : k # Len(stack) => stack'[k] = stack[k]
    OBVIOUS
  <2> QED
    BY <1>5, <2>1
<1> QED
  BY <1>4, <1>6, <1>7 DEF Moves

LEMMA AdvanceMoves ==
    ASSUME TypeOK, TypeOK', NEW len \in Nat, NEW conds, Advance(len, conds)
    PROVE  Moves(Top.i + len, conds) /\ src' = src
<1> DEFINE fr == [Top EXCEPT !.i = Top.i + len, !.conds = conds,
                             !.held = Top.held \cup {j \in {Top.i} : Holds(L)}]
<1>1. stack' = [stack EXCEPT ![Len(stack)] = fr] /\ src' = src
  BY DEF Advance
<1>2. fr.file = Top.file /\ fr.path = Top.path /\ fr.conds = conds /\ fr.i = Top.i + len
  BY TopType DEF FrameSet
<1> HIDE DEF fr
<1> QED
  BY <1>1, <1>2, MovesTop

LEMMA EveryTurn ==
    ASSUME CallsInv, CallsInv',
           \/ If \/ Elif \/ Else \/ Endif \/ Define \/ Undef \/ IncludeSkipped \/ Once
           \/ Line \/ Skip
    PROVE  \E conds : Turn(conds)
<1> USE DEF CallsInv
<1> DEFINE Quiet == {"define", "undef", "include", "once", "line", "error", "text"}
<1>0. Quiet \cap Conditionals = {} /\ Openers \cap {"elif", "else", "endif"} = {}
      /\ Openers \cap Quiet = {} /\ Openers \subseteq Conditionals
      /\ {"elif", "else", "endif"} \subseteq Conditionals
  BY DEF Conditionals, Openers
<1> HIDE DEF Quiet
<1>1. ASSUME NEW conds, Advance(1, conds) PROVE Moves(Top.i + 1, conds) /\ src' = src
  BY <1>1, AdvanceMoves
<1>2. CASE If
  <2> DEFINE conds == push_cond(Top.conds, Holds(L), Holds(L) /\ Active)
  <2>1. ~AtEnd /\ L.d \in Openers /\ Advance(1, conds)
        /\ UNCHANGED <<macros, included_files, taken>>
    BY <1>2 DEF If, Running
  <2> HIDE DEF conds
  <2>2. Moves(Top.i + 1, conds) /\ src' = src
    BY <1>1, <2>1
  <2>3. Turn(conds)
    BY <1>0, <2>1, <2>2 DEF Turn, Quiet, conds
  <2> QED
    BY <2>3
<1>3. CASE Elif \/ Else
  <2>1. PICK conds : ~AtEnd /\ L.d \in {"elif", "else"} /\ Advance(1, conds)
                     /\ UNCHANGED <<macros, included_files, taken>>
    BY <1>3 DEF Elif, Else, Running
  <2>2. Moves(Top.i + 1, conds) /\ src' = src
    BY <1>1, <2>1
  <2>3. Turn(conds)
    BY <1>0, <2>1, <2>2 DEF Turn
  <2> QED
    BY <2>3
<1>4. CASE Endif
  <2> DEFINE conds == Front(Top.conds)
  <2>1. ~AtEnd /\ L.d = "endif" /\ Advance(1, conds) /\ UNCHANGED <<macros, included_files, taken>>
    BY <1>4 DEF Endif, Running
  <2> HIDE DEF conds
  <2>2. Moves(Top.i + 1, conds) /\ src' = src
    BY <1>1, <2>1
  <2>3. Turn(conds)
    BY <1>0, <2>1, <2>2 DEF Turn, conds
  <2> QED
    BY <2>3
<1>5. CASE Define
  <2>1. ~AtEnd /\ L.d = "define" /\ Advance(1, Top.conds) /\ UNCHANGED <<included_files, taken>>
        /\ macros' = [n \in DOMAIN macros \cup {L.n} |-> IF n = L.n THEN L.def ELSE macros[n]]
    BY <1>5 DEF Define, Running
  <2>2. L.n \in DOMAIN macros' /\ DOMAIN macros \subseteq DOMAIN macros'
    BY <2>1
  <2>3. Moves(Top.i + 1, Top.conds) /\ src' = src
    BY <1>1, <2>1
  <2>4. Turn(Top.conds)
    BY <1>0, <2>1, <2>2, <2>3 DEF Turn, Quiet
  <2> QED
    BY <2>4
<1>6. CASE Undef
  <2>1. ~AtEnd /\ L.d = "undef" /\ Advance(1, Top.conds) /\ UNCHANGED <<included_files, taken>>
        /\ macros' = [n \in DOMAIN macros \ {L.n} |-> macros[n]]
    BY <1>6 DEF Undef, Running
  <2>2. \A g \in DOMAIN macros : L.n = g \/ g \in DOMAIN macros'
    BY <2>1
  <2>3. Moves(Top.i + 1, Top.conds) /\ src' = src
    BY <1>1, <2>1
  <2>4. Turn(Top.conds)
    BY <1>0, <2>1, <2>2, <2>3 DEF Turn, Quiet
  <2> QED
    BY <2>4
<1>7. CASE IncludeSkipped \/ Skip
  <2>1. ~AtEnd /\ L.d \in Quiet \ {"once"} /\ Advance(1, Top.conds) /\ (L.d = "define" => ~Active)
        /\ UNCHANGED <<macros, included_files, taken>>
    BY <1>7 DEF IncludeSkipped, Skip, Running, Quiet
  <2>2. Moves(Top.i + 1, Top.conds) /\ src' = src
    BY <1>1, <2>1
  <2>3. Turn(Top.conds)
    BY <1>0, <2>1, <2>2 DEF Turn
  <2> QED
    BY <2>3
<1>8. CASE Once
  <2>1. ~AtEnd /\ L.d = "once" /\ Advance(1, Top.conds) /\ UNCHANGED <<macros, taken>>
        /\ included_files' = included_files \cup {preprocessor_current_file}
    BY <1>8 DEF Once, Running
  <2>2. Moves(Top.i + 1, Top.conds) /\ src' = src
    BY <1>1, <2>1
  <2>3. Turn(Top.conds)
    BY <1>0, <2>1, <2>2 DEF Turn, Quiet
  <2> QED
    BY <2>3
<1>9. CASE Line
  <2> DEFINE fr == [Top EXCEPT !.i = Top.i + 1]
  <2>1. ~AtEnd /\ L.d = "line" /\ UNCHANGED <<macros, included_files, taken, src>>
        /\ stack' = [stack EXCEPT ![Len(stack)] = fr]
    BY <1>9 DEF Line, Running
  <2>2. fr.file = Top.file /\ fr.path = Top.path /\ fr.conds = Top.conds /\ fr.i = Top.i + 1
    BY TopType DEF FrameSet
  <2> HIDE DEF fr
  <2>3. Moves(Top.i + 1, Top.conds)
    BY <2>1, <2>2, MovesTop
  <2>4. Turn(Top.conds)
    BY <1>0, <2>1, <2>3 DEF Turn, Quiet
  <2> QED
    BY <2>4
<1> QED
  BY <1>2, <1>3, <1>4, <1>5, <1>6, <1>7, <1>8, <1>9

\* The innermost call and its line, for a file f.
LEMMA TopLine ==
    ASSUME CallsInv
    PROVE  /\ Len(stack) \in Nat \ {0} /\ Len(stack) \in 1 .. Len(stack)
           /\ \A k \in 1 .. Len(stack) : k = Len(stack) \/ k \in 1 .. Len(stack) - 1
           /\ Top = stack[Len(stack)] /\ L = src[Top.file][Top.i]
           /\ Top.file \in DOMAIN src /\ Top.i \in Nat \ {0}
           /\ preprocessor_current_file = Top.path /\ Top.file = FileAt(Top.path)
           /\ Top.conds \in Seq(CondState)
<1>1. Len(stack) \in Nat \ {0} /\ Top.file \in DOMAIN src /\ Top.file = FileAt(Top.path)
      /\ Top.i \in Nat \ {0} /\ Top.conds \in Seq(CondState)
  BY TopType DEF CallsInv
<1>2. Len(stack) \in 1 .. Len(stack)
      /\ \A k \in 1 .. Len(stack) : k = Len(stack) \/ k \in 1 .. Len(stack) - 1
  BY <1>1
<1>3. Top = stack[Len(stack)] /\ L = src[Top.file][Top.i] /\ preprocessor_current_file = Top.path
  BY DEF Top, L, Lines, CallsInv, FilesKnown
<1> QED
  BY <1>1, <1>2, <1>3

LEMMA TakenType ==
    ASSUME CallsInv
    PROVE  /\ Len(taken) \in Nat /\ DOMAIN taken = 1 .. Len(taken)
           /\ \A x \in DOMAIN taken : /\ taken[x].to \in Nat /\ taken[x].from \in Nat
                                     /\ taken[x].file = FileAt(taken[x].path)
                                     /\ taken[x].file \in DOMAIN src
<1> DEFINE T == TakenSet(DOMAIN src)
<1>1. taken \in Seq(T)
  BY DEF CallsInv, TypeOK
<1> HIDE DEF T
<1>2. Len(taken) \in Nat /\ DOMAIN taken = 1 .. Len(taken) /\ \A x \in DOMAIN taken : taken[x] \in T
  BY <1>1
<1> QED
  BY <1>2 DEF T, TakenSet

\* The lines that are appended: of the innermost call, which is active.
Appends(last) ==
    /\ L.d = "text" /\ Active /\ ~AtEnd
    /\ last \in Top.i .. Len(Lines) /\ \A m \in Top.i .. last : Lines[m].d = "text"
    /\ Moves(last + 1, Top.conds)
    /\ src' = src /\ included_files' = included_files /\ macros' = macros
    /\ DOMAIN taken' = 1 .. Len(taken) + 1
    /\ \A x \in 1 .. Len(taken) : taken'[x] = taken[x]
    /\ taken'[Len(taken) + 1] = [file |-> Top.file, path |-> Top.path, from |-> Top.i, to |-> last]
LEMMA AppendShape ==
    ASSUME CallsInv, CallsInv', AppendText
    PROVE  \E last : Appends(last)
<1> DEFINE entry == [file |-> Top.file, path |-> Top.path, from |-> Top.i, to |-> LastTaken]
           T == TakenSet(DOMAIN src)
<1>1. TypeOK /\ TypeOK' /\ ~AtEnd /\ L.d = "text" /\ Active
  BY DEF AppendText, CallsInv, Positions
<1>2. /\ LastTaken \in Top.i .. Len(Lines)
      /\ \A m \in Top.i .. LastTaken : Lines[m].d = "text"
  BY <1>1, LastTakenIsText
<1>3. Top.i \in Nat \ {0} /\ Len(Lines) \in Nat /\ Top.file \in DOMAIN src
      /\ Top.path \in Path /\ Top.file = FileAt(Top.path)
  BY <1>1, TopFacts, TopType
<1>4. LastTaken - Top.i + 1 \in Nat /\ Top.i + (LastTaken - Top.i + 1) = LastTaken + 1
  BY <1>2, <1>3
<1>5. Moves(LastTaken + 1, Top.conds) /\ src' = src
  <2>1. Advance(LastTaken - Top.i + 1, Top.conds)
    BY DEF AppendText
  <2>2. Moves(Top.i + (LastTaken - Top.i + 1), Top.conds) /\ src' = src
    BY <1>1, <1>4, <2>1, AdvanceMoves
  <2> QED
    BY <1>4, <2>2, Zenon
<1>6. included_files' = included_files /\ macros' = macros /\ taken' = Append(taken, entry)
  BY DEF AppendText
<1>7. entry \in T /\ taken \in Seq(T)
  BY <1>1, <1>2, <1>3 DEF TypeOK, TakenSet
<1>8. /\ DOMAIN taken' = 1 .. Len(taken) + 1
      /\ \A x \in 1 .. Len(taken) : taken'[x] = taken[x]
      /\ taken'[Len(taken) + 1] = entry
  <2> HIDE DEF T, entry
  <2> QED
    BY <1>6, <1>7
<1>9. Appends(LastTaken)
  BY <1>1, <1>2, <1>5, <1>6, <1>8 DEF Appends
<1> QED
  BY <1>9

\* Lines of f stay in order when those of a call ahead of them are appended.
LEMMA OrderGrows ==
    ASSUME CallsInv, NEW last, Appends(last), NEW f, InOrder(f),
           Top.file = f => \A x \in DOMAIN taken : taken[x].file = f => taken[x].to < Top.i
    PROVE  InOrder(f)'
<1>1. Len(taken) \in Nat /\ DOMAIN taken = 1 .. Len(taken)
  BY TakenType
<1>2. /\ DOMAIN taken' = 1 .. Len(taken) + 1
      /\ \A x \in 1 .. Len(taken) : taken'[x] = taken[x]
      /\ taken'[Len(taken) + 1].file = Top.file /\ taken'[Len(taken) + 1].from = Top.i
  BY DEF Appends
<1>3. ASSUME NEW x \in DOMAIN taken', NEW y \in DOMAIN taken', x < y,
             taken'[x].file = f, taken'[y].file = f
      PROVE  taken'[x].to < taken'[y].from
  <2>1. x \in 1 .. Len(taken)
    BY <1>1, <1>2, <1>3
  <2>2. CASE y = Len(taken) + 1
    BY <1>1, <1>2, <1>3, <2>1, <2>2
  <2>3. CASE y \in 1 .. Len(taken)
    BY <1>1, <1>2, <1>3, <2>1, <2>3 DEF InOrder
  <2> QED
    BY <1>1, <1>2, <2>2, <2>3
<1> QED
  BY <1>3 DEF InOrder

\* The same for the lines taken from the file at a path p.
LEMMA PathOrderGrows ==
    ASSUME CallsInv, NEW last, Appends(last), NEW p, InPathOrder(p),
           Top.path = p => \A x \in DOMAIN taken : taken[x].path = p => taken[x].to < Top.i
    PROVE  InPathOrder(p)'
<1>1. Len(taken) \in Nat /\ DOMAIN taken = 1 .. Len(taken)
  BY TakenType
<1>2. /\ DOMAIN taken' = 1 .. Len(taken) + 1
      /\ \A x \in 1 .. Len(taken) : taken'[x] = taken[x]
      /\ taken'[Len(taken) + 1].path = Top.path /\ taken'[Len(taken) + 1].from = Top.i
  BY DEF Appends
<1>3. ASSUME NEW x \in DOMAIN taken', NEW y \in DOMAIN taken', x < y,
             taken'[x].path = p, taken'[y].path = p
      PROVE  taken'[x].to < taken'[y].from
  <2>1. x \in 1 .. Len(taken)
    BY <1>1, <1>2, <1>3
  <2>2. CASE y = Len(taken) + 1
    BY <1>1, <1>2, <1>3, <2>1, <2>2
  <2>3. CASE y \in 1 .. Len(taken)
    BY <1>1, <1>2, <1>3, <2>1, <2>3 DEF InPathOrder
  <2> QED
    BY <1>1, <1>2, <2>2, <2>3
<1> QED
  BY <1>3 DEF InPathOrder

LEMMA PragmaTurn ==
    ASSUME CallsInv, NEW conds, Turn(conds), NEW p,
           FileAt(p) \in DOMAIN src, PragmaGuarded(FileAt(p)), PragmaOnce(p)
    PROVE  PragmaOnce(p)'
<1> DEFINE n == Len(stack)
<1>1. /\ n \in Nat \ {0} /\ n \in 1 .. n /\ \A k \in 1 .. n : k = n \/ k \in 1 .. n - 1
      /\ Top = stack[n] /\ L = src[Top.file][Top.i] /\ Top.i \in Nat \ {0}
      /\ preprocessor_current_file = Top.path /\ Top.file = FileAt(Top.path)
  BY TopLine
<1>2. /\ Len(stack') = n /\ \A k \in 1 .. n - 1 : stack'[k] = stack[k]
      /\ stack'[n].path = Top.path /\ stack'[n].i = Top.i + 1
      /\ taken' = taken
  BY DEF Turn, Moves
<1>3. /\ L.d = "once" => included_files' = included_files \cup {Top.path}
      /\ L.d # "once" => included_files' = included_files
  BY <1>1 DEF Turn
<1>4. \A k \in 1 .. n : stack'[k].path = stack[k].path
  BY <1>1, <1>2
<1>6. CASE p \in included_files
  <2>1. p \in included_files'
    BY <1>3, <1>6
  <2>2. \A j, k \in 1 .. n : stack'[j].path = p /\ stack'[k].path = p => j = k
    BY <1>4, <1>6 DEF PragmaOnce
  <2>3. ASSUME NEW x \in DOMAIN taken, NEW k \in 1 .. n, taken[x].path = p, stack'[k].path = p
        PROVE  taken[x].to < stack'[k].i
    <3>1. taken[x].to < stack[k].i
      BY <1>4, <1>6, <2>3 DEF PragmaOnce
    <3>2. CASE k \in 1 .. n - 1
      BY <1>2, <3>1, <3>2
    <3>3. CASE k = n
      <4>1. taken[x].to \in Nat
        BY TakenType
      <4> QED
        BY <1>1, <1>2, <3>1, <3>3, <4>1
    <3> QED
      BY <1>1, <3>2, <3>3
  <2> QED
    BY <1>2, <2>1, <2>2, <2>3 DEF PragmaOnce, InPathOrder
<1>7. CASE p \notin included_files /\ Top.path = p
  <2>1. Top.i = 1
    BY <1>1, <1>7 DEF PragmaOnce
  <2>2. L.d = "once"
    BY <1>1, <1>7, <2>1 DEF PragmaGuarded
  <2>3. p \in included_files'
    BY <1>3, <1>7, <2>2
  <2>4. \A x \in DOMAIN taken : taken[x].path # p
    BY <1>7 DEF PragmaOnce
  <2>5. \A k \in 1 .. n : stack'[k].path = p => k = n
    BY <1>4, <1>7 DEF PragmaOnce
  <2> QED
    BY <1>2, <2>3, <2>4, <2>5 DEF PragmaOnce, InPathOrder
<1>8. CASE p \notin included_files /\ Top.path # p
  <2>1. p \notin included_files'
    BY <1>3, <1>8
  <2>2. \A x \in DOMAIN taken : taken[x].path # p
    BY <1>8 DEF PragmaOnce
  <2>3. \A k \in 1 .. n : stack'[k].path # p
    BY <1>1, <1>4, <1>8 DEF PragmaOnce
  <2> QED
    BY <1>2, <2>1, <2>2, <2>3 DEF PragmaOnce, InPathOrder
<1> QED
  BY <1>6, <1>7, <1>8

LEMMA PragmaAppends ==
    ASSUME CallsInv, NEW last, Appends(last), NEW p,
           FileAt(p) \in DOMAIN src, PragmaGuarded(FileAt(p)), PragmaOnce(p)
    PROVE  PragmaOnce(p)'
<1> DEFINE n == Len(stack)
           m == Len(taken)
<1>1. /\ n \in Nat \ {0} /\ n \in 1 .. n /\ \A k \in 1 .. n : k = n \/ k \in 1 .. n - 1
      /\ Top = stack[n] /\ L = src[Top.file][Top.i] /\ Top.i \in Nat \ {0}
      /\ Top.file = FileAt(Top.path)
  BY TopLine
<1>2. /\ Len(stack') = n /\ \A k \in 1 .. n - 1 : stack'[k] = stack[k]
      /\ stack'[n].path = Top.path /\ stack'[n].i = last + 1
      /\ included_files' = included_files
      /\ DOMAIN taken' = 1 .. m + 1 /\ \A x \in 1 .. m : taken'[x] = taken[x]
      /\ taken'[m + 1].path = Top.path /\ taken'[m + 1].to = last
  BY DEF Appends, Moves
<1>3. /\ m \in Nat /\ DOMAIN taken = 1 .. m
      /\ \A x \in DOMAIN taken : taken[x].to \in Nat /\ taken[x].from \in Nat
  BY TakenType
<1>4. \A k \in 1 .. n : stack'[k].path = stack[k].path
  BY <1>1, <1>2
<1>5. last \in Nat /\ Top.i <= last
  BY <1>1, TopFacts DEF Appends
<1>6. CASE p \in included_files
  <2>1. InPathOrder(p)'
    BY <1>1, <1>6, PathOrderGrows DEF PragmaOnce
  <2>2. \A j, k \in 1 .. n : stack'[j].path = p /\ stack'[k].path = p => j = k
    BY <1>4, <1>6 DEF PragmaOnce
  <2>3. ASSUME NEW x \in 1 .. m + 1, NEW k \in 1 .. n, taken'[x].path = p, stack'[k].path = p
        PROVE  taken'[x].to < stack'[k].i
    <3>1. CASE x = m + 1
      <4>1. stack[n].path = p /\ stack[k].path = p
        BY <1>1, <1>2, <1>4, <2>3, <3>1
      <4>2. k = n
        BY <1>1, <1>6, <4>1 DEF PragmaOnce
      <4> QED
        BY <1>2, <1>5, <3>1, <4>2
    <3>2. CASE x \in 1 .. m
      <4>1. taken[x].to < stack[k].i /\ taken[x].to \in Nat
        BY <1>2, <1>3, <1>4, <1>6, <2>3, <3>2 DEF PragmaOnce
      <4>2. CASE k = n
        <5>1. taken[x].to < Top.i /\ taken'[x] = taken[x] /\ stack'[k].i = last + 1
          BY <1>1, <1>2, <3>2, <4>1, <4>2
        <5> QED
          BY <1>1, <1>5, <4>1, <5>1
      <4>3. CASE k \in 1 .. n - 1
        BY <1>2, <3>2, <4>1, <4>3
      <4> QED
        BY <1>1, <4>2, <4>3
    <3> QED
      BY <1>3, <3>1, <3>2
  <2> QED
    BY <1>2, <1>6, <2>1, <2>2, <2>3 DEF PragmaOnce
<1>7. CASE p \notin included_files
  <2>1. Top.path # p
    <3>1. ASSUME Top.path = p PROVE FALSE
      <4>1. Top.i = 1
        BY <1>1, <1>7, <3>1 DEF PragmaOnce
      <4> QED
        BY <1>1, <3>1, <4>1 DEF PragmaGuarded, Appends
    <3> QED
      BY <3>1
  <2>2. ASSUME NEW x \in 1 .. m + 1 PROVE taken'[x].path # p
    <3>1. CASE x = m + 1
      BY <1>2, <2>1, <3>1
    <3>2. CASE x \in 1 .. m
      BY <1>2, <1>3, <1>7, <3>2 DEF PragmaOnce
    <3> QED
      BY <1>3, <3>1, <3>2
  <2>3. \A k \in 1 .. n : stack'[k].path # p
    BY <1>1, <1>4, <1>7, <2>1 DEF PragmaOnce
  <2> QED
    BY <1>2, <1>7, <2>2, <2>3 DEF PragmaOnce, InPathOrder
<1> QED
  BY <1>6, <1>7

LEMMA IncludeShape ==
    ASSUME CallsInv, Include
    PROVE  /\ L.d = "include" /\ inc_path \notin included_files /\ src' = src
           /\ UNCHANGED <<macros, included_files, taken>>
           /\ Len(stack') = Len(stack) + 1 /\ \A k \in 1 .. Len(stack) : stack'[k] = stack[k]
           /\ stack'[Len(stack) + 1].file = FileAt(inc_path)
           /\ stack'[Len(stack) + 1].path = inc_path /\ stack'[Len(stack) + 1].i = 1
           /\ stack'[Len(stack) + 1].conds = << >>
<1> DEFINE T == FrameSet(DOMAIN src)
           fr == Frame(inc_path, preprocessor_current_file, preprocessor_current_line)
<1>1. L.d = "include" /\ inc_path \notin included_files /\ src' = src
      /\ UNCHANGED <<macros, included_files, taken>> /\ stack' = Append(stack, fr)
  BY DEF Include, Running
<1>2. fr.file = FileAt(inc_path) /\ fr.path = inc_path /\ fr.i = 1 /\ fr.conds = << >>
  BY DEF Frame
<1>3. stack \in Seq(T)
  BY DEF CallsInv, TypeOK
<1> HIDE DEF T, fr
<1>4. Len(stack') = Len(stack) + 1 /\ stack'[Len(stack) + 1] = fr
      /\ \A k \in 1 .. Len(stack) : stack'[k] = stack[k]
  <2>1. stack \in Seq(T \cup {fr}) /\ fr \in T \cup {fr}
    BY <1>3
  <2> QED
    BY <1>1, <2>1
<1> QED
  BY <1>1, <1>2, <1>4

LEMMA PragmaIncludes ==
    ASSUME CallsInv, Include, NEW p,
           FileAt(p) \in DOMAIN src, PragmaGuarded(FileAt(p)), PragmaOnce(p)
    PROVE  PragmaOnce(p)'
<1> DEFINE n == Len(stack)
<1>1. /\ n \in Nat \ {0} /\ n \in 1 .. n
      /\ Top = stack[n] /\ L = src[Top.file][Top.i] /\ Top.i \in Nat \ {0}
      /\ Top.file = FileAt(Top.path)
  BY TopLine
<1>2. /\ L.d = "include" /\ inc_path \notin included_files
      /\ UNCHANGED <<included_files, taken>>
      /\ Len(stack') = n + 1 /\ \A k \in 1 .. n : stack'[k] = stack[k]
      /\ stack'[n + 1].path = inc_path /\ stack'[n + 1].i = 1
  BY IncludeShape
<1>3. \A k \in 1 .. n + 1 : k = n + 1 \/ k \in 1 .. n
  BY <1>1
<1>4. CASE p \in included_files
  <2>1. inc_path # p
    BY <1>2, <1>4
  <2>2. \A k \in 1 .. n + 1 : stack'[k].path = p => k \in 1 .. n /\ stack'[k] = stack[k]
    BY <1>2, <1>3, <2>1
  <2> QED
    BY <1>2, <1>4, <2>2 DEF PragmaOnce, InPathOrder
<1>5. CASE p \notin included_files
  <2>1. Top.path # p
    <3>1. ASSUME Top.path = p PROVE FALSE
      <4>1. Top.i = 1
        BY <1>1, <1>5, <3>1 DEF PragmaOnce
      <4> QED
        BY <1>1, <1>2, <3>1, <4>1 DEF PragmaGuarded
    <3> QED
      BY <3>1
  <2>2. \A k \in 1 .. n : stack[k].path # p
    BY <1>1, <1>5, <2>1 DEF PragmaOnce
  <2>3. \A k \in 1 .. n + 1 : stack'[k].path = p => k = n + 1 /\ stack'[k].i = 1
    BY <1>2, <1>3, <2>2
  <2> QED
    BY <1>2, <1>5, <2>3 DEF PragmaOnce, InPathOrder
<1> QED
  BY <1>4, <1>5

LEMMA PragmaReturns ==
    ASSUME CallsInv, Return, NEW p,
           FileAt(p) \in DOMAIN src, PragmaGuarded(FileAt(p)), PragmaOnce(p)
    PROVE  PragmaOnce(p)'
<1> DEFINE n == Len(stack)
<1>1. /\ n \in Nat \ {0, 1} /\ Len(stack') = n - 1
      /\ \A k \in 1 .. n - 2 : stack'[k] = stack[k]
      /\ \A k \in 1 .. n - 1 : stack'[k].path = stack[k].path
      /\ stack'[n - 1].i = stack[n - 1].i + 1 /\ stack[n - 1].i \in Nat
  <2>1. stack[n - 1] \in FrameSet(DOMAIN src)
    BY ReturnStack
  <2>2. stack[n - 1].i \in Nat
    BY <2>1 DEF FrameSet
  <2> QED
    BY <2>2, ReturnStack
<1>2. UNCHANGED <<included_files, taken>>
  BY DEF Return
<1>3. \A k \in 1 .. n - 1 : k \in 1 .. n /\ k # n /\ (k = n - 1 \/ k \in 1 .. n - 2)
  BY <1>1
<1>4. CASE p \in included_files
  <2>1. \A j, k \in 1 .. n - 1 : stack'[j].path = p /\ stack'[k].path = p => j = k
    BY <1>1, <1>3, <1>4 DEF PragmaOnce
  <2>2. ASSUME NEW x \in DOMAIN taken, NEW k \in 1 .. n - 1, taken[x].path = p, stack'[k].path = p
        PROVE  taken[x].to < stack'[k].i
    <3>1. taken[x].to < stack[k].i /\ taken[x].to \in Nat
      BY <1>1, <1>3, <1>4, <2>2, TakenType DEF PragmaOnce
    <3>2. CASE k = n - 1
      BY <1>1, <3>1, <3>2
    <3>3. CASE k \in 1 .. n - 2
      BY <1>1, <3>1, <3>3
    <3> QED
      BY <1>3, <3>2, <3>3
  <2> QED
    BY <1>1, <1>2, <1>4, <2>1, <2>2 DEF PragmaOnce, InPathOrder
<1>5. CASE p \notin included_files
  <2>1. \A k \in 1 .. n - 1 : stack'[k].path # p
    BY <1>1, <1>3, <1>5 DEF PragmaOnce
  <2> QED
    BY <1>1, <1>2, <1>5, <2>1 DEF PragmaOnce, InPathOrder
<1> QED
  BY <1>4, <1>5

\* The lines of a file guarded by a macro: only its first and its last are
\* conditionals, and the second defines the macro.
LEMMA GuardLines ==
    ASSUME CallsInv, NEW f \in DOMAIN src, MacroGuarded(f)
    PROVE  /\ Len(src[f]) \in Nat /\ Len(src[f]) > 2
           /\ src[f][1].d = "ifndef" /\ src[f][2].d = "define" /\ src[f][2].n = src[f][1].n
           /\ src[f][Len(src[f])].d = "endif"
           /\ \A m \in 3 .. Len(src[f]) - 1 : src[f][m].d \notin Conditionals
           /\ \A m \in 1 .. Len(src[f]) :
                 src[f][m].d \in {"text", "include"} => m \in 3 .. Len(src[f]) - 1
<1>1. Len(src[f]) \in Nat
  BY LinesType DEF CallsInv
<1>2. /\ Len(src[f]) > 2
      /\ src[f][1].d = "ifndef" /\ src[f][2].d = "define" /\ src[f][2].n = src[f][1].n
      /\ src[f][Len(src[f])].d = "endif"
  BY DEF MacroGuarded
<1>3. \A m \in 3 .. Len(src[f]) - 1 : src[f][m].d \notin Conditionals
  BY DEF MacroGuarded, Conditionals
<1>4. \A m \in 1 .. Len(src[f]) :
          m = 1 \/ m = 2 \/ m = Len(src[f]) \/ m \in 3 .. Len(src[f]) - 1
  BY <1>1, <1>2
<1> QED
  BY <1>1, <1>2, <1>3, <1>4

\* The macro stays defined.
LEMMA GuardStays ==
    ASSUME CallsInv, NEW conds, Turn(conds), NEW f \in DOMAIN src, MacroGuarded(f),
           src[f][1].n \in DOMAIN macros
    PROVE  src[f][1].n \in DOMAIN macros'
<1>1. Top.file \in DOMAIN src /\ L = src[Top.file][Top.i] /\ Top.i \in DOMAIN src[Top.file]
  <2>1. Lines = src[Top.file]
    BY DEF Lines
  <2> QED
    BY <2>1, TopLine, TopFacts DEF Turn
<1>2. ~(L.d = "undef" /\ L.n = src[f][1].n)
  BY <1>1 DEF MacroGuarded
<1> QED
  BY <1>2 DEF Turn

\* A step that leaves every call of f where it is, keeps the lines taken and
\* does not undefine the macro.
LEMMA MacroStands ==
    ASSUME NEW f, MacroOnce(f), src' = src, taken' = taken,
           src[f][1].n \in DOMAIN macros => src[f][1].n \in DOMAIN macros',
           \A k \in 1 .. Len(stack') :
              stack'[k].file = f => k \in 1 .. Len(stack) /\ stack'[k] = stack[k]
    PROVE  MacroOnce(f)'
<1>1. \A k \in 1 .. Len(stack') : InGuard(f, k)' => k \in 1 .. Len(stack) /\ InGuard(f, k)
                                                   /\ stack'[k] = stack[k]
  BY DEF InGuard
<1>2. \A k \in 1 .. Len(stack') : stack'[k].file = f =>
          /\ stack'[k].i \in {1, Len(src[f]) + 1} => stack'[k].conds = << >>
          /\ stack'[k].i \in 2 .. Len(src[f]) => Len(stack'[k].conds) = 1
  BY DEF MacroOnce
<1>3. \A x \in DOMAIN taken : taken[x].file = f => src[f][1].n \in DOMAIN macros'
  BY DEF MacroOnce
<1>4. \A k \in 1 .. Len(stack') : InGuard(f, k)' /\ stack'[k].i > 2 => src[f][1].n \in DOMAIN macros'
  BY <1>1 DEF MacroOnce
<1>5. \A j, k \in 1 .. Len(stack') : InGuard(f, j)' /\ InGuard(f, k)' => j = k
  BY <1>1 DEF MacroOnce
<1>6. \A x \in DOMAIN taken, k \in 1 .. Len(stack') :
          taken[x].file = f /\ InGuard(f, k)' => taken[x].to < stack'[k].i
  BY <1>1 DEF MacroOnce
<1> QED
  BY <1>2, <1>3, <1>4, <1>5, <1>6 DEF MacroOnce, InOrder

\* The innermost call, of f, moves on from line i to j inside the guard, with
\* the same conditional stack and nothing taken.
LEMMA MacroGoesOn ==
    ASSUME CallsInv, NEW f \in DOMAIN src, MacroOnce(f), src' = src, taken' = taken,
           src[f][1].n \in DOMAIN macros => src[f][1].n \in DOMAIN macros',
           NEW n \in Nat \ {0}, n \in 1 .. Len(stack), stack[n].file = f,
           stack[n].i \in 2 .. Len(src[f]) - 1, Len(src[f]) \in Nat,
           Len(stack') = n, \A k \in 1 .. n - 1 : stack'[k] = stack[k],
           stack'[n].file = f, stack'[n].i = stack[n].i + 1, stack'[n].conds = stack[n].conds,
           InGuard(f, n) => src[f][1].n \in DOMAIN macros'
    PROVE  MacroOnce(f)'
<1>0. Len(stack) \in Nat /\ \A k \in 1 .. n : k \in 1 .. Len(stack) /\ (k = n \/ k \in 1 .. n - 1)
  BY TopLine
<1>1. stack'[n].i \in 3 .. Len(src[f]) /\ stack'[n].i > 2 /\ stack[n].i \in 2 .. Len(src[f])
      /\ stack'[n].i \in 2 .. Len(src[f])
  OBVIOUS
<1>2. \A k \in 1 .. n : InGuard(f, k)' => InGuard(f, k)
  BY <1>0, <1>1 DEF InGuard
<1>3. ASSUME NEW k \in 1 .. n, stack'[k].file = f
      PROVE  /\ stack'[k].i \in {1, Len(src[f]) + 1} => stack'[k].conds = << >>
             /\ stack'[k].i \in 2 .. Len(src[f]) => Len(stack'[k].conds) = 1
  <2>1. CASE k = n
    <3>1. Len(stack'[n].conds) = 1
      BY <1>0, <1>1 DEF MacroOnce
    <3>2. stack'[n].i \notin {1, Len(src[f]) + 1}
      BY <1>1
    <3> QED
      BY <2>1, <3>1, <3>2
  <2>2. CASE k \in 1 .. n - 1
    BY <1>0, <1>3, <2>2 DEF MacroOnce
  <2> QED
    BY <1>0, <2>1, <2>2
<1>4. \A x \in DOMAIN taken : taken[x].file = f => src[f][1].n \in DOMAIN macros'
  BY DEF MacroOnce
<1>5. ASSUME NEW k \in 1 .. n, InGuard(f, k)', stack'[k].i > 2
      PROVE  src[f][1].n \in DOMAIN macros'
  <2>1. CASE k = n
    BY <1>0, <1>2, <1>5, <2>1
  <2>2. CASE k \in 1 .. n - 1
    BY <1>0, <1>2, <1>5, <2>2 DEF MacroOnce
  <2> QED
    BY <1>0, <2>1, <2>2
<1>6. \A j, k \in 1 .. n : InGuard(f, j)' /\ InGuard(f, k)' => j = k
  BY <1>0, <1>2 DEF MacroOnce
<1>7. ASSUME NEW x \in DOMAIN taken, NEW k \in 1 .. n, taken[x].file = f, InGuard(f, k)'
      PROVE  taken[x].to < stack'[k].i
  <2>1. taken[x].to < stack[k].i /\ taken[x].to \in Nat
    BY <1>0, <1>2, <1>7, TakenType DEF MacroOnce
  <2>2. CASE k = n
    BY <1>1, <2>1, <2>2
  <2>3. CASE k \in 1 .. n - 1
    BY <2>1, <2>3
  <2> QED
    BY <1>0, <2>2, <2>3
<1> QED
  BY <1>3, <1>4, <1>5, <1>6, <1>7 DEF MacroOnce, InOrder

\* The innermost call is not inside an active guard of f afterwards.
LEMMA MacroOutside ==
    ASSUME NEW f, MacroOnce(f), src' = src, taken' = taken,
           src[f][1].n \in DOMAIN macros => src[f][1].n \in DOMAIN macros',
           NEW n, Len(stack') = n, \A k \in 1 .. n : k = n \/ k \in 1 .. n - 1,
           \A k \in 1 .. n - 1 : k \in 1 .. Len(stack) /\ stack'[k] = stack[k],
           ~InGuard(f, n)',
           stack'[n].file = f =>
              /\ stack'[n].i \in {1, Len(src[f]) + 1} => stack'[n].conds = << >>
              /\ stack'[n].i \in 2 .. Len(src[f]) => Len(stack'[n].conds) = 1
    PROVE  MacroOnce(f)'
<1>1. ASSUME NEW k \in 1 .. n, InGuard(f, k)'
      PROVE  k \in 1 .. n - 1 /\ k \in 1 .. Len(stack) /\ InGuard(f, k) /\ stack'[k] = stack[k]
  <2>1. k # n
    BY <1>1
  <2>2. k \in 1 .. n - 1 /\ k \in 1 .. Len(stack) /\ stack'[k] = stack[k]
    BY <2>1
  <2> QED
    BY <1>1, <2>2 DEF InGuard
<1>2. ASSUME NEW k \in 1 .. n, stack'[k].file = f
      PROVE  /\ stack'[k].i \in {1, Len(src[f]) + 1} => stack'[k].conds = << >>
             /\ stack'[k].i \in 2 .. Len(src[f]) => Len(stack'[k].conds) = 1
  <2>1. CASE k = n
    BY <1>2, <2>1
  <2>2. CASE k \in 1 .. n - 1
    BY <1>2, <2>2 DEF MacroOnce
  <2> QED
    BY <2>1, <2>2
<1>3. \A x \in DOMAIN taken : taken[x].file = f => src[f][1].n \in DOMAIN macros'
  BY DEF MacroOnce
<1>4. \A k \in 1 .. n : InGuard(f, k)' /\ stack'[k].i > 2 => src[f][1].n \in DOMAIN macros'
  BY <1>1 DEF MacroOnce
<1>5. \A j, k \in 1 .. n : InGuard(f, j)' /\ InGuard(f, k)' => j = k
  BY <1>1 DEF MacroOnce
<1>6. \A x \in DOMAIN taken, k \in 1 .. n :
          taken[x].file = f /\ InGuard(f, k)' => taken[x].to < stack'[k].i
  BY <1>1 DEF MacroOnce
<1> QED
  BY <1>2, <1>3, <1>4, <1>5, <1>6 DEF MacroOnce, InOrder

\* A call of f that is suspended stands at an #include inside the guard.
LEMMA GuardSuspended ==
    ASSUME CallsInv, NEW f \in DOMAIN src, MacroGuarded(f),
           NEW k \in 1 .. Len(stack) - 1, stack[k].file = f
    PROVE  stack[k].i \in 3 .. Len(src[f]) - 1
<1>1. k \in 1 .. Len(stack)
  BY TopLine
<1>2. LinesOf(k) = src[f]
  BY DEF LinesOf
<1>3. stack[k].i \in 1 .. Len(src[f]) + 1
  BY <1>1, <1>2 DEF CallsInv, Positions
<1>4. stack[k].i <= Len(src[f]) /\ src[f][stack[k].i].d = "include"
  BY <1>2 DEF CallsInv, Positions
<1>5. stack[k].i \in 1 .. Len(src[f])
  BY <1>3, <1>4, GuardLines
<1> QED
  BY <1>4, <1>5, GuardLines

\* The #ifndef of the guard.
LEMMA MacroOpens ==
    ASSUME CallsInv, NEW conds, Turn(conds), NEW f \in DOMAIN src, MacroGuarded(f), MacroOnce(f),
           Top.file = f, Top.i = 1
    PROVE  MacroOnce(f)'
<1> DEFINE n == Len(stack)
           G == src[f][1].n
<1>1. /\ n \in Nat \ {0} /\ n \in 1 .. n /\ \A k \in 1 .. n : k = n \/ k \in 1 .. n - 1
      /\ Top = stack[n] /\ L = src[f][1]
  BY TopLine
<1>2. /\ Len(src[f]) \in Nat /\ Len(src[f]) > 2 /\ L.d = "ifndef"
  BY <1>1, GuardLines
<1>3. /\ Len(stack') = n /\ \A k \in 1 .. n - 1 : stack'[k] = stack[k]
      /\ stack'[n].file = f /\ stack'[n].i = 2 /\ stack'[n].conds = conds
      /\ taken' = taken /\ src' = src
  BY DEF Turn, Moves
<1>4. Top.conds = << >>
  BY <1>1 DEF MacroOnce
<1>5. Holds(L) <=> G \notin DOMAIN macros
  BY <1>1, <1>2 DEF Holds
<1>6. Len(conds) = 1 /\ conds[1].active = (Holds(L) /\ Active)
  <2>1. conds = push_cond(Top.conds, Holds(L), Holds(L) /\ Active)
    BY <1>2 DEF Turn, Openers
  <2> QED
    BY <1>4, <2>1 DEF push_cond
<1>7. G \in DOMAIN macros => G \in DOMAIN macros'
  BY GuardStays
<1>8. \A k \in 1 .. n - 1 : k \in 1 .. Len(stack)
  BY <1>1
<1>9. CASE G \in DOMAIN macros
  <2>1. ~InGuard(f, n)'
    BY <1>3, <1>5, <1>6, <1>9 DEF InGuard
  <2>2. 2 \notin {1, Len(src[f]) + 1}
    BY <1>2
  <2> QED
    BY <1>1, <1>3, <1>6, <1>7, <1>8, <2>1, <2>2, MacroOutside
<1>10. CASE G \notin DOMAIN macros
  <2>1. \A x \in DOMAIN taken : taken[x].file # f
    BY <1>10 DEF MacroOnce
  <2>2. ASSUME NEW k \in 1 .. n, InGuard(f, k)' PROVE k = n
    <3>1. ASSUME k \in 1 .. n - 1 PROVE FALSE
      <4>1. stack[k].file = f /\ InGuard(f, k)
        BY <1>3, <2>2, <3>1 DEF InGuard
      <4>2. stack[k].i > 2
        BY <1>2, <3>1, <4>1, GuardSuspended
      <4> QED
        BY <1>10, <4>1, <4>2 DEF MacroOnce
    <3> QED
      BY <1>1, <3>1
  <2>3. ASSUME NEW k \in 1 .. n, stack'[k].file = f
        PROVE  /\ stack'[k].i \in {1, Len(src[f]) + 1} => stack'[k].conds = << >>
               /\ stack'[k].i \in 2 .. Len(src[f]) => Len(stack'[k].conds) = 1
    <3>1. CASE k = n
      BY <1>2, <1>3, <1>6, <3>1
    <3>2. CASE k \in 1 .. n - 1
      BY <1>3, <1>8, <2>3, <3>2 DEF MacroOnce
    <3> QED
      BY <1>1, <3>1, <3>2
  <2>4. \A k \in 1 .. n : InGuard(f, k)' => ~(stack'[k].i > 2)
    BY <1>3, <2>2
  <2>5. \A j, k \in 1 .. n : InGuard(f, j)' /\ InGuard(f, k)' => j = k
    BY <2>2
  <2> QED
    BY <1>3, <2>1, <2>3, <2>4, <2>5 DEF MacroOnce, InOrder
<1> QED
  BY <1>9, <1>10

\* The guard's group is the only one around the innermost call.
LEMMA GuardActive ==
    ASSUME CallsInv, NEW f \in DOMAIN src, MacroOnce(f), Top.file = f, Top.i \in 2 .. Len(src[f])
    PROVE  Len(Top.conds) = 1 /\ (Active <=> Top.conds[1].active) /\ (Active <=> InGuard(f, Len(stack)))
<1>1. Top = stack[Len(stack)] /\ Len(stack) \in 1 .. Len(stack) /\ Top.conds \in Seq(CondState)
  BY TopLine
<1>2. Len(Top.conds) = 1
  BY <1>1 DEF MacroOnce
<1>3. DOMAIN Top.conds = {1}
  BY <1>1, <1>2
<1>4. Active <=> Top.conds[1].active
  BY <1>3 DEF Active, is_active
<1> QED
  BY <1>1, <1>2, <1>4 DEF InGuard

LEMMA MacroTurn ==
    ASSUME CallsInv, NEW conds, Turn(conds), NEW f \in DOMAIN src, MacroGuarded(f), MacroOnce(f)
    PROVE  MacroOnce(f)'
<1> DEFINE n == Len(stack)
           G == src[f][1].n
<1>1. /\ n \in Nat \ {0} /\ n \in 1 .. n /\ \A k \in 1 .. n : k = n \/ k \in 1 .. n - 1
      /\ Top = stack[n] /\ L = src[Top.file][Top.i] /\ Top.i \in Nat \ {0}
      /\ Top.conds \in Seq(CondState)
  BY TopLine
<1>2. /\ Len(src[f]) \in Nat /\ Len(src[f]) > 2
      /\ src[f][2].d = "define" /\ src[f][2].n = G
      /\ src[f][Len(src[f])].d = "endif"
      /\ \A m \in 3 .. Len(src[f]) - 1 : src[f][m].d \notin Conditionals
  BY GuardLines
<1>3. /\ Len(stack') = n /\ \A k \in 1 .. n - 1 : stack'[k] = stack[k]
      /\ stack'[n].file = Top.file /\ stack'[n].i = Top.i + 1 /\ stack'[n].conds = conds
      /\ taken' = taken /\ src' = src
  BY DEF Turn, Moves
<1>4. G \in DOMAIN macros => G \in DOMAIN macros'
  BY GuardStays
<1>5. \A k \in 1 .. n - 1 : k \in 1 .. Len(stack)
  BY <1>1
<1>6. CASE Top.file # f
  <2>1. \A k \in 1 .. Len(stack') :
           stack'[k].file = f => k \in 1 .. Len(stack) /\ stack'[k] = stack[k]
    BY <1>1, <1>3, <1>5, <1>6
  <2> QED
    BY <1>3, <1>4, <2>1, MacroStands
<1>7. CASE Top.file = f /\ Top.i = 1
  BY <1>7, MacroOpens
<1>8. CASE Top.file = f /\ Top.i \in 2 .. Len(src[f]) - 1
  <2>1. L.d \notin Conditionals
    <3>1. CASE Top.i = 2
      BY <1>1, <1>2, <1>8, <3>1 DEF Conditionals, Openers
    <3>2. CASE Top.i \in 3 .. Len(src[f]) - 1
      BY <1>1, <1>2, <1>8, <3>2
    <3> QED
      BY <1>2, <1>8, <3>1, <3>2
  <2>2. conds = Top.conds
    BY <2>1 DEF Turn
  <2>3. ASSUME InGuard(f, n) PROVE G \in DOMAIN macros'
    <3>1. CASE Top.i = 2
      <4>1. Active
        BY <1>2, <1>8, <2>3, <3>1, GuardActive
      <4> QED
        BY <1>1, <1>2, <1>8, <3>1, <4>1 DEF Turn
    <3>2. CASE Top.i > 2
      BY <1>1, <1>4, <2>3, <3>2 DEF MacroOnce
    <3> QED
      BY <1>2, <1>8, <3>1, <3>2
  <2> QED
    BY <1>1, <1>2, <1>3, <1>4, <1>8, <2>2, <2>3, MacroGoesOn
<1>9. CASE Top.file = f /\ Top.i = Len(src[f])
  <2>1. Len(Top.conds) = 1
    BY <1>2, <1>9, GuardActive
  <2>2. conds = Front(Top.conds)
    BY <1>1, <1>2, <1>9 DEF Turn
  <2>3. conds = << >>
    BY <1>1, <2>1, <2>2 DEF Front
  <2>4. ~InGuard(f, n)'
    BY <1>2, <1>3, <1>9 DEF InGuard
  <2>5. Len(src[f]) + 1 \notin 2 .. Len(src[f])
    BY <1>2
  <2> QED
    BY <1>1, <1>3, <1>4, <1>5, <1>9, <2>3, <2>4, <2>5, MacroOutside
<1> QED
  <2>1. Top.file = f => Top.i \in 1 .. Len(src[f])
    BY TopFacts DEF Turn, Lines
  <2>2. Top.file = f =>
           Top.i = 1 \/ Top.i \in 2 .. Len(src[f]) - 1 \/ Top.i = Len(src[f])
    BY <1>2, <2>1
  <2> QED
    BY <1>6, <1>7, <1>8, <1>9, <2>2

LEMMA MacroIncludes ==
    ASSUME CallsInv, Include, NEW f \in DOMAIN src, MacroGuarded(f), MacroOnce(f)
    PROVE  MacroOnce(f)'
<1> DEFINE n == Len(stack)
<1>1. n \in Nat \ {0} /\ (\A k \in 1 .. n + 1 : k = n + 1 \/ k \in 1 .. (n + 1) - 1)
      /\ (n + 1) - 1 = n
  BY TopLine
<1>2. /\ src' = src /\ UNCHANGED <<macros, taken>>
      /\ Len(stack') = n + 1 /\ \A k \in 1 .. n : stack'[k] = stack[k]
      /\ stack'[n + 1].i = 1 /\ stack'[n + 1].conds = << >>
  BY IncludeShape
<1>3. 1 \notin 2 .. Len(src[f])
  BY GuardLines
<1>4. \A m : m = n + 1 => ~InGuard(f, m)'
  BY <1>2, <1>3 DEF InGuard
<1>5. \A k \in 1 .. (n + 1) - 1 : k \in 1 .. Len(stack) /\ stack'[k] = stack[k]
  BY <1>1, <1>2
<1>6. ASSUME NEW m, m = n + 1 PROVE MacroOnce(f)'
  <2>1. ~InGuard(f, m)' /\ Len(stack') = m /\ (\A k \in 1 .. m : k = m \/ k \in 1 .. m - 1)
        /\ (\A k \in 1 .. m - 1 : k \in 1 .. Len(stack) /\ stack'[k] = stack[k])
        /\ stack'[m].i = 1 /\ stack'[m].conds = << >>
    BY <1>1, <1>2, <1>4, <1>5, <1>6
  <2> QED
    BY <1>2, <1>3, <2>1, MacroOutside
<1> QED
  BY <1>6

LEMMA MacroReturns ==
    ASSUME CallsInv, Return, NEW f \in DOMAIN src, MacroGuarded(f), MacroOnce(f)
    PROVE  MacroOnce(f)'
<1> DEFINE n == Len(stack)
<1>1. /\ n \in Nat \ {0, 1} /\ Len(stack') = n - 1
      /\ \A k \in 1 .. n - 2 : stack'[k] = stack[k]
      /\ \A k \in 1 .. n - 1 : stack'[k].file = stack[k].file /\ stack'[k].conds = stack[k].conds
      /\ stack'[n - 1].i = stack[n - 1].i + 1
  BY ReturnStack
<1>2. src' = src /\ UNCHANGED <<macros, taken>>
  BY DEF Return
<1>3. n - 1 \in Nat \ {0} /\ n - 1 \in 1 .. n - 1 /\ (n - 1) - 1 = n - 2
      /\ \A k \in 1 .. n - 1 : k \in 1 .. Len(stack) /\ (k = n - 1 \/ k \in 1 .. n - 2)
  BY SMTT(30), <1>1
<1>4. CASE stack[n - 1].file = f
  <2>1. stack[n - 1].i \in 3 .. Len(src[f]) - 1 /\ Len(src[f]) \in Nat
    BY <1>3, <1>4, GuardSuspended, GuardLines
  <2>2. stack[n - 1].i \in 2 .. Len(src[f]) - 1 /\ stack[n - 1].i > 2
    BY <2>1
  <2>3. ASSUME NEW m, m = n - 1 PROVE MacroOnce(f)'
    <3>1. /\ m \in Nat \ {0} /\ m \in 1 .. Len(stack) /\ stack[m].file = f
          /\ stack[m].i \in 2 .. Len(src[f]) - 1 /\ stack[m].i > 2
          /\ Len(stack') = m /\ (\A k \in 1 .. m - 1 : stack'[k] = stack[k])
          /\ stack'[m].file = f /\ stack'[m].i = stack[m].i + 1 /\ stack'[m].conds = stack[m].conds
      BY <1>1, <1>3, <1>4, <2>2, <2>3
    <3>2. InGuard(f, m) => src[f][1].n \in DOMAIN macros
      BY <3>1 DEF MacroOnce
    <3> QED
      BY <1>2, <2>1, <3>1, <3>2, MacroGoesOn
  <2> QED
    BY <2>3
<1>5. CASE stack[n - 1].file # f
  <2>1. \A k \in 1 .. Len(stack') :
           stack'[k].file = f => k \in 1 .. Len(stack) /\ stack'[k] = stack[k]
    BY <1>1, <1>3, <1>5
  <2> QED
    BY <1>2, <2>1, MacroStands
<1> QED
  BY <1>4, <1>5

LEMMA MacroAppends ==
    ASSUME CallsInv, NEW last, Appends(last), NEW f \in DOMAIN src, MacroGuarded(f), MacroOnce(f)
    PROVE  MacroOnce(f)'
<1> DEFINE n == Len(stack)
           m == Len(taken)
           G == src[f][1].n
<1>1. /\ n \in Nat \ {0} /\ n \in 1 .. n /\ \A k \in 1 .. n : k = n \/ k \in 1 .. n - 1
      /\ Top = stack[n] /\ L = src[Top.file][Top.i] /\ Top.i \in Nat \ {0}
  BY TopLine
<1>2. /\ Len(stack') = n /\ \A k \in 1 .. n - 1 : stack'[k] = stack[k]
      /\ stack'[n].file = Top.file /\ stack'[n].i = last + 1 /\ stack'[n].conds = Top.conds
      /\ src' = src /\ macros' = macros
      /\ DOMAIN taken' = 1 .. m + 1 /\ \A x \in 1 .. m : taken'[x] = taken[x]
      /\ taken'[m + 1].file = Top.file /\ taken'[m + 1].to = last
  BY DEF Appends, Moves
<1>3. /\ m \in Nat /\ DOMAIN taken = 1 .. m
      /\ \A x \in DOMAIN taken : taken[x].to \in Nat /\ taken[x].from \in Nat
      /\ \A x \in 1 .. m + 1 : x = m + 1 \/ x \in 1 .. m
  BY TakenType
<1>4. \A k \in 1 .. n - 1 : k \in 1 .. n
  BY <1>1
<1>5. Len(src[f]) \in Nat /\ Len(src[f]) > 2 /\ src[f][Len(src[f])].d = "endif"
  BY GuardLines
<1>6. CASE Top.file # f
  <2>1. InOrder(f)'
    BY <1>6, OrderGrows DEF MacroOnce
  <2>2. \A k \in 1 .. n : stack'[k].file = f => stack'[k] = stack[k]
    BY <1>1, <1>2, <1>6
  <2>3. \A k \in 1 .. n : InGuard(f, k)' => InGuard(f, k) /\ stack'[k] = stack[k]
    BY <1>2, <2>2 DEF InGuard
  <2>4. \A x \in 1 .. m + 1 : taken'[x].file = f => x \in DOMAIN taken /\ taken'[x] = taken[x]
    BY <1>2, <1>3, <1>6
  <2>5. \A k \in 1 .. n : stack'[k].file = f =>
           /\ stack'[k].i \in {1, Len(src[f]) + 1} => stack'[k].conds = << >>
           /\ stack'[k].i \in 2 .. Len(src[f]) => Len(stack'[k].conds) = 1
    BY <2>2 DEF MacroOnce
  <2>6. \A x \in 1 .. m + 1 : taken'[x].file = f => G \in DOMAIN macros
    BY <2>4 DEF MacroOnce
  <2>7. \A k \in 1 .. n : InGuard(f, k)' /\ stack'[k].i > 2 => G \in DOMAIN macros
    BY <2>3 DEF MacroOnce
  <2>8. \A j, k \in 1 .. n : InGuard(f, j)' /\ InGuard(f, k)' => j = k
    BY <2>3 DEF MacroOnce
  <2>9. \A x \in 1 .. m + 1, k \in 1 .. n :
           taken'[x].file = f /\ InGuard(f, k)' => taken'[x].to < stack'[k].i
    BY <2>3, <2>4 DEF MacroOnce
  <2> QED
    BY <1>2, <2>1, <2>5, <2>6, <2>7, <2>8, <2>9 DEF MacroOnce
<1>7. CASE Top.file = f
  <2>1. last \in Top.i .. Len(src[f]) /\ \A j \in Top.i .. last : src[f][j].d = "text"
    BY <1>7 DEF Appends, Lines
  <2>2. Top.i \in 3 .. Len(src[f]) - 1
    <3>1. Top.i \in 1 .. Len(src[f]) /\ src[f][Top.i].d = "text"
      BY <1>1, <1>5, <1>7, <2>1 DEF Appends
    <3> QED
      BY <3>1, GuardLines
  <2>3. last \in Nat /\ last >= Top.i /\ last <= Len(src[f]) /\ last # Len(src[f])
    BY <1>1, <1>5, <2>1
  <2>4. last + 1 \in 4 .. Len(src[f]) /\ last + 1 \in 2 .. Len(src[f]) /\ Top.i < last + 1
        /\ last + 1 \notin {1, Len(src[f]) + 1} /\ Top.i > 2 /\ Top.i \in 2 .. Len(src[f])
    BY <1>1, <1>5, <2>2, <2>3
  <2>5. InGuard(f, n) /\ Len(Top.conds) = 1
    BY <1>7, <2>4, GuardActive DEF Appends
  <2>6. G \in DOMAIN macros
    BY <1>1, <2>4, <2>5 DEF MacroOnce
  <2>7. \A x \in DOMAIN taken : taken[x].file = f => taken[x].to < Top.i
    BY <1>1, <2>5 DEF MacroOnce
  <2>8. InOrder(f)'
    BY <2>7, OrderGrows DEF MacroOnce
  <2>9. \A k \in 1 .. n : InGuard(f, k)' => k = n
    <3>1. ASSUME NEW k \in 1 .. n - 1, InGuard(f, k)' PROVE k = n
      <4>1. InGuard(f, k)
        BY <1>2, <3>1 DEF InGuard
      <4> QED
        BY <1>1, <1>4, <2>5, <4>1 DEF MacroOnce
    <3> QED
      BY <1>1, <3>1
  <2>10. ASSUME NEW k \in 1 .. n, stack'[k].file = f
         PROVE  /\ stack'[k].i \in {1, Len(src[f]) + 1} => stack'[k].conds = << >>
                /\ stack'[k].i \in 2 .. Len(src[f]) => Len(stack'[k].conds) = 1
    <3>1. CASE k = n
      BY <1>2, <2>4, <2>5, <3>1
    <3>2. CASE k \in 1 .. n - 1
      BY <1>2, <1>4, <2>10, <3>2 DEF MacroOnce
    <3> QED
      BY <1>1, <3>1, <3>2
  <2>11. ASSUME NEW x \in 1 .. m + 1, taken'[x].file = f PROVE taken'[x].to < last + 1
    <3>1. CASE x = m + 1
      BY <1>2, <2>3, <3>1
    <3>2. CASE x \in 1 .. m
      <4>1. taken[x].to < Top.i /\ taken[x].to \in Nat /\ taken'[x] = taken[x]
        BY <1>2, <1>3, <2>7, <2>11, <3>2
      <4> QED
        BY <1>1, <2>3, <2>4, <4>1
    <3> QED
      BY <1>3, <3>1, <3>2
  <2>12. \A x \in 1 .. m + 1, k \in 1 .. n :
            taken'[x].file = f /\ InGuard(f, k)' => taken'[x].to < stack'[k].i
    BY <1>2, <2>9, <2>11
  <2>13. \A j, k \in 1 .. n : InGuard(f, j)' /\ InGuard(f, k)' => j = k
    BY <2>9
  <2> QED
    BY <1>2, <2>6, <2>8, <2>10, <2>12, <2>13 DEF MacroOnce
<1> QED
  BY <1>6, <1>7

\* No step changes the files, so the guarded ones stay guarded.
LEMMA OnceKept ==
    ASSUME OnceInv, src' = src,
           \A p : FileAt(p) \in DOMAIN src /\ PragmaGuarded(FileAt(p)) /\ PragmaOnce(p) => PragmaOnce(p)',
           \A f \in DOMAIN src : MacroGuarded(f) /\ MacroOnce(f) => MacroOnce(f)'
    PROVE  OnceInv'
<1>1. \A f : (PragmaGuarded(f)' <=> PragmaGuarded(f)) /\ (MacroGuarded(f)' <=> MacroGuarded(f))
  BY DEF PragmaGuarded, MacroGuarded
<1> QED
  BY <1>1 DEF OnceInv

LEMMA OnceStands ==
    ASSUME OnceInv, UNCHANGED <<src, stack, included_files, taken, macros>>
    PROVE  OnceInv'
<1>1. \A f, k : InGuard(f, k)' = InGuard(f, k)
  BY DEF InGuard
<1>2. \A f : InOrder(f)' = InOrder(f) /\ InPathOrder(f)' = InPathOrder(f)
  BY DEF InOrder, InPathOrder
<1>3. \A p : PragmaOnce(p) => PragmaOnce(p)'
  BY <1>2 DEF PragmaOnce
<1>4. \A f : MacroOnce(f) => MacroOnce(f)'
  BY <1>1, <1>2 DEF MacroOnce
<1> QED
  BY <1>3, <1>4, OnceKept

LEMMA OnceInit ==
    ASSUME Init
    PROVE  OnceInv
<1>1. stack = <<Frame(Main, << >>, 1)>> /\ included_files = {Main} /\ taken = << >>
  BY DEF Init
<1>2. Len(stack) = 1 /\ stack[1].path = Main /\ stack[1].i = 1 /\ stack[1].conds = << >>
      /\ DOMAIN taken = {}
  <2> DEFINE fr == Frame(Main, << >>, 1)
  <2>1. fr.path = Main /\ fr.i = 1 /\ fr.conds = << >>
    BY DEF Frame
  <2>2. stack = <<fr>>
    BY <1>1
  <2> HIDE DEF fr
  <2>3. Len(stack) = 1 /\ stack[1] = fr
    BY <2>2
  <2>4. DOMAIN taken = {}
    <3>1. DOMAIN taken = 1 .. Len(taken)
      BY CallsInit, TakenType
    <3>2. Len(taken) = 0
      BY <1>1
    <3>3. \A m : m = 0 => 1 .. m = {}
      OBVIOUS
    <3> QED
      BY <3>1, <3>2, <3>3, Zenon
  <2> QED
    BY <2>1, <2>3, <2>4
<1>3. \A k \in 1 .. Len(stack) : k = 1
  BY <1>2
<1>4. ASSUME NEW f PROVE InOrder(f) /\ PragmaOnce(f)
  <2>1. InOrder(f) /\ InPathOrder(f)
    BY <1>2 DEF InOrder, InPathOrder
  <2> QED
    BY <1>1, <1>2, <1>3, <2>1 DEF PragmaOnce
<1>5. ASSUME NEW f \in DOMAIN src PROVE MacroOnce(f)
  <2>1. 1 \notin 2 .. Len(src[f])
    OBVIOUS
  <2>2. \A k \in 1 .. Len(stack) : ~InGuard(f, k)
    BY <1>2, <1>3, <2>1 DEF InGuard
  <2>3. \A k \in 1 .. Len(stack) : stack[k].conds = << >> /\ stack[k].i \notin 2 .. Len(src[f])
    BY <1>2, <1>3, <2>1
  <2> QED
    BY <1>2, <1>4, <2>2, <2>3 DEF MacroOnce
<1> QED
  BY <1>4, <1>5 DEF OnceInv

LEMMA OnceStep ==
    ASSUME CallsInv, CallsInv', OnceInv, [Next]_vars
    PROVE  OnceInv'
<1>1. CASE If \/ Elif \/ Else \/ Endif \/ Define \/ Undef \/ IncludeSkipped \/ Once \/ Line \/ Skip
  <2>1. PICK conds : Turn(conds)
    BY <1>1, EveryTurn
  <2>2. src' = src
    BY <2>1 DEF Turn
  <2> QED
    BY <2>1, <2>2, PragmaTurn, MacroTurn, OnceKept
<1>2. CASE AppendText
  <2>1. PICK last : Appends(last)
    BY <1>2, AppendShape
  <2>2. src' = src
    BY <2>1 DEF Appends
  <2> QED
    BY <2>1, <2>2, PragmaAppends, MacroAppends, OnceKept
<1>3. CASE Include
  <2>1. src' = src
    BY <1>3, IncludeShape
  <2> QED
    BY <1>3, <2>1, PragmaIncludes, MacroIncludes, OnceKept
<1>4. CASE Return
  <2>1. src' = src
    BY <1>4 DEF Return
  <2> QED
    BY <1>4, <2>1, PragmaReturns, MacroReturns, OnceKept
<1>5. CASE Error \/ Text \/ ExpandText \/ Finish \/ Done \/ UNCHANGED vars
  <2>1. UNCHANGED <<src, stack, included_files, taken, macros>>
    BY <1>5, ExpandStepFrame
       DEF Error, Text, BeginExpand, ExpandText, Finish, Done, vars, lineVars
  <2> QED
    BY <2>1, OnceStands
<1> QED
  BY <1>1, <1>2, <1>3, <1>4, <1>5 DEF Next, Step

(* A file that begins with #pragma once is brought out at most once by     *)
(* each path, and one that guards itself with a macro nobody undefines at  *)
(* most once, in its order, whatever the files are and however their       *)
(* includes are nested or cyclic.                                          *)
THEOREM GuardedReadOnce == Spec => []IncludedOnce
<1>1. Init => CallsInv /\ OnceInv
  BY CallsInit, OnceInit
<1>2. CallsInv /\ OnceInv /\ [Next]_vars => CallsInv' /\ OnceInv'
  BY CallsStep, OnceStep
<1>3. CallsInv /\ OnceInv => IncludedOnce
  <2>1. SUFFICES ASSUME CallsInv, OnceInv, NEW x \in DOMAIN taken, NEW y \in DOMAIN taken,
                        x < y, ReadOnce(taken[x], taken[y])
                 PROVE  taken[x].to < taken[y].from
    BY DEF IncludedOnce
  <2>2. taken[x].file \in DOMAIN src /\ taken[x].file = FileAt(taken[x].path)
    BY <2>1, TakenType
  <2>3. CASE MacroGuarded(taken[x].file)
    BY <2>1, <2>2, <2>3 DEF ReadOnce, OnceInv, MacroOnce, InOrder
  <2>4. CASE PragmaGuarded(taken[x].file) /\ taken[x].path = taken[y].path
    <3>1. InPathOrder(taken[x].path)
      BY <2>1, <2>2, <2>4 DEF OnceInv, PragmaOnce
    <3> QED
      BY <2>1, <2>4, <3>1 DEF InPathOrder
  <2> QED
    BY <2>1, <2>3, <2>4 DEF ReadOnce
<1> QED
  BY <1>1, <1>2, <1>3, PTL DEF Spec

=============================================================================
