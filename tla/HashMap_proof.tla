--------------------------- MODULE HashMap_proof ---------------------------
(***************************************************************************)
(* The hash map of src/common.c is a dictionary, for every set of keys,    *)
(* every hash function and every initial number of buckets.  The argument: *)
(* a live key is reached by its probes without meeting an empty entry      *)
(* (Reach), because entries become tombstones and never empty again; so a  *)
(* scan finds the key if it is there, and the load limit leaves room for   *)
(* it if it is not.                                                        *)
(***************************************************************************)
EXTENDS HashMap, WellFoundedInduction, FiniteSetTheorems, TLAPS

(* A non-empty set of naturals has a least element: a scan that stops at   *)
(* the first match finds one if there is any.                              *)
LEMMA LeastElement ==
    ASSUME NEW T, T \subseteq Nat, T # {}
    PROVE  \E x \in T : \A y \in T : x <= y
<1>1. IsWellFoundedOn(OpToRel(<, Nat), Nat)
  BY NatLessThanWellFounded
<1>2. PICK x \in T : \A y \in T : ~(<<y, x>> \in OpToRel(<, Nat))
  BY <1>1, WFMin
<1>3. \A y \in T : ~(y < x)
  BY <1>2 DEF OpToRel
<1> QED
  BY <1>3

-----------------------------------------------------------------------------
\* Probing.

(* A remainder is an index.                                                *)
LEMMA ModRange ==
    ASSUME NEW x \in Nat, NEW m \in Nat \ {0}
    PROVE  x % m \in 0 .. m - 1
  OBVIOUS

(* A sum of two indexes wraps around at most once.                         *)
LEMMA ModWrap ==
    ASSUME NEW m \in Nat \ {0}, NEW s \in 0 .. m - 1
    PROVE  s % m = s /\ (s + m) % m = s
  OBVIOUS

(* The part of the type invariant that is about the table.                 *)
TableOK ==
    /\ n \in Nat \ {0}
    /\ keys \in [Index -> Keys \cup {NULL, TOMBSTONE}]
    /\ vals \in [Index -> Vals]
    /\ size \in Nat

(* Every probe looks at an entry of the table.                             *)
LEMMA SlotIndex ==
    ASSUME n \in Nat \ {0}, NEW k \in Keys, NEW i \in Nat
    PROVE  Slot(k, i) \in Index
<1>1. Hash[k] \in Nat
  BY HashAssumption
<1>2. Hash[k] % n \in 0 .. n - 1
  BY <1>1, ModRange
<1>3. (Hash[k] % n) + i \in Nat
  BY <1>2
<1> QED BY <1>3, ModRange DEF Slot, Index

(* The n probes for a key look at every entry of the table.                *)
LEMMA SlotOnto ==
    ASSUME n \in Nat \ {0}, NEW k \in Keys, NEW s \in Index
    PROVE  \E i \in Index : Slot(k, i) = s
<1> DEFINE h == Hash[k] % n
<1>1. h \in 0 .. n - 1 /\ s \in 0 .. n - 1
  BY HashAssumption, ModRange DEF Index
<1> HIDE DEF h
<1>2. CASE h <= s
  <2>1. s - h \in Index /\ h + (s - h) = s
    BY <1>1, <1>2 DEF Index
  <2>2. (h + (s - h)) % n = s
    BY <1>1, <2>1, ModWrap
  <2> QED BY <2>1, <2>2 DEF Slot, h
<1>3. CASE s < h
  <2>1. (s + n) - h \in Index /\ h + ((s + n) - h) = s + n
    BY <1>1, <1>3 DEF Index
  <2>2. (h + ((s + n) - h)) % n = s
    BY <1>1, <2>1, ModWrap
  <2> QED BY <2>1, <2>2 DEF Slot, h
<1> QED BY <1>1, <1>2, <1>3

(* First gives the least element.                                          *)
LEMMA FirstIn ==
    ASSUME NEW T, T \subseteq Nat, T # {}
    PROVE  First(T) \in T /\ \A y \in T : First(T) <= y
  BY LeastElement DEF First

(* A scan ends at the first empty entry or at the key.                     *)
LEMMA EndFacts ==
    ASSUME TableOK, NEW k \in Keys
    PROVE  /\ End(k) \in Nat /\ End(k) <= n
           /\ \A j \in Index : j < End(k) => keys[Slot(k, j)] \notin {NULL, k}
           /\ End(k) < n => End(k) \in Index /\ keys[Slot(k, End(k))] \in {NULL, k}
<1>1. n \in Nat \ {0} /\ Index \subseteq Nat /\ \A j \in Index : j < n
  BY DEF TableOK, Index
<1>2. Stops(k) \subseteq Index
  BY DEF Stops
<1>3. CASE Stops(k) = {}
  BY <1>1, <1>3 DEF End, Stops
<1>4. CASE Stops(k) # {}
  <2>1. End(k) \in Stops(k) /\ \A j \in Stops(k) : End(k) <= j
    <3>1. Stops(k) \subseteq Nat
      BY <1>1, <1>2
    <3> QED BY <1>4, <3>1, FirstIn DEF End
  <2>a. End(k) \in Index
    BY <1>2, <2>1
  <2>b. End(k) \in Nat /\ End(k) < n /\ n \in Nat
    BY <1>1, <2>a
  <2>2. End(k) \in Index /\ End(k) \in Nat /\ End(k) <= n
    BY <2>a, <2>b
  <2>3. ASSUME NEW j \in Index, j < End(k) PROVE j \notin Stops(k)
    BY <1>1, <2>1, <2>2, <2>3
  <2> QED BY <2>1, <2>2, <2>3 DEF Stops
<1> QED BY <1>3, <1>4

-----------------------------------------------------------------------------
\* What the table promises between operations.

(* A live entry lies on its key's probe path before any empty entry.       *)
Reach ==
    \A s \in Index : keys[s] \in Keys =>
        \E i \in Index :
            /\ Slot(keys[s], i) = s
            /\ \A j \in Index : j < i => keys[Slot(keys[s], j)] # NULL

Table == TableOK /\ Reach /\ KeysUnique /\ size = Cardinality(LiveSlots)

(* A scan finds a key that has an entry, at that entry.                    *)
LEMMA FoundThere ==
    ASSUME Table, NEW k \in Keys, NEW s \in Index, keys[s] = k
    PROVE  Found(k) /\ Slot(k, End(k)) = s
<1>0. n \in Nat \ {0} /\ Index \subseteq Nat /\ \A j \in Index : j < n
  BY DEF Table, TableOK, Index
<1>1. PICK i \in Index : /\ Slot(k, i) = s
                         /\ \A j \in Index : j < i => keys[Slot(k, j)] # NULL
  BY DEF Table, Reach
<1>2. /\ End(k) \in Nat /\ End(k) <= n
      /\ \A j \in Index : j < End(k) => keys[Slot(k, j)] \notin {NULL, k}
      /\ End(k) < n => End(k) \in Index /\ keys[Slot(k, End(k))] \in {NULL, k}
  BY EndFacts DEF Table
<1>3. ~(i < End(k))
  BY <1>1, <1>2
<1>4. i \in Nat /\ i < n
  BY <1>0
<1>5. End(k) <= i /\ End(k) < n
  BY <1>0, <1>2, <1>3, <1>4
<1>6. keys[Slot(k, End(k))] = k
  <2>1. CASE End(k) = i
    BY <2>1, <1>1
  <2>2. CASE End(k) # i
    <3>1. End(k) < i
      BY <2>2, <1>5, <1>4, <1>2
    <3> QED BY <3>1, <1>1, <1>2, <1>5
  <2> QED BY <2>1, <2>2
<1>7. Slot(k, End(k)) \in Index
  BY <1>0, <1>2, SlotIndex
<1>8. Slot(k, End(k)) = s
  BY <1>6, <1>7 DEF Table, KeysUnique
<1> QED BY <1>5, <1>6, <1>8 DEF Found

(* What a scan finds is an entry that holds the key.                       *)
LEMMA FoundIs ==
    ASSUME TableOK, NEW k \in Keys, Found(k)
    PROVE  Slot(k, End(k)) \in Index /\ keys[Slot(k, End(k))] = k
<1>1. End(k) \in Nat /\ n \in Nat \ {0}
  BY EndFacts DEF TableOK
<1> QED BY <1>1, SlotIndex DEF Found

(* A new key goes to an entry that holds none, with no empty entry before  *)
(* it on the key's probe path.                                             *)
LEMMA RoomFacts ==
    ASSUME TableOK, NEW k \in Keys, Room(k) # {}
    PROVE  \E r \in Index :
              /\ Dest(k) = Slot(k, r) /\ Dest(k) \in Index
              /\ keys[Dest(k)] \in {NULL, TOMBSTONE}
              /\ \A j \in Index : j < r => keys[Slot(k, j)] # NULL
<1>0. n \in Nat \ {0} /\ Index \subseteq Nat
  BY DEF TableOK, Index
<1> DEFINE r == First(Room(k))
<1>1. Room(k) \subseteq Index
  BY DEF Room
<1>2. r \in Room(k)
  <2>1. Room(k) \subseteq Nat
    BY <1>0, <1>1
  <2> QED BY <2>1, FirstIn
<1> HIDE DEF r
<1>3. r \in Index /\ r <= End(k) /\ keys[Slot(k, r)] \in {NULL, TOMBSTONE}
  BY <1>2 DEF Room
<1>4. Dest(k) = Slot(k, r)
  BY DEF Dest, r
<1>5. Slot(k, r) \in Index
  BY <1>0, <1>3, SlotIndex
<1>6. ASSUME NEW j \in Index, j < r PROVE keys[Slot(k, j)] # NULL
  <2>1. End(k) \in Nat /\ \A m \in Index : m < End(k) => keys[Slot(k, m)] \notin {NULL, k}
    BY EndFacts
  <2>2. j \in Nat /\ r \in Nat
    BY <1>0, <1>3
  <2>3. j < End(k)
    BY <2>1, <2>2, <1>6, <1>3
  <2> QED BY <2>1, <2>3
<1> QED BY <1>3, <1>4, <1>5, <1>6

(* A table within the load limit has room for a key that it lacks.         *)
LEMMA RoomExists ==
    ASSUME Table, ~Overloaded, NEW k \in Keys, ~Found(k)
    PROVE  Room(k) # {}
<1>0. n \in Nat \ {0} /\ Index \subseteq Nat /\ (\A j \in Index : j < n) /\ size \in Nat
  BY DEF Table, TableOK, Index
<1>1. IsFiniteSet(Index) /\ Cardinality(Index) = n
  BY <1>0, FS_Interval DEF Index
<1>2. size < n
  BY <1>0 DEF Overloaded
<1>3. LiveSlots # Index
  BY <1>0, <1>1, <1>2 DEF Table
<1>4. PICK s \in Index : keys[s] \notin Keys
  BY <1>3 DEF LiveSlots
<1>5. keys[s] \in {NULL, TOMBSTONE}
  BY <1>4 DEF Table, TableOK
<1>6. PICK i \in Index : Slot(k, i) = s
  BY <1>0, SlotOnto
<1>7. /\ End(k) \in Nat
      /\ End(k) < n => End(k) \in Index /\ keys[Slot(k, End(k))] \in {NULL, k}
  BY EndFacts DEF Table
<1>8. CASE i <= End(k)
  BY <1>5, <1>6, <1>8 DEF Room
<1>9. CASE ~(i <= End(k))
  <2>1. i \in Nat /\ i < n
    BY <1>0
  <2>2. End(k) < n
    BY <2>1, <1>0, <1>7, <1>9
  <2>3. keys[Slot(k, End(k))] = NULL
    BY <2>2, <1>7 DEF Found
  <2>4. End(k) <= End(k)
    BY <1>7
  <2> QED BY <2>2, <2>3, <2>4, <1>7 DEF Room
<1> QED BY <1>8, <1>9

-----------------------------------------------------------------------------
\* The operations on the table.

(* An insertion leaves the key with its value and every other key alone.   *)
Inserted(k, v) ==
    /\ \E s \in Index : keys'[s] = k /\ vals'[s] = v
    /\ \A t \in Index : keys'[t] \in Keys /\ keys'[t] # k =>
            keys[t] = keys'[t] /\ vals'[t] = vals[t]
    /\ \A t \in Index : keys[t] \in Keys => keys'[t] = keys[t]
    /\ size' <= size + 1

(* Overwriting the value of a key that has an entry.                       *)
LEMMA Overwrite ==
    ASSUME Table, NEW k \in Keys, NEW v \in Vals, n' = n, Found(k),
           vals' = [vals EXCEPT ![Slot(k, End(k))] = v],
           keys' = keys, size' = size
    PROVE  Table' /\ Inserted(k, v)
<1>1. Slot(k, End(k)) \in Index /\ keys[Slot(k, End(k))] = k
  BY FoundIs DEF Table
<1>2. PICK e \in Index : e = Slot(k, End(k)) /\ keys[e] = k
  BY <1>1
<1>3. TableOK /\ Reach /\ KeysUnique /\ size = Cardinality(LiveSlots)
  BY DEF Table
<1>4. vals' = [vals EXCEPT ![e] = v] /\ vals \in [Index -> Vals]
  BY <1>2, <1>3 DEF TableOK
<1>5. Index' = Index /\ LiveSlots' = LiveSlots
  BY DEF Index, LiveSlots
<1>6. TableOK'
  BY <1>3, <1>4, <1>5 DEF TableOK
<1>7. Reach' /\ KeysUnique'
  BY <1>3, <1>5 DEF Reach, KeysUnique, Slot
<1>8. Inserted(k, v)
  <2>1. size' <= size + 1
    BY <1>3 DEF TableOK
  <2>2. \A t \in Index : keys[t] # k => vals'[t] = vals[t]
    BY <1>2, <1>4
  <2>3. vals'[e] = v
    BY <1>4
  <2> QED BY <1>2, <2>1, <2>2, <2>3 DEF Inserted
<1> QED BY <1>3, <1>5, <1>6, <1>7, <1>8 DEF Table

(* Giving a key that has none an entry.                                    *)
LEMMA Occupy ==
    ASSUME Table, NEW k \in Keys, NEW v \in Vals, n' = n, ~Found(k), Room(k) # {},
           keys' = [keys EXCEPT ![Dest(k)] = k],
           vals' = [vals EXCEPT ![Dest(k)] = v], size' = size + 1
    PROVE  Table' /\ Inserted(k, v)
<1>0. TableOK /\ Reach /\ KeysUnique /\ size = Cardinality(LiveSlots)
  BY DEF Table
<1>1. PICK r \in Index :
         /\ Dest(k) = Slot(k, r) /\ Dest(k) \in Index
         /\ keys[Dest(k)] \in {NULL, TOMBSTONE}
         /\ \A j \in Index : j < r => keys[Slot(k, j)] # NULL
  BY <1>0, RoomFacts
<1>2. PICK d \in Index : d = Dest(k)
  BY <1>1
<1>3. /\ keys' = [keys EXCEPT ![d] = k] /\ keys \in [Index -> Keys \cup {NULL, TOMBSTONE}]
      /\ vals' = [vals EXCEPT ![d] = v] /\ vals \in [Index -> Vals]
      /\ Slot(k, r) = d /\ keys[d] \notin Keys
  BY <1>0, <1>1, <1>2, MarksAssumption DEF TableOK
<1>4. keys'[d] = k /\ vals'[d] = v /\ \A t \in Index : t # d => keys'[t] = keys[t] /\ vals'[t] = vals[t]
  BY <1>3
<1>5. Index' = Index /\ n \in Nat \ {0} /\ Index \subseteq Nat
  BY <1>0 DEF Index, TableOK
<1>6. TableOK'
  <2>1. n' \in Nat \ {0} /\ size' \in Nat
    BY <1>0 DEF TableOK
  <2>2. keys' \in [Index -> Keys \cup {NULL, TOMBSTONE}] /\ vals' \in [Index -> Vals]
    BY <1>3
  <2> QED BY <2>1, <2>2, <1>5 DEF TableOK
<1>7. \A s \in Index : keys[s] # k
  BY FoundThere
<1>8. Reach'
  <2> SUFFICES ASSUME NEW s \in Index, keys'[s] \in Keys
               PROVE  \E i \in Index :
                         /\ Slot(keys'[s], i) = s
                         /\ \A j \in Index : j < i => keys'[Slot(keys'[s], j)] # NULL
    BY <1>5 DEF Reach, Slot
  <2>1. \A t \in Index : keys[t] # NULL => keys'[t] # NULL
    BY <1>4, MarksAssumption
  <2>2. \A c \in Keys, j \in Index : Slot(c, j) \in Index
    BY <1>5, SlotIndex
  <2>3. CASE s = d
    BY <2>1, <2>2, <2>3, <1>1, <1>3, <1>4
  <2>4. CASE s # d
    <3>1. PICK i \in Index : /\ Slot(keys[s], i) = s
                             /\ \A j \in Index : j < i => keys[Slot(keys[s], j)] # NULL
      BY <2>4, <1>0, <1>4 DEF Reach
    <3> QED BY <3>1, <2>1, <2>2, <2>4, <1>4
  <2> QED BY <2>3, <2>4
<1>9. KeysUnique'
  BY <1>0, <1>4, <1>5, <1>7 DEF KeysUnique
<1>10. size' = Cardinality(LiveSlots')
  <2>1. LiveSlots' = LiveSlots \cup {d} /\ d \notin LiveSlots
    BY <1>3, <1>4, <1>5 DEF LiveSlots
  <2>2. IsFiniteSet(LiveSlots)
    <3>1. IsFiniteSet(Index)
      BY <1>5, FS_Interval DEF Index
    <3> QED BY <3>1, FS_Subset DEF LiveSlots
  <2>3. Cardinality(LiveSlots') = Cardinality(LiveSlots) + 1
    BY <2>1, <2>2, FS_AddElement
  <2> QED BY <2>3, <1>0
<1>11. Inserted(k, v)
  <2>1. size' <= size + 1
    BY <1>0 DEF TableOK
  <2> QED BY <2>1, <1>3, <1>4 DEF Inserted
<1> QED BY <1>6, <1>8, <1>9, <1>10, <1>11 DEF Table

(* Within the load limit an insertion is never lost.                       *)
LEMMA InsertTable ==
    ASSUME Table, ~Overloaded, NEW k \in Keys, NEW v \in Vals, n' = n, Insert(k, v)
    PROVE  Table' /\ Inserted(k, v)
<1>1. CASE Found(k)
  BY <1>1, Overwrite DEF Insert
<1>2. CASE ~Found(k)
  <2>1. Room(k) # {}
    BY <1>2, RoomExists
  <2> QED BY <1>2, <2>1, Occupy DEF Insert
<1> QED BY <1>1, <1>2

(* A removal leaves a tombstone, and every other key alone.                *)
LEMMA RemoveTable ==
    ASSUME Table, NEW k \in Keys, Remove(k)
    PROVE  /\ Table'
           /\ \A t \in Index : keys'[t] \in Keys =>
                 keys'[t] # k /\ keys[t] = keys'[t] /\ vals'[t] = vals[t]
           /\ \A t \in Index : keys[t] \in Keys /\ keys[t] # k => keys'[t] = keys[t]
<1>0. TableOK /\ Reach /\ KeysUnique /\ size = Cardinality(LiveSlots)
  BY DEF Table
<1>1. PICK e \in Index : e = Slot(k, End(k)) /\ keys[e] = k
  BY <1>0, FoundIs DEF Remove
<1>2. /\ keys' = [keys EXCEPT ![e] = TOMBSTONE]
      /\ keys \in [Index -> Keys \cup {NULL, TOMBSTONE}]
      /\ vals' = [vals EXCEPT ![e] = AnyVal] /\ vals \in [Index -> Vals]
      /\ n' = n /\ size' = size - 1
  BY <1>0, <1>1 DEF TableOK, Remove
<1>3. keys'[e] = TOMBSTONE /\ \A t \in Index : t # e => keys'[t] = keys[t] /\ vals'[t] = vals[t]
  BY <1>2
<1>4. Index' = Index /\ n \in Nat \ {0} /\ Index \subseteq Nat /\ AnyVal \in Vals
  BY <1>0, <1>2, SomeAssumption DEF Index, TableOK, AnyVal
<1>5. size' = Cardinality(LiveSlots') /\ size' \in Nat
  <2>1. LiveSlots' = LiveSlots \ {e} /\ e \in LiveSlots
    BY <1>1, <1>2, <1>3, <1>4, MarksAssumption DEF LiveSlots
  <2>2. IsFiniteSet(LiveSlots)
    <3>1. IsFiniteSet(Index)
      BY <1>4, FS_Interval DEF Index
    <3> QED BY <3>1, FS_Subset DEF LiveSlots
  <2>3. IsFiniteSet(LiveSlots') /\ Cardinality(LiveSlots') = Cardinality(LiveSlots) - 1
    BY <2>1, <2>2, FS_RemoveElement
  <2>4. Cardinality(LiveSlots') \in Nat
    BY <2>3, FS_CardinalityType
  <2> QED BY <2>3, <2>4, <1>0, <1>2
<1>6. TableOK'
  <2>1. keys' \in [Index -> Keys \cup {NULL, TOMBSTONE}] /\ vals' \in [Index -> Vals]
    BY <1>2, <1>4
  <2> QED BY <2>1, <1>2, <1>4, <1>5 DEF TableOK
<1>7. Reach'
  <2> SUFFICES ASSUME NEW s \in Index, keys'[s] \in Keys
               PROVE  \E i \in Index :
                         /\ Slot(keys'[s], i) = s
                         /\ \A j \in Index : j < i => keys'[Slot(keys'[s], j)] # NULL
    BY <1>2, <1>4 DEF Reach, Slot
  <2>1. \A t \in Index : keys[t] # NULL => keys'[t] # NULL
    BY <1>3, MarksAssumption
  <2>2. \A c \in Keys, j \in Index : Slot(c, j) \in Index
    BY <1>4, SlotIndex
  <2>3. s # e /\ keys'[s] = keys[s]
    BY <1>3, MarksAssumption
  <2>4. PICK i \in Index : /\ Slot(keys[s], i) = s
                           /\ \A j \in Index : j < i => keys[Slot(keys[s], j)] # NULL
    BY <2>3, <1>0 DEF Reach
  <2> QED BY <2>1, <2>2, <2>3, <2>4
<1>8. KeysUnique'
  BY <1>0, <1>3, <1>4, MarksAssumption DEF KeysUnique
<1>9. \A t \in Index : keys'[t] \in Keys =>
         keys'[t] # k /\ keys[t] = keys'[t] /\ vals'[t] = vals[t]
  BY <1>0, <1>1, <1>3, MarksAssumption DEF KeysUnique
<1>10. \A t \in Index : keys[t] \in Keys /\ keys[t] # k => keys'[t] = keys[t]
  BY <1>1, <1>3
<1> QED BY <1>5, <1>6, <1>7, <1>8, <1>9, <1>10 DEF Table

-----------------------------------------------------------------------------
\* The inductive invariant.

(* The entries hold what the callers put last.                             *)
Agrees == \A s \in Index : keys[s] \in Keys => vals[s] = dict[keys[s]]

(* Between operations every key that callers put and did not remove has an *)
(* entry.                                                                  *)
Complete == \A k \in Keys : dict[k] # None => \E s \in Index : keys[s] = k

(* During a resize the old table still holds every key, the part already   *)
(* reinserted is in the new one, and that one has grown by at most one     *)
(* entry for each old one: so no reinsertion can resize again.             *)
Resizing ==
    /\ n = 2 * oldn /\ size <= next /\ next <= oldn
    /\ oldkeys \in [0 .. oldn - 1 -> Keys \cup {NULL, TOMBSTONE}]
    /\ oldvals \in [0 .. oldn - 1 -> Vals]
    /\ \A s \in 0 .. oldn - 1 : oldkeys[s] \in Keys => oldvals[s] = dict[oldkeys[s]]
    /\ \A k \in Keys : dict[k] # None =>
          \E s \in 0 .. oldn - 1 :
             /\ oldkeys[s] = k
             /\ s < next => \E t \in Index : keys[t] = k

Rest ==
    /\ pc \in {"ready", "resize"}
    /\ oldn \in Nat /\ next \in Nat
    /\ pkey \in Keys /\ pval \in Vals
    /\ dict \in [Keys -> Vals \cup {None}]

HInv ==
    /\ Table /\ Rest /\ Agrees
    /\ pc = "ready" => Complete
    /\ pc = "resize" => Resizing

(* An insertion together with the caller's record of it.                   *)
LEMMA InsertAgrees ==
    ASSUME Table, Agrees, Rest, NEW k \in Keys, NEW v \in Vals, n' = n, Table',
           Inserted(k, v), dict' = [dict EXCEPT ![k] = v]
    PROVE  /\ Agrees' /\ Index' = Index
           /\ dict' \in [Keys -> Vals \cup {None}]
           /\ \E s \in Index : keys'[s] = k
           /\ \A c \in Keys : c # k => dict'[c] = dict[c]
<1>1. Index' = Index
  BY DEF Index
<1>2. dict \in [Keys -> Vals \cup {None}]
  BY DEF Rest
<1>3. dict'[k] = v /\ (\A c \in Keys : c # k => dict'[c] = dict[c])
  BY <1>2
<1>4. PICK s \in Index : keys'[s] = k /\ vals'[s] = v
  BY DEF Inserted
<1>5. \A t \in Index : keys'[t] = k => t = s
  BY <1>1, <1>4 DEF Table, KeysUnique
<1>6. Agrees'
  BY <1>1, <1>3, <1>4, <1>5 DEF Agrees, Inserted
<1>7. dict' \in [Keys -> Vals \cup {None}]
  BY <1>2
<1> QED BY <1>1, <1>3, <1>4, <1>6, <1>7

LEMMA InitHInv == Init => HInv
<1> SUFFICES ASSUME Init PROVE HInv
  OBVIOUS
<1>1. n \in Nat \ {0} /\ Index = 0 .. Buckets - 1 /\ AnyVal \in Vals /\ AnyKey \in Keys
  BY HashAssumption, SomeAssumption DEF Init, Index, AnyVal, AnyKey
<1>2. \A s \in Index : keys[s] = NULL /\ keys[s] \notin Keys
  BY <1>1, MarksAssumption DEF Init
<1>3. TableOK
  BY <1>1 DEF Init, TableOK
<1>4. size = Cardinality(LiveSlots)
  <2>1. LiveSlots = {}
    BY <1>2 DEF LiveSlots
  <2> QED BY <2>1, FS_EmptySet DEF Init
<1>5. Reach /\ KeysUnique /\ Agrees
  BY <1>2 DEF Reach, KeysUnique, Agrees
<1>6. Rest
  BY <1>1 DEF Init, Rest
<1>7. pc = "ready" /\ Complete
  BY DEF Init, Complete
<1> QED BY <1>3, <1>4, <1>5, <1>6, <1>7 DEF HInv, Table

LEMMA PutHInv ==
    ASSUME HInv, NEW k \in Keys, NEW v \in Vals, Put(k, v)
    PROVE  HInv'
<1>0. /\ Table /\ Agrees /\ Rest /\ Complete
      /\ ~Overloaded /\ Insert(k, v) /\ dict' = [dict EXCEPT ![k] = v]
      /\ n' = n /\ UNCHANGED <<pc, oldn, oldkeys, oldvals, next, pkey, pval>> /\ pc = "ready"
  BY DEF HInv, Put, resizeVars
<1>1. Table' /\ Inserted(k, v)
  BY <1>0, InsertTable
<1>2. /\ Agrees' /\ Index' = Index
      /\ dict' \in [Keys -> Vals \cup {None}]
      /\ \E s \in Index : keys'[s] = k
      /\ \A c \in Keys : c # k => dict'[c] = dict[c]
  BY <1>0, <1>1, InsertAgrees
<1>3. Complete'
  BY <1>0, <1>1, <1>2 DEF Complete, Inserted
<1>4. Rest'
  BY <1>0, <1>2 DEF Rest
<1> QED BY <1>0, <1>1, <1>2, <1>3, <1>4 DEF HInv

LEMMA PutResizesHInv ==
    ASSUME HInv, NEW k \in Keys, NEW v \in Vals, PutResizes(k, v)
    PROVE  HInv'
<1>0. /\ TableOK /\ Agrees /\ Rest /\ Complete
      /\ pc' = "resize" /\ oldn' = n /\ oldkeys' = keys /\ oldvals' = vals /\ next' = 0
      /\ n' = 2 * n /\ size' = 0 /\ pkey' = k /\ pval' = v /\ dict' = dict
      /\ keys' = [s \in 0 .. 2 * n - 1 |-> NULL]
      /\ vals' = [s \in 0 .. 2 * n - 1 |-> AnyVal]
  BY DEF HInv, PutResizes, Table
<1>1. n \in Nat \ {0} /\ n' \in Nat \ {0} /\ n \in Nat /\ 0 \in Nat /\ 0 <= n
  BY <1>0 DEF TableOK
<1>2. Index' = 0 .. 2 * n - 1 /\ AnyVal \in Vals
  BY <1>0, SomeAssumption DEF Index, AnyVal
<1>3. \A s \in Index' : keys'[s] = NULL /\ keys'[s] \notin Keys
  BY <1>0, <1>2, MarksAssumption
<1>4. TableOK'
  BY <1>0, <1>1, <1>2 DEF TableOK
<1>5. size' = Cardinality(LiveSlots')
  <2>1. LiveSlots' = {}
    BY <1>3 DEF LiveSlots
  <2> QED BY <2>1, <1>0, FS_EmptySet
<1>6. Reach' /\ KeysUnique' /\ Agrees'
  BY <1>3 DEF Reach, KeysUnique, Agrees
<1>7. Rest'
  BY <1>0, <1>1 DEF Rest
<1>8. Resizing'
  <2>1. n' = 2 * oldn' /\ size' <= next' /\ next' <= oldn'
    BY <1>0, <1>1
  <2>2. Index = 0 .. oldn' - 1
    BY <1>0 DEF Index
  <2>3. /\ oldkeys' \in [Index -> Keys \cup {NULL, TOMBSTONE}]
        /\ oldvals' \in [Index -> Vals]
        /\ \A s \in Index : oldkeys'[s] \in Keys => oldvals'[s] = dict'[oldkeys'[s]]
    BY <1>0 DEF TableOK, Agrees
  <2>4. \A s \in Index : ~(s < next')
    BY <1>0, <1>1 DEF Index
  <2>5. \A c \in Keys : dict'[c] # None =>
          \E s \in Index : oldkeys'[s] = c /\ ~(s < next')
    BY <1>0, <2>4 DEF Complete
  <2> QED BY <2>1, <2>2, <2>3, <2>5 DEF Resizing
<1> QED BY <1>0, <1>4, <1>5, <1>6, <1>7, <1>8 DEF HInv, Table

(* During a resize the new table is within the load limit.                 *)
LEMMA ResizingRoom ==
    ASSUME TableOK, Rest, Resizing
    PROVE  ~Overloaded
<1>1. n \in Nat /\ size \in Nat /\ next \in Nat /\ oldn \in Nat
  BY DEF TableOK, Rest
<1> QED BY <1>1 DEF Resizing, Overloaded

LEMMA ReinsertHInv ==
    ASSUME HInv, Reinsert
    PROVE  HInv'
<1>0. /\ Table /\ TableOK /\ Agrees /\ Rest /\ Resizing
      /\ pc = "resize" /\ next < oldn /\ next' = next + 1
      /\ n' = n /\ UNCHANGED <<pc, oldn, oldkeys, oldvals, pkey, pval, dict>>
  BY DEF HInv, Reinsert, Table
<1>1. /\ next \in Nat /\ oldn \in Nat /\ next \in 0 .. oldn - 1 /\ next' \in Nat
      /\ next' <= oldn' /\ Index' = Index /\ n \in Nat /\ size \in Nat
  BY <1>0 DEF Rest, Index, TableOK
<1>2. Rest'
  BY <1>0, <1>1 DEF Rest
<1>3. \A s \in 0 .. oldn - 1 : s < next' => s < next \/ s = next
  BY <1>1, <1>0
<1>4. CASE OldLive
  <2> DEFINE k == oldkeys[next]
             v == oldvals[next]
  <2>1. k \in Keys /\ v \in Vals /\ v = dict[k]
    BY <1>0, <1>1, <1>4 DEF Resizing, OldLive
  <2>2. Insert(k, v) /\ ~Overloaded
    BY <1>0, <1>4, ResizingRoom DEF Reinsert
  <2> HIDE DEF k, v
  <2>3. Table' /\ Inserted(k, v)
    BY <1>0, <2>1, <2>2, InsertTable
  <2>4. dict' = [dict EXCEPT ![k] = v]
    BY <1>0, <2>1 DEF Rest
  <2>5. Agrees' /\ \E s \in Index : keys'[s] = k
    BY <1>0, <2>1, <2>3, <2>4, InsertAgrees
  <2>6. n' = 2 * oldn' /\ size' <= next'
    <3>1. size' <= size + 1 /\ size' \in Nat
      BY <2>3 DEF Inserted, Table, TableOK
    <3>2. size <= next /\ n = 2 * oldn
      BY <1>0 DEF Resizing
    <3> QED BY <3>1, <3>2, <1>0, <1>1
  <2>7. ASSUME NEW c \in Keys, dict'[c] # None
        PROVE  \E s \in 0 .. oldn - 1 :
                  oldkeys[s] = c /\ (s < next' => \E t \in Index : keys'[t] = c)
    <3>1. PICK s \in 0 .. oldn - 1 :
             oldkeys[s] = c /\ (s < next => \E t \in Index : keys[t] = c)
      BY <1>0, <2>7 DEF Resizing
    <3>2. CASE s < next
      BY <3>1, <3>2, <2>3 DEF Inserted
    <3>3. CASE s = next
      BY <3>1, <3>3, <2>5 DEF k
    <3> QED BY <3>1, <3>2, <3>3, <1>3
  <2>8. Resizing'
    BY <1>0, <1>1, <2>6, <2>7 DEF Resizing
  <2> QED BY <1>0, <1>2, <2>3, <2>5, <2>8 DEF HInv
<1>5. CASE ~OldLive
  <2>1. keys' = keys /\ vals' = vals /\ size' = size
    BY <1>5 DEF Reinsert
  <2>2. LiveSlots' = LiveSlots
    BY <1>1, <2>1 DEF LiveSlots
  <2>3. Table' /\ Agrees'
    BY <1>0, <1>1, <2>1, <2>2 DEF Table, TableOK, Reach, KeysUnique, Slot, Agrees
  <2>4. n' = 2 * oldn' /\ size' <= next'
    BY <1>0, <1>1, <2>1 DEF Resizing
  <2>5. ASSUME NEW c \in Keys, dict'[c] # None
        PROVE  \E s \in 0 .. oldn - 1 :
                  oldkeys[s] = c /\ (s < next' => \E t \in Index : keys'[t] = c)
    <3>1. PICK s \in 0 .. oldn - 1 :
             oldkeys[s] = c /\ (s < next => \E t \in Index : keys[t] = c)
      BY <1>0, <2>5 DEF Resizing
    <3>2. s # next
      BY <3>1, <1>5, MarksAssumption DEF OldLive
    <3> QED BY <3>1, <3>2, <1>3, <2>1
  <2>6. Resizing'
    BY <1>0, <1>1, <2>4, <2>5 DEF Resizing
  <2> QED BY <1>0, <1>2, <2>3, <2>6 DEF HInv
<1> QED BY <1>4, <1>5

LEMMA ResizedHInv ==
    ASSUME HInv, Resized
    PROVE  HInv'
<1>0. /\ Table /\ TableOK /\ Agrees /\ Rest /\ Resizing /\ pkey \in Keys /\ pval \in Vals
      /\ next = oldn /\ Insert(pkey, pval) /\ dict' = [dict EXCEPT ![pkey] = pval]
      /\ pc' = "ready" /\ oldn' = 0 /\ next' = 0 /\ pkey' = AnyKey /\ pval' = AnyVal
      /\ n' = n
  BY DEF HInv, Resized, Table, Rest
<1>1. ~Overloaded
  BY <1>0, ResizingRoom
<1>2. Table' /\ Inserted(pkey, pval)
  BY <1>0, <1>1, InsertTable
<1>3. /\ Agrees' /\ Index' = Index
      /\ dict' \in [Keys -> Vals \cup {None}]
      /\ \E s \in Index : keys'[s] = pkey
      /\ \A c \in Keys : c # pkey => dict'[c] = dict[c]
  BY <1>0, <1>2, InsertAgrees
<1>4. Rest'
  BY <1>0, <1>3, SomeAssumption DEF Rest, AnyKey, AnyVal
<1>5. \A c \in Keys : dict[c] # None => \E t \in Index : keys[t] = c
  <2>1. \A s \in 0 .. oldn - 1 : s < next
    BY <1>0 DEF Rest
  <2> QED BY <1>0, <2>1 DEF Resizing
<1>6. Complete'
  BY <1>2, <1>3, <1>5 DEF Complete, Inserted
<1> QED BY <1>0, <1>2, <1>3, <1>4, <1>6 DEF HInv

LEMMA RemoveHInv ==
    ASSUME HInv, NEW k \in Keys, Remove(k)
    PROVE  HInv'
<1>0. /\ Table /\ Agrees /\ Rest /\ Complete /\ dict' = [dict EXCEPT ![k] = None]
      /\ n' = n /\ UNCHANGED <<pc, oldn, oldkeys, oldvals, next, pkey, pval>> /\ pc = "ready"
  BY DEF HInv, Remove, resizeVars
<1>1. /\ Table'
      /\ \A t \in Index : keys'[t] \in Keys =>
            keys'[t] # k /\ keys[t] = keys'[t] /\ vals'[t] = vals[t]
      /\ \A t \in Index : keys[t] \in Keys /\ keys[t] # k => keys'[t] = keys[t]
  BY <1>0, RemoveTable
<1>2. Index' = Index /\ dict \in [Keys -> Vals \cup {None}]
  BY <1>0 DEF Index, Rest
<1>3. dict'[k] = None /\ (\A c \in Keys : c # k => dict'[c] = dict[c]) /\ dict' \in [Keys -> Vals \cup {None}]
  BY <1>0, <1>2
<1>4. Agrees'
  BY <1>0, <1>1, <1>2, <1>3 DEF Agrees
<1>5. Complete'
  BY <1>0, <1>1, <1>2, <1>3 DEF Complete
<1>6. Rest'
  BY <1>0, <1>3 DEF Rest
<1> QED BY <1>0, <1>1, <1>4, <1>5, <1>6 DEF HInv

LEMMA RemoveAbsentHInv ==
    ASSUME HInv, NEW k \in Keys, RemoveAbsent(k)
    PROVE  HInv'
<1>0. /\ Table /\ Agrees /\ Rest /\ Complete /\ dict' = [dict EXCEPT ![k] = None] /\ ~Found(k)
      /\ UNCHANGED <<n, keys, vals, size, pc, oldn, oldkeys, oldvals, next, pkey, pval>> /\ pc = "ready"
  BY DEF HInv, RemoveAbsent, resizeVars
<1>1. Index' = Index /\ dict \in [Keys -> Vals \cup {None}]
  BY <1>0 DEF Index, Rest
<1>2. LiveSlots' = LiveSlots
  BY <1>0, <1>1 DEF LiveSlots
<1>3. Table'
  BY <1>0, <1>1, <1>2 DEF Table, TableOK, Reach, KeysUnique, Slot
<1>4. dict'[k] = None /\ (\A c \in Keys : c # k => dict'[c] = dict[c]) /\ dict' \in [Keys -> Vals \cup {None}]
  BY <1>0, <1>1
<1>5. \A s \in Index : keys[s] # k
  BY <1>0, FoundThere
<1>6. Agrees' /\ Complete'
  BY <1>0, <1>1, <1>4, <1>5 DEF Agrees, Complete
<1>7. Rest'
  BY <1>0, <1>4 DEF Rest
<1> QED BY <1>0, <1>3, <1>6, <1>7 DEF HInv

(* The invariant holds in every state the map can be in.                   *)
THEOREM MapInvariant == Spec => []HInv
<1>1. Init => HInv
  BY InitHInv
<1>2. ASSUME HInv, [Next]_vars PROVE HInv'
  <2>1. ASSUME NEW k \in Keys, NEW v \in Vals, Put(k, v) PROVE HInv'
    BY <1>2, <2>1, PutHInv
  <2>2. ASSUME NEW k \in Keys, NEW v \in Vals, PutResizes(k, v) PROVE HInv'
    BY <1>2, <2>2, PutResizesHInv
  <2>3. CASE Reinsert
    BY <1>2, <2>3, ReinsertHInv
  <2>4. CASE Resized
    BY <1>2, <2>4, ResizedHInv
  <2>5. ASSUME NEW k \in Keys, Remove(k) PROVE HInv'
    BY <1>2, <2>5, RemoveHInv
  <2>6. ASSUME NEW k \in Keys, RemoveAbsent(k) PROVE HInv'
    BY <1>2, <2>6, RemoveAbsentHInv
  <2>7. CASE UNCHANGED vars
    BY <1>2, <2>7 DEF HInv, Table, TableOK, Reach, KeysUnique, LiveSlots, Rest, Agrees,
       Complete, Resizing, Index, Slot, vars
  <2> QED BY <1>2, <2>1, <2>2, <2>3, <2>4, <2>5, <2>6, <2>7 DEF Next
<1> QED BY <1>1, <1>2, PTL DEF Spec

-----------------------------------------------------------------------------
\* What the map promises.

(* hashmap_put, hashmap_remove and hashmap_resize keep the map well formed. *)
THEOREM MapTypeCorrect == Spec => []TypeOK
<1>1. HInv => TypeOK
  BY DEF HInv, Table, TableOK, Rest, Resizing, TypeOK
<1> QED BY <1>1, MapInvariant, PTL

(* No sequence of puts, removals and resizes gives a key two entries.      *)
THEOREM MapKeysUnique == Spec => []KeysUnique
<1>1. HInv => KeysUnique
  BY DEF HInv, Table
<1> QED BY <1>1, MapInvariant, PTL

(* size counts the live entries, and no resize starts within a resize.     *)
THEOREM MapSizeExact == Spec => []SizeExact
<1>1. HInv => SizeExact
  BY ResizingRoom DEF HInv, Table, SizeExact
<1> QED BY <1>1, MapInvariant, PTL

(* hashmap_get returns what was last put, and None after a removal.        *)
THEOREM MapFaithful == Spec => []Faithful
<1>1. ASSUME HInv, pc = "ready", NEW k \in Keys PROVE hashmap_get(k) = dict[k]
  <2>0. Table /\ TableOK /\ Agrees /\ Complete /\ dict \in [Keys -> Vals \cup {None}]
    BY <1>1 DEF HInv, Table, Rest
  <2>1. CASE Found(k)
    <3>1. Slot(k, End(k)) \in Index /\ keys[Slot(k, End(k))] = k
      BY <2>0, <2>1, FoundIs
    <3> QED BY <3>1, <2>0, <2>1 DEF Agrees, hashmap_get
  <2>2. CASE ~Found(k)
    <3>1. \A s \in Index : keys[s] # k
      BY <2>0, <2>2, FoundThere
    <3> QED BY <3>1, <2>0, <2>2 DEF Complete, hashmap_get
  <2> QED BY <2>1, <2>2
<1>2. HInv => Faithful
  BY <1>1 DEF Faithful
<1> QED BY <1>2, MapInvariant, PTL
=============================================================================
