------------------------------ MODULE HashMap ------------------------------
(***************************************************************************)
(* The open-addressing hash map of src/common.c, which holds macros,       *)
(* scopes, interned strings and the linker's symbols: linear probing,      *)
(* tombstones for removed keys, doubling when more than three quarters     *)
(* full.  hashmap_put, hashmap_remove and hashmap_get are atomic towards   *)
(* their callers, except that the reinsertions of hashmap_resize, each a   *)
(* hashmap_put of its own, are steps here.                                 *)
(***************************************************************************)
EXTENDS Integers, FiniteSets

CONSTANTS
    Keys, Vals,
    Hash,            \* hash_key: the FNV-1a hash of each key
    Buckets,         \* bucket_count given to hashmap_init
    NULL, TOMBSTONE, \* the key fields of entries that hold none
    None             \* what hashmap_get returns for an absent key

ASSUME HashAssumption == Hash \in [Keys -> Nat] /\ Buckets \in Nat \ {0}
ASSUME MarksAssumption ==
    NULL \notin Keys /\ TOMBSTONE \notin Keys /\ NULL # TOMBSTONE /\ None \notin Vals
ASSUME SomeAssumption == Keys # {} /\ Vals # {}

VARIABLES
    n,               \* bucket_count
    keys, vals,      \* entries[].key and entries[].val
    size,
    pc,              \* "ready", or "resize" within hashmap_resize
    oldn, oldkeys, oldvals, next,   \* old_count, old_entries and the loop index
    pkey, pval,      \* the arguments of the hashmap_put that resizes
    dict             \* history: what callers have put and not removed

vars == <<n, keys, vals, size, pc, oldn, oldkeys, oldvals, next, pkey, pval, dict>>
resizeVars == <<pc, oldn, oldkeys, oldvals, next, pkey, pval>>

Index == 0 .. n - 1

\* The index a probe for k looks at in round i.
Slot(k, i) == ((Hash[k] % n) + i) % n
First(S) == CHOOSE x \in S : \A y \in S : x <= y

\* Every loop over the probes ends at an empty entry or at the key, and
\* otherwise after n rounds.
Stops(k) == {i \in Index : keys[Slot(k, i)] \in {NULL, k}}
End(k) == IF Stops(k) = {} THEN n ELSE First(Stops(k))
Found(k) == End(k) < n /\ keys[Slot(k, End(k))] = k

hashmap_get(k) == IF Found(k) THEN vals[Slot(k, End(k))] ELSE None

\* Where a new key may go: the first tombstone met, or the empty entry.
Room(k) == {i \in Index : i <= End(k) /\ keys[Slot(k, i)] \in {NULL, TOMBSTONE}}
Dest(k) == Slot(k, First(Room(k)))

\* Mutant of Insert: a tombstone is taken before the key has been looked for.
Insert_eager(k, v) ==
    IF Room(k) # {}
    THEN /\ keys' = [keys EXCEPT ![Dest(k)] = k]
         /\ vals' = [vals EXCEPT ![Dest(k)] = v]
         /\ size' = size + 1
    ELSE /\ vals' = [vals EXCEPT ![Slot(k, End(k))] = v]
         /\ UNCHANGED <<keys, size>>

\* hashmap_put after the load check.  With neither the key nor room for it
\* the put is lost.
Insert(k, v) ==
    \/ /\ Found(k)
       /\ vals' = [vals EXCEPT ![Slot(k, End(k))] = v]
       /\ UNCHANGED <<keys, size>>
    \/ /\ ~Found(k) /\ Room(k) # {}
       /\ keys' = [keys EXCEPT ![Dest(k)] = k]
       /\ vals' = [vals EXCEPT ![Dest(k)] = v]
       /\ size' = size + 1
    \/ /\ ~Found(k) /\ Room(k) = {}
       /\ UNCHANGED <<keys, vals, size>>

\* map->size > map->bucket_count * 0.75
Overloaded == 4 * size > 3 * n

-----------------------------------------------------------------------------
\* What stands in fields whose contents do not matter.
AnyKey == CHOOSE k \in Keys : TRUE
AnyVal == CHOOSE v \in Vals : TRUE

Init ==
    /\ n = Buckets
    /\ keys = [s \in 0 .. Buckets - 1 |-> NULL]
    /\ vals = [s \in 0 .. Buckets - 1 |-> AnyVal]
    /\ size = 0
    /\ pc = "ready"
    /\ oldn = 0 /\ oldkeys = << >> /\ oldvals = << >> /\ next = 0
    /\ pkey = AnyKey /\ pval = AnyVal
    /\ dict = [k \in Keys |-> None]

Put(k, v) ==
    /\ pc = "ready" /\ ~Overloaded
    /\ Insert(k, v)
    /\ dict' = [dict EXCEPT ![k] = v]
    /\ UNCHANGED <<n, resizeVars>>

\* hashmap_resize begins: a cleared table of twice the size.
PutResizes(k, v) ==
    /\ pc = "ready" /\ Overloaded
    /\ pc' = "resize"
    /\ oldn' = n /\ oldkeys' = keys /\ oldvals' = vals /\ next' = 0
    /\ n' = 2 * n
    /\ keys' = [s \in 0 .. 2 * n - 1 |-> NULL]
    /\ vals' = [s \in 0 .. 2 * n - 1 |-> AnyVal]
    /\ size' = 0
    /\ pkey' = k /\ pval' = v
    /\ UNCHANGED dict

OldLive == oldkeys[next] \notin {NULL, TOMBSTONE}

Reinsert ==
    /\ pc = "resize" /\ next < oldn
    /\ IF OldLive THEN Insert(oldkeys[next], oldvals[next])
                  ELSE UNCHANGED <<keys, vals, size>>
    /\ next' = next + 1
    /\ UNCHANGED <<n, pc, oldn, oldkeys, oldvals, pkey, pval, dict>>

\* The resize is done, the old entries are freed, and the put that caused
\* it goes on.
Resized ==
    /\ pc = "resize" /\ next = oldn
    /\ Insert(pkey, pval)
    /\ dict' = [dict EXCEPT ![pkey] = pval]
    /\ pc' = "ready"
    /\ oldn' = 0 /\ oldkeys' = << >> /\ oldvals' = << >> /\ next' = 0
    /\ pkey' = AnyKey /\ pval' = AnyVal
    /\ UNCHANGED n

\* Mutant of Remove: the entry becomes empty instead of a tombstone.
Remove_clears(k) ==
    /\ pc = "ready" /\ Found(k)
    /\ keys' = [keys EXCEPT ![Slot(k, End(k))] = NULL]
    /\ size' = size - 1
    /\ dict' = [dict EXCEPT ![k] = None]
    /\ UNCHANGED <<n, vals, resizeVars>>

Remove(k) ==
    /\ pc = "ready" /\ Found(k)
    /\ keys' = [keys EXCEPT ![Slot(k, End(k))] = TOMBSTONE]
    /\ vals' = [vals EXCEPT ![Slot(k, End(k))] = AnyVal]
    /\ size' = size - 1
    /\ dict' = [dict EXCEPT ![k] = None]
    /\ UNCHANGED <<n, resizeVars>>

RemoveAbsent(k) ==
    /\ pc = "ready" /\ ~Found(k)
    /\ dict' = [dict EXCEPT ![k] = None]
    /\ UNCHANGED <<n, keys, vals, size, resizeVars>>

Next ==
    \/ \E k \in Keys, v \in Vals : Put(k, v) \/ PutResizes(k, v)
    \/ Reinsert \/ Resized
    \/ \E k \in Keys : Remove(k) \/ RemoveAbsent(k)

Spec == Init /\ [][Next]_vars

-----------------------------------------------------------------------------
(* The state is well formed.                                               *)
TypeOK ==
    /\ n \in Nat \ {0}
    /\ keys \in [Index -> Keys \cup {NULL, TOMBSTONE}]
    /\ vals \in [Index -> Vals]
    /\ size \in Nat
    /\ pc \in {"ready", "resize"}
    /\ oldn \in Nat /\ next \in Nat
    /\ pc = "resize" =>
        /\ next <= oldn
        /\ oldkeys \in [0 .. oldn - 1 -> Keys \cup {NULL, TOMBSTONE}]
        /\ oldvals \in [0 .. oldn - 1 -> Vals]
    /\ pkey \in Keys /\ pval \in Vals
    /\ dict \in [Keys -> Vals \cup {None}]

(* No key has two entries: the scan for a new key goes past tombstones     *)
(* until it knows that the key is not further on.                          *)
KeysUnique ==
    \A s, t \in Index : keys[s] = keys[t] /\ keys[s] \in Keys => s = t

(* size, on which the decision to resize rests, is the number of live      *)
(* entries, so that a table that is not overloaded has room; and a         *)
(* reinsertion, itself a hashmap_put, never starts another resize of the   *)
(* table under it.                                                         *)
LiveSlots == {s \in Index : keys[s] \in Keys}
SizeExact ==
    /\ size = Cardinality(LiveSlots)
    /\ pc = "resize" => ~Overloaded

(* A key's value is the last one put, across removals of other keys on its *)
(* probe path, reuse of tombstones and resizes; a removed key is absent,   *)
(* and no put is lost for want of room.                                    *)
Faithful == pc = "ready" => \A k \in Keys : hashmap_get(k) = dict[k]
=============================================================================
