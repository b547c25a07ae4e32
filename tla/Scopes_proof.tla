---------------------------- MODULE Scopes_proof ----------------------------
(***************************************************************************)
(* The proof that names resolve: for any names, and any unit whatever its  *)
(* length and however deep its blocks, the parser's maps give a name the   *)
(* meaning that C gives it, but for the cases that Scopes names.           *)
(*                                                                         *)
(* The maps keep no scopes, so what one of them holds is told from all the *)
(* entities declared so far (ents), and what C means from the scopes that  *)
(* are open (env).  The invariant says of each map which entities are in   *)
(* it, and of each scope which ones it names; the cases of UsesAgree then  *)
(* follow from where the innermost automatic variable or constant of the   *)
(* name is, next to the innermost declaration.                             *)
(***************************************************************************)
EXTENDS Scopes, TLAPS, WellFoundedInduction, FiniteSetTheorems

Kinds == {"global", "constexpr", "enum", "type", "struct", "auto", "static"}

IsSeq(s) == \E S : s \in Seq(S)
Latest(x, I) == x \in I /\ \A i \in I : i <= x

-----------------------------------------------------------------------------
(* The inductive invariant.                                                *)

(* Where an entity is kept that is no automatic variable.                  *)
PlaceOf(e) ==
    IF e.kind = "static" \/ (e.kind = "constexpr" /\ e.func # 0)
    THEN <<"func", e.name, e.func>> ELSE FileName(e.name)

(* The number in the name of an automatic variable was drawn.              *)
Drawn(e) == \E c \in Nat, w \in {"auto", "param"} : c < counter /\ e.place = <<w, e.name, c>>

EntityOk(i, e) ==
    /\ e.id = i /\ e.kind \in Kinds
    /\ e.func = 0 \/ e.func \in done
    /\ e.kind \in {"auto", "static"} => e.func # 0
    /\ e.kind = "enum" => e.ty = "int"
    /\ e.kind = "auto" => Drawn(e)
    /\ e.kind # "auto" => e.place = PlaceOf(e)

Autos == {i \in DOMAIN ents : ents[i].kind = "auto"}
EntsOk ==
    /\ IsSeq(ents)
    /\ \A i \in DOMAIN ents : EntityOk(i, ents[i])
    /\ \A i \in Autos, j \in Autos : ents[i].place = ents[j].place => i = j

Counts ==
    /\ unit \in Units /\ counter \in Nat /\ func \in Nat
    /\ done \subseteq Nat \ {0}
    /\ ~AtFile => func \in done

(* A scope names entities of the function at hand, that of the file those  *)
(* declared at file scope.                                                 *)
NamedIn(i, n, e) ==
    /\ n \in Names
    /\ e.id \in DOMAIN ents /\ e = ents[e.id]
    /\ e.name = n /\ e.kind # "struct"
    /\ e.func = IF i = 1 THEN 0 ELSE func
EnvOk ==
    /\ IsSeq(env) /\ IsSeq(scopes) /\ Len(env) = Len(scopes) + 1
    /\ \A i \in 1 .. Len(env) : \A n \in DOMAIN env[i].ids : NamedIn(i, n, env[i].ids[n])

(* The parser's scope has the automatic variables and constants of C's.    *)
Kept == {"auto", "constexpr"}
ScopeOk(i) ==
    \A n \in Names :
        /\ n \in DOMAIN scopes[i] <=> n \in DOMAIN env[i + 1].ids /\ env[i + 1].ids[n].kind \in Kept
        /\ n \in DOMAIN scopes[i] => scopes[i][n] = env[i + 1].ids[n].place
ScopesOk == \A i \in 1 .. Len(scopes) : ScopeOk(i)

(* d[i] scopes are open inside the first i braces.                         *)
Width(b) == IF b = "block" THEN 1 ELSE 2
Depths(d) ==
    /\ d[0] = 0 /\ d[Len(blocks)] = Len(scopes)
    /\ \A i \in 0 .. Len(blocks) : d[i] \in Nat
    /\ \A i \in 1 .. Len(blocks) : d[i] = d[i - 1] + Width(blocks[i])
BlocksOk == IsSeq(blocks) /\ \E d : Depths(d)

(* At file scope a name is declared once, and externs have one type.       *)
FileOk ==
    /\ \A i \in DOMAIN ents : ents[i].func = 0 /\ ents[i].kind # "struct" =>
          ents[i].name \in DOMAIN env[1].ids /\ env[1].ids[ents[i].name] = ents[i]
    /\ \A n \in Names : \A i \in Linked(n), j \in Linked(n) : ents[i].ty = ents[j].ty
    /\ \A n \in Names : n \in DOMAIN env[1].ids /\ Linked(n) # {} => env[1].ids[n].kind = "global"

StaticsOk ==
    \A n \in Names :
        /\ n \in DOMAIN statics <=> InFunction("static", n) # {}
        /\ n \in DOMAIN statics => statics[n] = FuncName(n)

Constants(u) == {i \in DOMAIN ents : ents[i].kind = "constexpr" /\ ents[i].place = u}
ConstsOk ==
    /\ \A i \in DOMAIN ents : ents[i].kind = "constexpr" => ents[i].place \in DOMAIN consts
    /\ \A u \in DOMAIN consts : Latest(consts[u], Constants(u))

FileTyped == {"global", "constexpr"}
TypesOk ==
    /\ \A i \in Autos : ents[i].place \in DOMAIN types /\ types[ents[i].place] = ents[i].ty
    /\ \A u \in DOMAIN consts : u \in DOMAIN types /\ types[u] = ents[consts[u]].ty
    /\ \A u \in DOMAIN types : u[1] = "func" => u \in DOMAIN consts
    /\ \A n \in Names :
          /\ FileName(n) \in DOMAIN types <=> AtFileIs(n, FileTyped)
          /\ FileName(n) \in DOMAIN types => types[FileName(n)] = env[1].ids[n].ty

EnumsOk ==
    \A n \in Names :
        /\ n \in DOMAIN enums <=> Ever("enum", n) # {}
        /\ n \in DOMAIN enums => Latest(enums[n], Ever("enum", n))

TypeNamesOk ==
    \A n \in Names :
        /\ n \in typedefs <=> Ever("type", n) # {}
        /\ n \in DOMAIN typesizes <=> AtFileIs(n, {"type"})
        /\ n \in DOMAIN typesizes => typesizes[n] = env[1].ids[n].ty

TagsOk ==
    /\ \A t \in DOMAIN unit.bodies :
          /\ t \in DOMAIN structs <=> Ever("struct", t) # {}
          /\ t \in DOMAIN structs => Latest(structs[t].id, Ever("struct", t))
    /\ \A i \in 1 .. Len(env) : \A t \in DOMAIN env[i].tags :
          t \in DOMAIN unit.bodies /\ env[i].tags[t].id \in Ever("struct", t)

MapsOk == StaticsOk /\ ConstsOk /\ TypesOk /\ EnumsOk /\ TypeNamesOk /\ TagsOk
Based == Counts /\ EntsOk /\ EnvOk /\ ScopesOk /\ BlocksOk /\ FileOk
IInv == status # "fatal" => Based /\ MapsOk

-----------------------------------------------------------------------------
(* Sequences, sets of numbers, and maps.                                   *)

(* A non-empty set of naturals has a least element.                        *)
LEMMA LeastElement ==
    ASSUME NEW T, T \subseteq Nat, T # {}
    PROVE  \E x \in T : \A y \in T : x <= y
<1>1. IsWellFoundedOn(OpToRel(<, Nat), Nat)
  BY NatLessThanWellFounded
<1>2. PICK x \in T : \A y \in T : ~(<<y, x>> \in OpToRel(<, Nat))
  BY <1>1, WFMin
<1>3. \A y \in T : ~(y < x)
  BY <1>2 DEF OpToRel
<1> QED
  BY <1>3

(* A latest one is the maximum.                                            *)
LEMMA LatestIsMax ==
    ASSUME NEW x, NEW I, I \subseteq Nat, Latest(x, I)
    PROVE  Max(I) = x
<1>1. Max(I) \in I /\ \A y \in I : Max(I) >= y
  BY DEF Max, Latest
<1>2. PICK m : m = Max(I)
  OBVIOUS
<1>3. m \in Nat /\ x \in Nat /\ m >= x /\ m <= x
  BY <1>1, <1>2 DEF Latest
<1>4. m = x
  BY <1>3
<1> QED
  BY <1>2, <1>4

(* There is one in a non-empty set of indices.                             *)
LEMMA MaxIsLatest ==
    ASSUME NEW k \in Nat, NEW I, I \subseteq 1 .. k, I # {}
    PROVE  Latest(Max(I), I)
<1> DEFINE T == {k - i : i \in I}
<1>1. T \subseteq Nat /\ T # {}
  <2>1. \A i \in I : k - i \in Nat
    OBVIOUS
  <2>2. PICK i \in I : TRUE
    OBVIOUS
  <2>3. k - i \in T
    BY <2>2
  <2>4. T \subseteq Nat
    BY <2>1
  <2> QED
    BY <2>3, <2>4
<1>2. PICK x \in T : \A y \in T : x <= y
  BY <1>1, LeastElement
<1>3. PICK i \in I : x = k - i
  BY <1>2
<1>4. \A j \in I : j <= i
  <2> TAKE j \in I
  <2>1. k - j \in T
    OBVIOUS
  <2> QED
    BY <2>1, <1>2, <1>3
<1>5. Latest(i, I)
  BY <1>4 DEF Latest
<1>6. I \subseteq Nat
  OBVIOUS
<1> QED
  BY <1>5, <1>6, LatestIsMax

(* One element more at the end.                                            *)
LEMMA Appended ==
    ASSUME NEW s, IsSeq(s), NEW x
    PROVE  /\ IsSeq(Append(s, x))
           /\ Len(s) \in Nat /\ DOMAIN s = 1 .. Len(s)
           /\ Len(Append(s, x)) = Len(s) + 1
           /\ DOMAIN Append(s, x) = 1 .. Len(s) + 1
           /\ \A i \in 1 .. Len(s) : Append(s, x)[i] = s[i]
           /\ Append(s, x)[Len(s) + 1] = x
<1>1. PICK S : s \in Seq(S)
  BY DEF IsSeq
<1>2. Append(s, x) \in Seq(S \cup {x})
  BY <1>1
<1>3. IsSeq(Append(s, x))
  BY <1>2 DEF IsSeq
<1> QED
  BY <1>1, <1>3

TwoOn(s, x, y) == s \o <<x, y>>
(* Two elements more at the end.                                           *)
LEMMA TwoMore ==
    ASSUME NEW s, IsSeq(s), NEW x, NEW y
    PROVE  /\ IsSeq(TwoOn(s, x, y)) /\ Len(TwoOn(s, x, y)) = Len(s) + 2
           /\ \A i \in 1 .. Len(s) : TwoOn(s, x, y)[i] = s[i]
           /\ TwoOn(s, x, y)[Len(s) + 1] = x /\ TwoOn(s, x, y)[Len(s) + 2] = y
<1>1. PICK S : s \in Seq(S)
  BY DEF IsSeq
<1>2. s \o <<x, y>> \in Seq(S \cup {x, y})
  BY <1>1
<1>3. IsSeq(s \o <<x, y>>)
  BY <1>2 DEF IsSeq
<1> QED
  BY <1>1, <1>3 DEF TwoOn

(* The last k elements removed.                                            *)
LEMMA Popped ==
    ASSUME NEW s, IsSeq(s), NEW k \in Nat, k <= Len(s)
    PROVE  /\ IsSeq(Pop(s, k))
           /\ Len(Pop(s, k)) = Len(s) - k
           /\ \A i \in 1 .. Len(s) - k : Pop(s, k)[i] = s[i]
<1>1. PICK S : s \in Seq(S)
  BY DEF IsSeq
<1>2. SubSeq(s, 1, Len(s) - k) \in Seq(S)
  BY <1>1
<1>3. IsSeq(SubSeq(s, 1, Len(s) - k))
  BY <1>2 DEF IsSeq
<1> QED
  BY <1>1, <1>3 DEF Pop

(* An element replaced.                                                    *)
LEMMA Replaced ==
    ASSUME NEW s, IsSeq(s), NEW k, NEW x
    PROVE  /\ IsSeq([s EXCEPT ![k] = x])
           /\ Len(s) \in Nat /\ DOMAIN s = 1 .. Len(s)
           /\ Len([s EXCEPT ![k] = x]) = Len(s)
           /\ \A i \in 1 .. Len(s) : [s EXCEPT ![k] = x][i] = IF i = k THEN x ELSE s[i]
<1>1. PICK S : s \in Seq(S)
  BY DEF IsSeq
<1>2. [s EXCEPT ![k] = x] \in Seq(S \cup {x})
  <2>1. s \in [1 .. Len(s) -> S] /\ Len(s) \in Nat
    BY <1>1
  <2>2. [s EXCEPT ![k] = x] \in [1 .. Len(s) -> S \cup {x}]
    BY <2>1
  <2>3. \A n \in Nat : \A f \in [1 .. n -> S \cup {x}] : f \in Seq(S \cup {x})
    OBVIOUS
  <2> QED
    BY <2>1, <2>2, <2>3
<1>3. IsSeq([s EXCEPT ![k] = x])
  BY <1>2 DEF IsSeq
<1> QED
  BY <1>1, <1>3

(* The indices of a sequence.                                              *)
LEMMA SeqIs ==
    ASSUME NEW s, IsSeq(s)
    PROVE  /\ Len(s) \in Nat /\ DOMAIN s = 1 .. Len(s)
           /\ s = << >> <=> Len(s) = 0
BY DEF IsSeq

(* Sequences of at most two elements.                                      *)
LEMMA Few ==
    /\ \A x : IsSeq(<<x>>) /\ Len(<<x>>) = 1
    /\ IsSeq(<< >>) /\ Len(<< >>) = 0
    /\ \A x, y : IsSeq(<<x, y>>) /\ Len(<<x, y>>) = 2
<1>1. \A x : <<x>> \in Seq({x})
  OBVIOUS
<1>2. \A x, y : <<x, y>> \in Seq({x, y})
  OBVIOUS
<1>3. << >> \in Seq({})
  OBVIOUS
<1> QED
  BY <1>1, <1>2, <1>3 DEF IsSeq

(* hashmap_put                                                             *)
LEMMA PutIs ==
    ASSUME NEW m, NEW k, NEW v
    PROVE  /\ DOMAIN Put(m, k, v) = DOMAIN m \cup {k}
           /\ Put(m, k, v)[k] = v
           /\ \A x \in DOMAIN m : x # k => Put(m, k, v)[x] = m[x]
BY DEF Put

(* The empty map has no keys.                                              *)
LEMMA NoneIs == DOMAIN None = {}
BY DEF None

-----------------------------------------------------------------------------
(* What an action does to the entities and to C's scopes.                  *)

(* e is recorded                                                           *)
Grows(e) ==
    /\ NewId \in Nat /\ NewId \notin DOMAIN ents /\ e.id = NewId
    /\ IsSeq(ents') /\ DOMAIN ents' = DOMAIN ents \cup {NewId}
    /\ \A i \in DOMAIN ents : i \in Nat /\ i < NewId /\ ents'[i] = ents[i]
    /\ ents'[NewId] = e

(* n denotes e in the innermost scope, and in no other way before          *)
Adds(e) ==
    /\ Top \in Nat \ {0} /\ Free(e.name)
    /\ IsSeq(env') /\ Len(env') = Len(env)
    /\ \A i \in 1 .. Len(env) : env'[i].tags = env[i].tags
    /\ \A i \in 1 .. Len(env) : i # Top => env'[i].ids = env[i].ids
    /\ DOMAIN env'[Top].ids = DOMAIN env[Top].ids \cup {e.name}
    /\ env'[Top].ids[e.name] = e
    /\ \A n \in DOMAIN env[Top].ids : env'[Top].ids[n] = env[Top].ids[n]

(* the tag t denotes the entity that is recorded                           *)
AddsTag(t) ==
    /\ Top \in Nat \ {0}
    /\ IsSeq(env') /\ Len(env') = Len(env)
    /\ \A i \in 1 .. Len(env) : env'[i].ids = env[i].ids
    /\ \A i \in 1 .. Len(env) : i # Top => env'[i].tags = env[i].tags
    /\ DOMAIN env'[Top].tags = DOMAIN env[Top].tags \cup {t}
    /\ env'[Top].tags[t].id = NewId
    /\ \A u \in DOMAIN env[Top].tags : u # t => env'[Top].tags[u] = env[Top].tags[u]

(* a scope in which e is declared, and a scope inside it                   *)
Pushes(e) ==
    /\ Top \in Nat \ {0}
    /\ IsSeq(env') /\ Len(env') = Top + 2
    /\ \A i \in 1 .. Len(env) : env'[i] = env[i]
    /\ env'[Top + 1] = Scope(Put(None, e.name, e), None)
    /\ env'[Top + 2] = NoScope

(* Record adds an entity and keeps the others.                             *)
LEMMA RecordGrows ==
    ASSUME EntsOk, NEW e, e.id = NewId, Record(e)
    PROVE  Grows(e)
<1>1. IsSeq(ents)
  BY DEF EntsOk
<1>2. PICK x : x = ents
  OBVIOUS
<1>3. ents' = Append(x, e) /\ IsSeq(x)
  BY <1>1, <1>2 DEF Record
<1> QED
  BY <1>2, <1>3, Appended DEF Grows, NewId

(* Declared adds its name to the innermost scope, and nothing else.        *)
LEMMA DeclaredAdds ==
    ASSUME EntsOk, EnvOk, NEW e, e.id = NewId, Free(e.name), Declared(e)
    PROVE  Grows(e) /\ Adds(e)
<1>1. Grows(e)
  BY RecordGrows DEF Declared
<1>2. IsSeq(env) /\ IsSeq(scopes) /\ Len(env) = Len(scopes) + 1
  BY DEF EnvOk
<1>3. Top \in Nat \ {0}
  BY <1>2, SeqIs DEF Top
<1>4. PICK x : x = Scope(Put(env[Top].ids, e.name, e), env[Top].tags)
  OBVIOUS
<1>5. x.ids = Put(env[Top].ids, e.name, e) /\ x.tags = env[Top].tags
  BY <1>4 DEF Scope
<1>6. env' = [env EXCEPT ![Top] = x]
  BY <1>4 DEF Declared
<1>7. /\ IsSeq(env') /\ Len(env') = Len(env)
      /\ \A i \in 1 .. Len(env) : env'[i] = IF i = Top THEN x ELSE env[i]
  BY <1>2, <1>6, Replaced
<1>8. env'[Top] = x
  BY <1>3, <1>7 DEF Top
<1>9. PICK m : m = env[Top].ids
  OBVIOUS
<1>10. /\ DOMAIN env'[Top].ids = DOMAIN m \cup {e.name}
       /\ env'[Top].ids[e.name] = e
       /\ \A n \in DOMAIN m : n # e.name => env'[Top].ids[n] = m[n]
  <2>1. PICK p : p = env'[Top].ids
    OBVIOUS
  <2>2. PICK k : k = e.name
    OBVIOUS
  <2>3. p = Put(m, k, e)
    BY <1>5, <1>8, <1>9, <2>1, <2>2
  <2>4. DOMAIN p = DOMAIN m \cup {k} /\ p[k] = e /\ \A n \in DOMAIN m : n # k => p[n] = m[n]
    BY <2>3 DEF Put
  <2> QED
    BY <2>1, <2>2, <2>4
<1>11. e.name \notin DOMAIN m
  BY <1>9 DEF Free
<1>12. \A i \in 1 .. Len(env) : env'[i].tags = env[i].tags
  BY <1>5, <1>7
<1>13. \A i \in 1 .. Len(env) : i # Top => env'[i].ids = env[i].ids
  BY <1>7
<1>14. Adds(e)
  BY <1>3, <1>7, <1>9, <1>10, <1>11, <1>12, <1>13 DEF Adds
<1> QED
  BY <1>1, <1>14

(* TagDeclared does so with a tag.                                         *)
LEMMA TagAdds ==
    ASSUME EntsOk, EnvOk, NEW t, TagDeclared(t)
    PROVE  Grows(Entity("struct", t, "long", FileName(t))) /\ AddsTag(t)
<1>1. Grows(Entity("struct", t, "long", FileName(t)))
  <2>1. PICK e : e = Entity("struct", t, "long", FileName(t))
    OBVIOUS
  <2>2. e.id = NewId
    BY <2>1 DEF Entity, EntityOf
  <2> QED
    BY <2>1, <2>2, RecordGrows DEF TagDeclared
<1>2. IsSeq(env) /\ IsSeq(scopes) /\ Len(env) = Len(scopes) + 1
  BY DEF EnvOk
<1>3. Top \in Nat \ {0}
  BY <1>2, SeqIs DEF Top
<1>4. PICK d : d = TagEntity(t)
  OBVIOUS
<1>5. d.id = NewId
  BY <1>4 DEF TagEntity
<1>6. PICK x : x = Scope(env[Top].ids, Put(env[Top].tags, t, d))
  OBVIOUS
<1>7. x.ids = env[Top].ids /\ x.tags = Put(env[Top].tags, t, d)
  BY <1>6 DEF Scope
<1>8. env' = [env EXCEPT ![Top] = x]
  BY <1>4, <1>6 DEF TagDeclared
<1>9. /\ IsSeq(env') /\ Len(env') = Len(env)
      /\ \A i \in 1 .. Len(env) : env'[i] = IF i = Top THEN x ELSE env[i]
  BY <1>2, <1>8, Replaced
<1>10. env'[Top] = x
  BY <1>3, <1>9 DEF Top
<1>11. PICK m : m = env[Top].tags
  OBVIOUS
<1>12. /\ DOMAIN env'[Top].tags = DOMAIN m \cup {t}
       /\ env'[Top].tags[t] = d
       /\ \A u \in DOMAIN m : u # t => env'[Top].tags[u] = m[u]
  <2>1. PICK p : p = env'[Top].tags
    OBVIOUS
  <2>2. p = Put(m, t, d)
    BY <1>7, <1>10, <1>11, <2>1
  <2>3. DOMAIN p = DOMAIN m \cup {t} /\ p[t] = d /\ \A u \in DOMAIN m : u # t => p[u] = m[u]
    BY <2>2 DEF Put
  <2> QED
    BY <2>1, <2>3
<1>13. \A i \in 1 .. Len(env) : env'[i].ids = env[i].ids
  BY <1>7, <1>9
<1>14. \A i \in 1 .. Len(env) : i # Top => env'[i].tags = env[i].tags
  BY <1>9
<1>15. AddsTag(t)
  BY <1>3, <1>5, <1>9, <1>11, <1>12, <1>13, <1>14 DEF AddsTag
<1> QED
  BY <1>1, <1>15

(* For and Begin open two scopes, the name in the outer one.               *)
LEMMA TwoPush ==
    ASSUME EnvOk, NEW e, env' = env \o <<Scope(Put(None, e.name, e), None), NoScope>>
    PROVE  Pushes(e)
<1>1. IsSeq(env) /\ IsSeq(scopes) /\ Len(env) = Len(scopes) + 1
  BY DEF EnvOk
<1>2. Top \in Nat \ {0}
  BY <1>1, SeqIs DEF Top
<1>3. PICK x : x = Scope(Put(None, e.name, e), None)
  OBVIOUS
<1>4. PICK y : y = NoScope
  OBVIOUS
<1>5. env' = TwoOn(env, x, y)
  BY <1>3, <1>4 DEF TwoOn
<1>6. /\ IsSeq(env') /\ Len(env') = Len(env) + 2
      /\ \A i \in 1 .. Len(env) : env'[i] = env[i]
      /\ env'[Len(env) + 1] = x /\ env'[Len(env) + 2] = y
  <2>1. PICK q : q = TwoOn(env, x, y)
    OBVIOUS
  <2>2. /\ IsSeq(q) /\ Len(q) = Len(env) + 2
        /\ \A i \in 1 .. Len(env) : q[i] = env[i]
        /\ q[Len(env) + 1] = x /\ q[Len(env) + 2] = y
    BY <1>1, <2>1, TwoMore
  <2> QED
    BY <1>5, <2>1, <2>2
<1> QED
  BY <1>2, <1>3, <1>4, <1>6 DEF Pushes, Top

(* The entities of a kind and a name.                                      *)
LEMMA EverGrows ==
    ASSUME NEW e, Grows(e), NEW k, NEW n
    PROVE  /\ Ever(k, n) \subseteq Nat
           /\ \A i \in Ever(k, n) : i < NewId
           /\ e.kind = k /\ e.name = n => Ever(k, n)' = Ever(k, n) \cup {NewId}
           /\ ~(e.kind = k /\ e.name = n) => Ever(k, n)' = Ever(k, n)
BY DEF Grows, Ever

(* A number above the others is the latest.                                *)
LEMMA LatestAdded ==
    ASSUME NEW I, I \subseteq Nat, NEW x \in Nat, \A i \in I : i < x
    PROVE  Latest(x, I \cup {x})
BY DEF Latest

-----------------------------------------------------------------------------
(* The entities.                                                           *)

(* An entity stays as it should be while numbers are drawn.                *)
LEMMA EntityStays ==
    ASSUME NEW i, NEW e, EntityOk(i, e), done \subseteq done',
           counter \in Nat, counter' \in Nat, counter <= counter'
    PROVE  EntityOk(i, e)'
<1>1. Drawn(e) => Drawn(e)'
  BY DEF Drawn
<1> QED
  BY <1>1 DEF EntityOk

(* The entities are right after one more is recorded.                      *)
LEMMA EntsGrow ==
    ASSUME Counts, EntsOk, NEW e, Grows(e), done \subseteq done',
           counter' \in Nat, counter <= counter', EntityOk(e.id, e)',
           e.kind = "auto" => \E w \in {"auto", "param"} : e.place = <<w, e.name, counter>>
    PROVE  EntsOk'
<1>1. \A i \in DOMAIN ents : EntityOk(i, ents[i])
  BY DEF EntsOk
<1>2. counter \in Nat
  BY DEF Counts
<1>3. ASSUME NEW i \in DOMAIN ents' PROVE EntityOk(i, ents[i])'
  <2>1. CASE i = NewId
    <3>1. ents'[i] = e /\ e.id = i
      BY <2>1 DEF Grows
    <3> QED
      BY <3>1
  <2>2. CASE i \in DOMAIN ents
    <3>1. PICK x : x = ents[i]
      OBVIOUS
    <3>2. ents'[i] = x /\ EntityOk(i, x)
      BY <1>1, <2>2, <3>1 DEF Grows
    <3>3. EntityOk(i, x)'
      BY <1>2, <3>2, EntityStays
    <3> QED
      BY <3>2, <3>3
  <2> QED
    BY <2>1, <2>2 DEF Grows
<1>4. \A i \in Autos : ents[i].place # e.place \/ e.kind # "auto"
  <2> SUFFICES ASSUME NEW i \in Autos, e.kind = "auto" PROVE ents[i].place # e.place
    OBVIOUS
  <2>1. PICK w \in {"auto", "param"} : e.place = <<w, e.name, counter>>
    OBVIOUS
  <2>2. Drawn(ents[i])
    BY <1>1 DEF Autos, EntityOk
  <2>3. PICK c \in Nat, v \in {"auto", "param"} :
          c < counter /\ ents[i].place = <<v, ents[i].name, c>>
    BY <2>2 DEF Drawn
  <2>4. c # counter
    BY <1>2, <2>3
  <2>5. ents[i].place[3] = c /\ e.place[3] = counter
    BY <2>1, <2>3
  <2> QED
    BY <2>4, <2>5
<1>5. Autos' \subseteq Autos \cup {NewId}
  BY DEF Autos, Grows
<1>6. NewId \in Autos' => e.kind = "auto"
  BY DEF Autos, Grows
<1>7. \A i \in Autos : ents'[i] = ents[i]
  BY DEF Autos, Grows
<1>8. ents'[NewId] = e /\ IsSeq(ents')
  BY DEF Grows
<1>9. \A i \in Autos, j \in Autos : ents[i].place = ents[j].place => i = j
  BY DEF EntsOk
<1>10. \A i \in Autos', j \in Autos' : ents'[i].place = ents'[j].place => i = j
  BY <1>4, <1>5, <1>6, <1>7, <1>8, <1>9
<1> QED
  BY <1>3, <1>8, <1>10 DEF EntsOk

(* They are right when none is.                                            *)
LEMMA EntsStay ==
    ASSUME Counts, EntsOk, UNCHANGED ents, done \subseteq done',
           counter' \in Nat, counter <= counter'
    PROVE  EntsOk'
<1>1. \A i \in DOMAIN ents : EntityOk(i, ents[i])
  BY DEF EntsOk
<1>2. counter \in Nat
  BY DEF Counts
<1>3. ASSUME NEW i \in DOMAIN ents' PROVE EntityOk(i, ents[i])'
  <2>1. PICK x : x = ents[i]
    OBVIOUS
  <2>2. ents'[i] = x /\ EntityOk(i, x)
    BY <1>1, <2>1
  <2>3. EntityOk(i, x)'
    BY <1>2, <2>2, EntityStays
  <2> QED
    BY <2>2, <2>3
<1>4. Autos' = Autos /\ IsSeq(ents)'
  BY DEF Autos, EntsOk
<1>5. \A i \in Autos', j \in Autos' : ents'[i].place = ents'[j].place => i = j
  BY <1>4 DEF EntsOk
<1> QED
  BY <1>3, <1>4, <1>5 DEF EntsOk

-----------------------------------------------------------------------------
(* The scopes.                                                             *)

Keeps == \A i \in DOMAIN ents : i \in DOMAIN ents' /\ ents'[i] = ents[i]

(* No action takes an entity back.                                         *)
LEMMA KeepsThem ==
    /\ \A e : Grows(e) => Keeps
    /\ UNCHANGED ents => Keeps
<1>1. ASSUME NEW e, Grows(e) PROVE Keeps
  BY <1>1 DEF Grows, Keeps
<1>2. ASSUME UNCHANGED ents PROVE Keeps
  BY <1>2 DEF Keeps
<1> QED
  BY <1>1, <1>2

(* C's scopes are the parser's and that of the file.                       *)
LEMMA TopIs ==
    ASSUME EnvOk
    PROVE  /\ Top \in Nat /\ Top >= 1 /\ Len(env) = Top /\ DOMAIN env = 1 .. Top
           /\ Len(scopes) \in Nat /\ Len(scopes) = Top - 1 /\ DOMAIN scopes = 1 .. Len(scopes)
           /\ AtFile <=> Top = 1
           /\ AtFile <=> Len(scopes) = 0
<1>1. IsSeq(env) /\ IsSeq(scopes) /\ Len(env) = Len(scopes) + 1
  BY DEF EnvOk
<1>2. Len(scopes) \in Nat /\ DOMAIN scopes = 1 .. Len(scopes) /\ (AtFile <=> Len(scopes) = 0)
  BY <1>1, SeqIs DEF AtFile
<1>3. DOMAIN env = 1 .. Len(env)
  BY <1>1, SeqIs
<1> QED
  BY <1>1, <1>2, <1>3 DEF Top

(* The names are those before, and e in the scope lv.                      *)
LEMMA EnvFrom ==
    ASSUME EnvOk, Keeps, func' = func \/ Top = 1,
           IsSeq(env'), IsSeq(scopes'), Len(env') = Len(scopes') + 1,
           NEW lv, NEW e, lv # 0 => NamedIn(lv, e.name, e)',
           \A i \in 1 .. Len(env') : \A n \in DOMAIN env'[i].ids :
              \/ i \in 1 .. Top /\ n \in DOMAIN env[i].ids /\ env'[i].ids[n] = env[i].ids[n]
              \/ i = lv /\ lv # 0 /\ n = e.name /\ env'[i].ids[n] = e
    PROVE  EnvOk'
<1>1. ASSUME NEW i \in 1 .. Len(env'), NEW n \in DOMAIN env'[i].ids
      PROVE  NamedIn(i, n, env[i].ids[n])'
  <2>1. CASE i \in 1 .. Top /\ n \in DOMAIN env[i].ids /\ env'[i].ids[n] = env[i].ids[n]
    <3>1. PICK x : x = env[i].ids[n]
      OBVIOUS
    <3>2. NamedIn(i, n, x) /\ env'[i].ids[n] = x
      BY <2>1, <3>1 DEF EnvOk, Top
    <3>3. i = 1 \/ func' = func
      BY <2>1
    <3>4. NamedIn(i, n, x)'
      BY <3>2, <3>3 DEF NamedIn, Keeps
    <3> QED
      BY <3>2, <3>4
  <2>2. CASE i = lv /\ lv # 0 /\ n = e.name /\ env'[i].ids[n] = e
    <3>1. NamedIn(i, n, e)'
      BY <2>2
    <3> QED
      BY <2>2, <3>1
  <2> QED
    BY <2>1, <2>2
<1> QED
  BY <1>1 DEF EnvOk

(* The names in scope are right after a declaration.                       *)
LEMMA EnvAdds ==
    ASSUME EnvOk, NEW e, Grows(e), Adds(e), e.name \in Names, e.kind # "struct",
           e.func = IF AtFile THEN 0 ELSE func, UNCHANGED func,
           IsSeq(scopes'), Len(scopes') = Len(scopes)
    PROVE  EnvOk'
<1>2. PICK lv : lv = Top
  OBVIOUS
<1>3. lv \in Nat /\ lv # 0 /\ (AtFile <=> lv = 1) /\ Len(env) = lv /\ Len(scopes) = lv - 1
  BY <1>2, TopIs
<1>4. NamedIn(lv, e.name, e)'
  BY <1>3 DEF NamedIn, Grows
<1>5. Keeps
  BY KeepsThem
<1>6. IsSeq(env') /\ Len(env') = Len(scopes') + 1
  BY <1>3 DEF Adds
<1>7. \A i \in 1 .. Len(env') : \A n \in DOMAIN env'[i].ids :
        \/ i \in 1 .. Top /\ n \in DOMAIN env[i].ids /\ env'[i].ids[n] = env[i].ids[n]
        \/ i = lv /\ lv # 0 /\ n = e.name /\ env'[i].ids[n] = e
  BY <1>2, <1>3 DEF Adds
<1>8. func' = func \/ Top = 1
  OBVIOUS
<1>9. lv # 0 => NamedIn(lv, e.name, e)'
  BY <1>4
<1>10. IsSeq(env') /\ IsSeq(scopes') /\ Len(env') = Len(scopes') + 1
  BY <1>6
<1> QED
  BY <1>5, <1>7, <1>8, <1>9, <1>10, EnvFrom

(* What is declared in the scopes that For and Begin open.                 *)
LEMMA PushedIs ==
    ASSUME NEW e, Pushes(e)
    PROVE  /\ DOMAIN env'[Top + 1].ids = {e.name} /\ env'[Top + 1].ids[e.name] = e
           /\ DOMAIN env'[Top + 2].ids = {}
           /\ DOMAIN env'[Top + 1].tags = {} /\ DOMAIN env'[Top + 2].tags = {}
<1>1. PICK m : m = Put(None, e.name, e)
  OBVIOUS
<1>2. DOMAIN m = {e.name} /\ m[e.name] = e
  BY <1>1, NoneIs DEF Put
<1>3. env'[Top + 1].ids = m /\ env'[Top + 1].tags = None
  BY <1>1 DEF Pushes, Scope
<1>4. env'[Top + 2].ids = None /\ env'[Top + 2].tags = None
  BY DEF Pushes, NoScope, Scope
<1> QED
  BY <1>2, <1>3, <1>4, NoneIs

(* The names in scope are right when these are opened.                     *)
LEMMA EnvPushes ==
    ASSUME EnvOk, NEW e, Grows(e), Pushes(e), e.name \in Names, e.kind = "auto",
           e.func = func', func' = func \/ AtFile,
           IsSeq(scopes'), Len(scopes') = Len(scopes) + 2
    PROVE  EnvOk'
<1>1. PICK lv : lv = Top + 1
  OBVIOUS
<1>2. Top \in Nat /\ Top >= 1 /\ (AtFile <=> Top = 1) /\ Len(env) = Top /\ Len(scopes) = Top - 1
  BY TopIs
<1>3. NamedIn(lv, e.name, e)'
  BY <1>1, <1>2 DEF NamedIn, Grows
<1>4. Keeps
  BY KeepsThem
<1>5. IsSeq(env') /\ Len(env') = Top + 2 /\ Len(env') = Len(scopes') + 1
  BY <1>2 DEF Pushes
<1>6. ASSUME NEW i \in 1 .. Len(env'), NEW n \in DOMAIN env'[i].ids
      PROVE  \/ i \in 1 .. Top /\ n \in DOMAIN env[i].ids /\ env'[i].ids[n] = env[i].ids[n]
             \/ i = lv /\ lv # 0 /\ n = e.name /\ env'[i].ids[n] = e
  <2>1. CASE i \in 1 .. Top
    BY <1>2, <2>1 DEF Pushes
  <2>2. CASE i = Top + 1
    BY <1>1, <1>2, <2>2, PushedIs
  <2>3. CASE i = Top + 2
    BY <2>3, PushedIs
  <2> QED
    BY <1>2, <1>5, <2>1, <2>2, <2>3
<1>7. func' = func \/ Top = 1
  BY <1>2
<1> QED
  BY <1>3, <1>4, <1>5, <1>6, <1>7, EnvFrom

(* No name is declared.                                                    *)
LEMMA EnvSame ==
    ASSUME EnvOk, Keeps, func' = func \/ AtFile,
           IsSeq(env'), IsSeq(scopes'), Len(env') = Len(scopes') + 1,
           \A i \in 1 .. Len(env') :
              \/ i \in 1 .. Top /\ env'[i].ids = env[i].ids
              \/ DOMAIN env'[i].ids = {}
    PROVE  EnvOk'
<1>1. ASSUME NEW i \in 1 .. Len(env'), NEW n \in DOMAIN env'[i].ids
      PROVE  NamedIn(i, n, env[i].ids[n])'
  <2>1. i \in 1 .. Top /\ env'[i].ids = env[i].ids
    OBVIOUS
  <2>2. PICK x : x = env[i].ids[n]
    OBVIOUS
  <2>3. NamedIn(i, n, x) /\ env'[i].ids[n] = x
    BY <2>1, <2>2 DEF EnvOk, Top
  <2>4. i = 1 \/ func' = func
    BY <2>1, TopIs
  <2>5. NamedIn(i, n, x)'
    BY <2>3, <2>4 DEF NamedIn, Keeps
  <2> QED
    BY <2>3, <2>5
<1>2. (\A i \in 1 .. Len(env) : \A n \in DOMAIN env[i].ids : NamedIn(i, n, env[i].ids[n]))'
  BY <1>1
<1> QED
  BY <1>2 DEF EnvOk

(* The parser's scopes.                                                    *)
LEMMA ScopesFrom ==
    ASSUME ScopesOk, EnvOk,
           \A i \in 1 .. Len(scopes') :
              \/ i \in 1 .. Len(scopes) /\ scopes'[i] = scopes[i] /\ env'[i + 1].ids = env[i + 1].ids
              \/ DOMAIN scopes'[i] = {} /\ DOMAIN env'[i + 1].ids = {}
              \/ ScopeOk(i)'
    PROVE  ScopesOk'
<1>1. ASSUME NEW i \in 1 .. Len(scopes') PROVE ScopeOk(i)'
  <2>1. CASE i \in 1 .. Len(scopes) /\ scopes'[i] = scopes[i] /\ env'[i + 1].ids = env[i + 1].ids
    <3>1. ScopeOk(i)
      BY <2>1 DEF ScopesOk
    <3> QED
      BY <2>1, <3>1 DEF ScopeOk
  <2>2. CASE DOMAIN scopes'[i] = {} /\ DOMAIN env'[i + 1].ids = {}
    BY <2>2 DEF ScopeOk
  <2> QED
    BY <2>1, <2>2
<1> QED
  BY <1>1 DEF ScopesOk

(* What is declared is neither automatic nor a constant, or at file scope. *)
LEMMA ScopesAddsNone ==
    ASSUME ScopesOk, EnvOk, NEW e, Adds(e), e.kind \notin Kept \/ AtFile, UNCHANGED scopes
    PROVE  ScopesOk'
<1>1. /\ Top \in Nat /\ Top >= 1 /\ (AtFile <=> Top = 1) /\ Len(env) = Top
      /\ Len(scopes) = Top - 1
  BY TopIs
<1>2. ASSUME NEW i \in 1 .. Len(scopes') PROVE ScopeOk(i)'
  <2>1. ScopeOk(i) /\ i \in Nat /\ i + 1 \in 1 .. Len(env)
    BY <1>1 DEF ScopesOk
  <2>2. CASE i + 1 = Top
    <3>1. Top # 1 /\ e.kind \notin Kept
      BY <1>1, <2>1, <2>2
    <3>2. PICK m : m = env[i + 1].ids
      OBVIOUS
    <3>3. PICK p : p = env'[i + 1].ids
      OBVIOUS
    <3>4. /\ DOMAIN p = DOMAIN m \cup {e.name} /\ p[e.name] = e
          /\ \A n \in DOMAIN m : p[n] = m[n]
      BY <2>2, <3>2, <3>3 DEF Adds
    <3>5. e.name \notin DOMAIN m
      BY <2>2, <3>2 DEF Adds, Free
    <3>6. \A n : n \in DOMAIN m /\ m[n].kind \in Kept <=> n \in DOMAIN p /\ p[n].kind \in Kept
      BY <3>1, <3>4, <3>5
    <3> QED
      BY <2>1, <3>2, <3>3, <3>4, <3>6 DEF ScopeOk
  <2>3. CASE i + 1 # Top
    <3>1. env'[i + 1].ids = env[i + 1].ids
      BY <2>1, <2>3 DEF Adds
    <3> QED
      BY <2>1, <3>1 DEF ScopeOk
  <2> QED
    BY <2>2, <2>3
<1> QED
  BY <1>2 DEF ScopesOk

(* What is declared enters the parser's innermost scope.                   *)
LEMMA ScopesAddsOne ==
    ASSUME ScopesOk, EnvOk, NEW e, Adds(e), e.kind \in Kept, ~AtFile,
           scopes' = InTop(e.name, e.place)
    PROVE  ScopesOk' /\ IsSeq(scopes') /\ Len(scopes') = Len(scopes)
<1>1. /\ Top \in Nat /\ Top > 1 /\ Len(env) = Top /\ Len(scopes) = Top - 1
      /\ Len(scopes) \in 1 .. Len(scopes)
  BY TopIs
<1>2. IsSeq(scopes)
  BY DEF EnvOk
<1>3. PICK k : k = Len(scopes)
  OBVIOUS
<1>4. PICK q : q = Put(scopes[k], e.name, e.place)
  OBVIOUS
<1>5. scopes' = [scopes EXCEPT ![k] = q]
  BY <1>3, <1>4 DEF InTop
<1>6. /\ IsSeq(scopes') /\ Len(scopes') = Len(scopes)
      /\ \A i \in 1 .. Len(scopes) : scopes'[i] = IF i = k THEN q ELSE scopes[i]
  <2>1. PICK z : z = [scopes EXCEPT ![k] = q]
    OBVIOUS
  <2>2. /\ IsSeq(z) /\ Len(z) = Len(scopes)
        /\ \A i \in 1 .. Len(scopes) : z[i] = IF i = k THEN q ELSE scopes[i]
    BY <1>2, <2>1, Replaced
  <2>3. scopes' = z
    BY <1>5, <2>1
  <2> QED
    BY <2>2, <2>3
<1>7. /\ DOMAIN q = DOMAIN scopes[k] \cup {e.name} /\ q[e.name] = e.place
      /\ \A n \in DOMAIN scopes[k] : n # e.name => q[n] = scopes[k][n]
  BY <1>4 DEF Put
<1>8. ASSUME NEW i \in 1 .. Len(scopes') PROVE ScopeOk(i)'
  <2>1. ScopeOk(i) /\ i \in Nat /\ i + 1 \in 1 .. Len(env) /\ i \in 1 .. Len(scopes)
    BY <1>1, <1>6 DEF ScopesOk
  <2>2. CASE i = k
    <3>1. i + 1 = Top
      BY <1>1, <1>3, <2>2
    <3>2. PICK m : m = env[i + 1].ids
      OBVIOUS
    <3>3. PICK p : p = env'[i + 1].ids
      OBVIOUS
    <3>4. /\ DOMAIN p = DOMAIN m \cup {e.name} /\ p[e.name] = e
          /\ \A n \in DOMAIN m : p[n] = m[n]
      BY <3>1, <3>2, <3>3 DEF Adds
    <3>5. e.name \notin DOMAIN m
      BY <3>1, <3>2 DEF Adds, Free
    <3>6. PICK r : r = scopes[i]
      OBVIOUS
    <3>7. /\ scopes'[i] = q /\ DOMAIN q = DOMAIN r \cup {e.name} /\ q[e.name] = e.place
          /\ \A n \in DOMAIN r : n # e.name => q[n] = r[n]
      BY <1>6, <1>7, <2>1, <2>2, <3>6
    <3>8. \A n \in Names :
            /\ n \in DOMAIN r <=> n \in DOMAIN m /\ m[n].kind \in Kept
            /\ n \in DOMAIN r => r[n] = m[n].place
      BY <2>1, <3>2, <3>6 DEF ScopeOk
    <3>9. \A n \in Names :
            /\ n \in DOMAIN q <=> n \in DOMAIN p /\ p[n].kind \in Kept
            /\ n \in DOMAIN q => q[n] = p[n].place
      BY <3>4, <3>5, <3>7, <3>8
    <3> QED
      BY <3>3, <3>7, <3>9 DEF ScopeOk
  <2>3. CASE i # k
    <3>1. env'[i + 1].ids = env[i + 1].ids /\ scopes'[i] = scopes[i]
      BY <1>1, <1>3, <1>6, <2>1, <2>3 DEF Adds
    <3> QED
      BY <2>1, <3>1 DEF ScopeOk
  <2> QED
    BY <2>2, <2>3
<1> QED
  BY <1>6, <1>8 DEF ScopesOk

(* The scope of a parameter or of the variable of a for statement.         *)
LEMMA ScopesPush ==
    ASSUME ScopesOk, EnvOk, NEW e, Pushes(e), e.kind = "auto",
           IsSeq(scopes'), Len(scopes') = Len(scopes) + 2,
           \A i \in 1 .. Len(scopes) : scopes'[i] = scopes[i],
           scopes'[Len(scopes) + 1] = Put(None, e.name, e.place),
           scopes'[Len(scopes) + 2] = None
    PROVE  ScopesOk'
<1>1. Top \in Nat /\ Top >= 1 /\ Len(env) = Top /\ Len(scopes) = Top - 1
  BY TopIs
<1>2. PICK q : q = Put(None, e.name, e.place)
  OBVIOUS
<1>3. DOMAIN q = {e.name} /\ q[e.name] = e.place
  BY <1>2, NoneIs DEF Put
<1>4. scopes'[Top] = q /\ scopes'[Top + 1] = None
  BY <1>1, <1>2
<1>5. PICK t : t = Top
  OBVIOUS
<1>6. ScopeOk(t)'
  <2>1. PICK p : p = env'[t + 1].ids
    OBVIOUS
  <2>2. scopes'[t] = q /\ DOMAIN p = {e.name} /\ p[e.name] = e
    BY <1>4, <1>5, <2>1, PushedIs
  <2> QED
    BY <1>3, <2>1, <2>2 DEF ScopeOk, Kept
<1>7. DOMAIN scopes'[t + 1] = {} /\ DOMAIN env'[t + 2].ids = {}
  BY <1>4, <1>5, PushedIs, NoneIs
<1>8. ASSUME NEW i \in 1 .. Len(scopes')
      PROVE  \/ i \in 1 .. Len(scopes) /\ scopes'[i] = scopes[i] /\ env'[i + 1].ids = env[i + 1].ids
             \/ DOMAIN scopes'[i] = {} /\ DOMAIN env'[i + 1].ids = {}
             \/ ScopeOk(i)'
  <2>1. CASE i \in 1 .. Len(scopes)
    <3>1. i + 1 \in 1 .. Len(env)
      BY <1>1, <2>1
    <3> QED
      BY <2>1, <3>1 DEF Pushes
  <2>2. CASE i = t
    BY <1>6, <2>2
  <2>3. CASE i = t + 1
    BY <1>1, <1>5, <1>7, <2>3
  <2> QED
    BY <1>1, <1>5, <2>1, <2>2, <2>3
<1> QED
  BY <1>8, ScopesFrom

-----------------------------------------------------------------------------
(* The braces.                                                             *)

(* The braces still tell the scopes open if no brace is met.               *)
LEMMA BlocksStay ==
    ASSUME BlocksOk, UNCHANGED blocks, Len(scopes') = Len(scopes)
    PROVE  BlocksOk'
<1>1. PICK d : Depths(d)
  BY DEF BlocksOk
<1>2. Depths(d)'
  BY <1>1 DEF Depths
<1> QED
  BY <1>2 DEF BlocksOk

(* They tell them after an opening brace.                                  *)
LEMMA BlocksOpen ==
    ASSUME BlocksOk, NEW b, blocks' = Append(blocks, b), Len(scopes) \in Nat,
           Len(scopes') = Len(scopes) + Width(b)
    PROVE  BlocksOk'
<1>1. IsSeq(blocks)
  BY DEF BlocksOk
<1>2. PICK d : Depths(d)
  BY DEF BlocksOk
<1>3. PICK k : k = Len(blocks)
  OBVIOUS
<1>4. PICK q : q = Append(blocks, b)
  OBVIOUS
<1>5. /\ IsSeq(q) /\ k \in Nat /\ Len(q) = k + 1
      /\ \A i \in 1 .. k : q[i] = blocks[i]
      /\ q[k + 1] = b
  BY <1>1, <1>3, <1>4, Appended
<1>6. blocks' = q
  BY <1>4
<1>7. Width(b) \in Nat
  BY DEF Width
<1>8. PICK g : /\ g[k + 1] = Len(scopes) + Width(b)
               /\ \A i \in 0 .. k : g[i] = d[i]
  <2> DEFINE h == [i \in 0 .. k + 1 |-> IF i = k + 1 THEN Len(scopes) + Width(b) ELSE d[i]]
  <2>1. /\ h[k + 1] = Len(scopes) + Width(b)
        /\ \A i \in 0 .. k : h[i] = d[i]
    BY <1>5
  <2> QED
    BY <2>1
<1>9. /\ d[0] = 0 /\ d[k] = Len(scopes)
      /\ \A i \in 0 .. k : d[i] \in Nat
      /\ \A i \in 1 .. k : d[i] = d[i - 1] + Width(blocks[i])
  BY <1>2, <1>3 DEF Depths
<1>10. g[0] = 0 /\ \A i \in 0 .. k + 1 : g[i] \in Nat
  BY <1>5, <1>7, <1>8, <1>9
<1>11. ASSUME NEW i \in 1 .. k + 1 PROVE g[i] = g[i - 1] + Width(q[i])
  <2>1. CASE i = k + 1
    BY <1>5, <1>8, <1>9, <2>1
  <2>2. CASE i \in 1 .. k
    BY <1>5, <1>8, <1>9, <2>2
  <2> QED
    BY <1>5, <2>1, <2>2
<1>12. Len(q) = k + 1 /\ g[k + 1] = Len(scopes')
  BY <1>5, <1>8
<1>13. Depths(g)'
  BY <1>6, <1>10, <1>11, <1>12 DEF Depths
<1> QED
  BY <1>5, <1>6, <1>13 DEF BlocksOk

(* The last block's scopes are there to be closed.                         *)
LEMMA BlocksClose ==
    ASSUME BlocksOk, Len(scopes) \in Nat, Len(scopes) # 0, blocks' = Front(blocks)
    PROVE  /\ Width(Last(blocks)) \in {1, 2} /\ Width(Last(blocks)) <= Len(scopes)
           /\ Len(scopes') = Len(scopes) - Width(Last(blocks)) => BlocksOk'
<1>1. IsSeq(blocks)
  BY DEF BlocksOk
<1>2. PICK d : Depths(d)
  BY DEF BlocksOk
<1>3. PICK k : k = Len(blocks)
  OBVIOUS
<1>4. k \in Nat
  BY <1>1, <1>3, SeqIs
<1>5. /\ d[0] = 0 /\ d[k] = Len(scopes)
      /\ \A i \in 0 .. k : d[i] \in Nat
      /\ \A i \in 1 .. k : d[i] = d[i - 1] + Width(blocks[i])
  BY <1>2, <1>3 DEF Depths
<1>6. k # 0
  BY <1>5
<1>7. PICK b : b = Last(blocks)
  OBVIOUS
<1>8. blocks[k] = b
  BY <1>3, <1>7 DEF Last
<1>9. Width(b) \in {1, 2}
  BY DEF Width
<1>10. d[k] = d[k - 1] + Width(b) /\ d[k - 1] \in Nat
  BY <1>4, <1>5, <1>6, <1>8
<1>11. PICK q : q = Pop(blocks, 1)
  OBVIOUS
<1>12. IsSeq(q) /\ Len(q) = k - 1 /\ \A i \in 1 .. k - 1 : q[i] = blocks[i]
  BY <1>1, <1>3, <1>4, <1>6, <1>11, Popped
<1>13. blocks' = q
  BY <1>11 DEF Front, Pop
<1>14. ASSUME Len(scopes') = Len(scopes) - Width(b) PROVE BlocksOk'
  <2>1. d[k - 1] = Len(scopes')
    <3>1. PICK w : w = Width(b)
      OBVIOUS
    <3>2. PICK c : c = d[k - 1]
      OBVIOUS
    <3>3. PICK l : l = Len(scopes)
      OBVIOUS
    <3>4. w \in {1, 2} /\ c \in Nat /\ l = c + w /\ Len(scopes') = l - w
      BY <1>5, <1>9, <1>10, <1>14, <3>1, <3>2, <3>3
    <3>5. l - w = c
      BY <3>4
    <3> QED
      BY <3>2, <3>4, <3>5
  <2>2. /\ \A i \in 0 .. k - 1 : d[i] \in Nat
        /\ \A i \in 1 .. k - 1 : d[i] = d[i - 1] + Width(q[i])
    BY <1>4, <1>5, <1>6, <1>12
  <2>3. Depths(d)'
    BY <1>5, <1>12, <1>13, <2>1, <2>2 DEF Depths
  <2> QED
    BY <1>12, <1>13, <2>3 DEF BlocksOk
<1>15. Width(b) <= Len(scopes)
  BY <1>5, <1>9, <1>10
<1> QED
  BY <1>7, <1>9, <1>14, <1>15

-----------------------------------------------------------------------------
(* The file's scope.                                                       *)

(* An object of the file has one declaration more.                         *)
LEMMA LinkedGrows ==
    ASSUME NEW e, Grows(e), NEW n
    PROVE  /\ e.kind = "global" /\ e.name = n => Linked(n)' = Linked(n) \cup {NewId}
           /\ ~(e.kind = "global" /\ e.name = n) => Linked(n)' = Linked(n)
           /\ \A i \in Linked(n) : i \in DOMAIN ents /\ ents'[i] = ents[i]
BY DEF Grows, Linked

(* The file's scope is right after a declaration.                          *)
LEMMA FileAdds ==
    ASSUME FileOk, EnvOk, NEW e, Grows(e), Adds(e), e.kind # "struct",
           e.func = 0 <=> AtFile,
           e.kind = "global" => \A i \in Linked(e.name) : ents[i].ty = e.ty,
           AtFile /\ e.kind # "global" => Linked(e.name) = {},
           ~AtFile /\ e.kind = "global" =>
              (e.name \in DOMAIN env[1].ids => env[1].ids[e.name].kind = "global")
    PROVE  FileOk'
<1>1. Top \in Nat /\ Top >= 1 /\ (AtFile <=> Top = 1) /\ Len(env) = Top
  BY TopIs
<1>2. PICK m : m = env[1].ids
  OBVIOUS
<1>3. PICK p : p = env'[1].ids
  OBVIOUS
<1>4. AtFile => /\ DOMAIN p = DOMAIN m \cup {e.name} /\ p[e.name] = e
                /\ \A n \in DOMAIN m : p[n] = m[n]
                /\ e.name \notin DOMAIN m
  BY <1>1, <1>2, <1>3 DEF Adds, Free
<1>5. ~AtFile => p = m
  BY <1>1, <1>2, <1>3 DEF Adds
<1>6. \A i \in DOMAIN ents : ents[i].func = 0 /\ ents[i].kind # "struct" =>
        ents[i].name \in DOMAIN m /\ m[ents[i].name] = ents[i]
  BY <1>2 DEF FileOk
<1>7. ASSUME NEW i \in DOMAIN ents', ents'[i].func = 0, ents'[i].kind # "struct"
      PROVE  ents'[i].name \in DOMAIN p /\ p[ents'[i].name] = ents'[i]
  <2>1. CASE i = NewId
    <3>1. ents'[i] = e
      BY <2>1 DEF Grows
    <3>2. AtFile
      BY <1>7, <3>1
    <3> QED
      BY <1>4, <3>1, <3>2
  <2>2. CASE i \in DOMAIN ents
    <3>1. ents'[i] = ents[i]
      BY <2>2 DEF Grows
    <3>2. ents[i].name \in DOMAIN m /\ m[ents[i].name] = ents[i]
      BY <1>6, <1>7, <2>2, <3>1
    <3>3. DOMAIN m \subseteq DOMAIN p /\ \A n \in DOMAIN m : p[n] = m[n]
      BY <1>4, <1>5
    <3> QED
      BY <3>1, <3>2, <3>3
  <2> QED
    BY <2>1, <2>2 DEF Grows
<1>8. ASSUME NEW n \in Names, NEW i \in Linked(n)', NEW j \in Linked(n)'
      PROVE  ents'[i].ty = ents'[j].ty
  <2>1. \A k \in Linked(n)' : (k = NewId /\ e.kind = "global" /\ e.name = n) \/ k \in Linked(n)
    BY LinkedGrows
  <2>2. \A k \in Linked(n), l \in Linked(n) : ents[k].ty = ents[l].ty
    BY DEF FileOk
  <2>3. \A k \in Linked(n) : ents'[k] = ents[k]
    BY LinkedGrows
  <2>4. ents'[NewId] = e
    BY DEF Grows
  <2>5. e.kind = "global" /\ e.name = n => \A k \in Linked(n) : ents[k].ty = e.ty
    OBVIOUS
  <2>6. ents'[i].ty = ents[i].ty \/ i = NewId
    BY <2>1, <2>3
  <2>7. CASE i = NewId /\ j = NewId
    BY <2>7
  <2>8. CASE i = NewId /\ j \in Linked(n)
    <3>1. CASE NewId \in Linked(n)
      BY <2>2, <2>3, <2>8, <3>1
    <3>2. CASE NewId \notin Linked(n)
      BY <2>1, <2>3, <2>4, <2>5, <2>8, <3>2
    <3> QED
      BY <3>1, <3>2
  <2>9. CASE i \in Linked(n) /\ j = NewId
    <3>1. CASE NewId \in Linked(n)
      BY <2>2, <2>3, <2>9, <3>1
    <3>2. CASE NewId \notin Linked(n)
      BY <2>1, <2>3, <2>4, <2>5, <2>9, <3>2
    <3> QED
      BY <3>1, <3>2
  <2>10. CASE i \in Linked(n) /\ j \in Linked(n)
    BY <2>2, <2>3, <2>10
  <2> QED
    BY <2>1, <2>7, <2>8, <2>9, <2>10
<1>9. ASSUME NEW n \in Names, n \in DOMAIN p, Linked(n)' # {} PROVE p[n].kind = "global"
  <2>1. n \in DOMAIN m /\ Linked(n) # {} => m[n].kind = "global"
    BY <1>2 DEF FileOk
  <2>2. Linked(n) # {} \/ (e.kind = "global" /\ e.name = n)
    BY <1>9, LinkedGrows
  <2>3. CASE AtFile
    <3>1. CASE n = e.name
      BY <1>4, <2>2, <2>3, <3>1
    <3>2. CASE n # e.name
      BY <1>4, <1>9, <2>1, <2>2, <2>3, <3>2
    <3> QED
      BY <3>1, <3>2
  <2>4. CASE ~AtFile
    BY <1>2, <1>5, <1>9, <2>1, <2>2, <2>4
  <2> QED
    BY <2>3, <2>4
<1> QED
  BY <1>3, <1>7, <1>8, <1>9 DEF FileOk

(* The scope of the file is as before, and what is recorded is local, or   *)
(* a structure.                                                            *)
LEMMA FileSame ==
    ASSUME FileOk, env'[1].ids = env[1].ids,
           \/ UNCHANGED ents
           \/ \E e : Grows(e) /\ (e.func # 0 \/ e.kind = "struct") /\ e.kind # "global"
    PROVE  FileOk'
<1>1. CASE UNCHANGED ents
  <2>1. \A n : Linked(n)' = Linked(n)
    BY <1>1 DEF Linked
  <2> QED
    BY <1>1, <2>1 DEF FileOk
<1>2. ASSUME NEW e, Grows(e), e.func # 0 \/ e.kind = "struct", e.kind # "global" PROVE FileOk'
  <2>1. \A n : Linked(n)' = Linked(n)
    BY <1>2, LinkedGrows
  <2>2. \A n : \A i \in Linked(n) : ents'[i] = ents[i]
    BY <1>2, LinkedGrows
  <2>3. \A i \in DOMAIN ents' :
          \/ i = NewId /\ ents'[i] = e
          \/ i \in DOMAIN ents /\ ents'[i] = ents[i]
    BY <1>2 DEF Grows
  <2>4. \A i \in DOMAIN ents' : ents'[i].func = 0 /\ ents'[i].kind # "struct" =>
          ents'[i].name \in DOMAIN env[1].ids /\ env[1].ids[ents'[i].name] = ents'[i]
    BY <1>2, <2>3 DEF FileOk
  <2>5. \A n \in Names : \A i \in Linked(n), j \in Linked(n) : ents'[i].ty = ents'[j].ty
    BY <2>2 DEF FileOk
  <2> QED
    BY <2>1, <2>4, <2>5 DEF FileOk
<1> QED
  BY <1>1, <1>2

-----------------------------------------------------------------------------
(* What leaves a kind of entity, or the names of the file, as they were.   *)

EverSame(k) == \A n : Ever(k, n)' = Ever(k, n)
FileKept(ks) ==
    \A n : /\ AtFileIs(n, ks)' <=> AtFileIs(n, ks)
           /\ AtFileIs(n, ks) => env'[1].ids[n] = env[1].ids[n]

(* The entities of other kinds and names stay.                             *)
LEMMA OtherKinds ==
    ASSUME NEW k
    PROVE  /\ UNCHANGED ents => EverSame(k)
           /\ \A e : Grows(e) /\ e.kind # k => EverSame(k)
<1>1. ASSUME UNCHANGED ents PROVE EverSame(k)
  BY <1>1 DEF EverSame, Ever
<1>2. ASSUME NEW e, Grows(e), e.kind # k PROVE EverSame(k)
  BY <1>2, EverGrows DEF EverSame
<1> QED
  BY <1>1, <1>2

(* A declaration elsewhere leaves the file's scope alone.                  *)
LEMMA FileKeptIf ==
    ASSUME EnvOk, NEW ks
    PROVE  /\ env'[1].ids = env[1].ids => FileKept(ks)
           /\ \A e : Adds(e) /\ (AtFile => e.kind \notin ks) => FileKept(ks)
<1>1. ASSUME env'[1].ids = env[1].ids PROVE FileKept(ks)
  BY <1>1 DEF FileKept, AtFileIs
<1>2. ASSUME NEW e, Adds(e), AtFile => e.kind \notin ks PROVE FileKept(ks)
  <2>1. Top \in Nat /\ Top >= 1 /\ (AtFile <=> Top = 1) /\ Len(env) = Top
    BY TopIs
  <2>2. PICK m : m = env[1].ids
    OBVIOUS
  <2>3. PICK p : p = env'[1].ids
    OBVIOUS
  <2>4. CASE AtFile
    <3>1. /\ DOMAIN p = DOMAIN m \cup {e.name} /\ p[e.name] = e
          /\ \A n \in DOMAIN m : p[n] = m[n]
          /\ e.name \notin DOMAIN m
      BY <1>2, <2>1, <2>2, <2>3, <2>4 DEF Adds, Free
    <3>2. \A n : /\ n \in DOMAIN p /\ p[n].kind \in ks <=> n \in DOMAIN m /\ m[n].kind \in ks
                 /\ n \in DOMAIN m => p[n] = m[n]
      BY <1>2, <2>4, <3>1
    <3> QED
      BY <2>2, <2>3, <3>2 DEF FileKept, AtFileIs
  <2>5. CASE ~AtFile
    <3>1. env'[1].ids = env[1].ids
      BY <1>2, <2>1, <2>5 DEF Adds
    <3> QED
      BY <1>1, <3>1
  <2> QED
    BY <2>4, <2>5
<1> QED
  BY <1>1, <1>2

-----------------------------------------------------------------------------
(* The static variables of the function.                                   *)

(* current_static_locals is right if no static is declared.                *)
LEMMA StaticsStay ==
    ASSUME StaticsOk, Keeps, EverSame("static"), UNCHANGED <<statics, func>>
    PROVE  StaticsOk'
<1>1. \A n : InFunction("static", n)' = InFunction("static", n)
  BY DEF InFunction, EverSame, Keeps, Ever
<1>2. \A n : FuncName(n)' = FuncName(n)
  BY DEF FuncName
<1> QED
  BY <1>1, <1>2 DEF StaticsOk

(* A function begins with none.                                            *)
LEMMA StaticsClear ==
    ASSUME EntsOk, Keeps, EverSame("static"), statics' = None, func' \notin done, func' # 0
    PROVE  StaticsOk'
<1>1. \A i \in DOMAIN ents : ents[i].func # func'
  BY DEF EntsOk, EntityOk
<1>2. \A n : InFunction("static", n)' = {}
  BY <1>1 DEF InFunction, EverSame, Keeps, Ever
<1> QED
  BY <1>2, NoneIs DEF StaticsOk

(* It is right after a static.                                             *)
LEMMA StaticsAdd ==
    ASSUME StaticsOk, NEW e, Grows(e), e.kind = "static", e.func = func, UNCHANGED func,
           statics' = Put(statics, e.name, FuncName(e.name))
    PROVE  StaticsOk'
<1>1. \A n : FuncName(n)' = FuncName(n)
  BY DEF FuncName
<1>2. /\ DOMAIN statics' = DOMAIN statics \cup {e.name}
      /\ statics'[e.name] = FuncName(e.name)
      /\ \A n \in DOMAIN statics : n # e.name => statics'[n] = statics[n]
  BY DEF Put
<1>3. Keeps
  BY KeepsThem
<1>4. ASSUME NEW n \in Names PROVE n \in DOMAIN statics' <=> InFunction("static", n)' # {}
  <2>1. n \in DOMAIN statics <=> InFunction("static", n) # {}
    BY DEF StaticsOk
  <2>2. CASE n = e.name
    <3>1. NewId \in Ever("static", n)'
      BY <2>2, EverGrows
    <3>2. ents'[NewId].func = func'
      BY DEF Grows
    <3>3. NewId \in InFunction("static", n)'
      BY <3>1, <3>2 DEF InFunction
    <3> QED
      BY <1>2, <2>2, <3>3
  <2>3. CASE n # e.name
    <3>1. Ever("static", n)' = Ever("static", n)
      BY <2>3, EverGrows
    <3>2. InFunction("static", n)' = InFunction("static", n)
      BY <1>3, <3>1 DEF InFunction, Keeps, Ever
    <3> QED
      BY <1>2, <2>1, <2>3, <3>2
  <2> QED
    BY <2>2, <2>3
<1>5. ASSUME NEW n \in Names, n \in DOMAIN statics' PROVE statics'[n] = FuncName(n)'
  BY <1>1, <1>2, <1>5 DEF StaticsOk
<1> QED
  BY <1>4, <1>5 DEF StaticsOk

-----------------------------------------------------------------------------
(* The constants.                                                          *)

(* constexpr_vars is right if no constant is declared.                     *)
LEMMA ConstsStay ==
    ASSUME ConstsOk, UNCHANGED consts,
           UNCHANGED ents \/ \E e : Grows(e) /\ e.kind # "constexpr"
    PROVE  ConstsOk'
<1>1. \A u : Constants(u)' = Constants(u)
  BY DEF Constants, Grows
<1>2. \A i \in DOMAIN ents' : ents'[i].kind = "constexpr" => i \in DOMAIN ents /\ ents'[i] = ents[i]
  BY DEF Grows
<1> QED
  BY <1>1, <1>2 DEF ConstsOk

(* It is right after a constant, which replaces one of its place.          *)
LEMMA ConstsAdd ==
    ASSUME ConstsOk, NEW e, Grows(e), e.kind = "constexpr", consts' = Put(consts, e.place, NewId)
    PROVE  ConstsOk'
<1>1. /\ DOMAIN consts' = DOMAIN consts \cup {e.place}
      /\ consts'[e.place] = NewId
      /\ \A u \in DOMAIN consts : u # e.place => consts'[u] = consts[u]
  BY DEF Put
<1>2. ASSUME NEW u, u # e.place PROVE Constants(u)' = Constants(u)
  BY <1>2 DEF Constants, Grows
<1>3. Constants(e.place)' = Constants(e.place) \cup {NewId}
  <2>1. PICK u : u = e.place
    OBVIOUS
  <2>2. Constants(u)' = Constants(u) \cup {NewId}
    BY <2>1 DEF Constants, Grows
  <2> QED
    BY <2>1, <2>2 DEF Constants
<1>4. ASSUME NEW i \in DOMAIN ents', ents'[i].kind = "constexpr"
      PROVE  ents'[i].place \in DOMAIN consts'
  BY <1>1, <1>4 DEF ConstsOk, Grows
<1>5. ASSUME NEW u \in DOMAIN consts' PROVE Latest(consts'[u], Constants(u)')
  <2>1. CASE u = e.place
    <3>1. Constants(u) \subseteq Nat /\ \A i \in Constants(u) : i < NewId
      BY DEF Constants, Grows
    <3>2. NewId \in Nat
      BY DEF Grows
    <3>3. PICK x : x = NewId
      OBVIOUS
    <3>4. Latest(x, Constants(u) \cup {x})
      BY <3>1, <3>2, <3>3, LatestAdded
    <3>5. Constants(u)' = Constants(u) \cup {x}
      BY <1>3, <2>1, <3>3 DEF Constants
    <3> QED
      BY <1>1, <2>1, <3>3, <3>4, <3>5
  <2>2. CASE u # e.place
    BY <1>1, <1>2, <2>2 DEF ConstsOk
  <2> QED
    BY <2>1, <2>2
<1>6. (\A u \in DOMAIN consts : Latest(consts[u], Constants(u)))'
  BY <1>5
<1> QED
  BY <1>4, <1>6 DEF ConstsOk

-----------------------------------------------------------------------------
(* Enumerators.                                                            *)

(* global_enums is right if no enumerator is declared.                     *)
LEMMA EnumsStay ==
    ASSUME EnumsOk, EverSame("enum"), UNCHANGED enums
    PROVE  EnumsOk'
BY DEF EnumsOk, EverSame

(* It is right after an enumerator, which replaces one of its name.        *)
LEMMA EnumsAdd ==
    ASSUME EnumsOk, NEW e, Grows(e), e.kind = "enum", enums' = Put(enums, e.name, NewId)
    PROVE  EnumsOk'
<1>1. /\ DOMAIN enums' = DOMAIN enums \cup {e.name}
      /\ enums'[e.name] = NewId
      /\ \A n \in DOMAIN enums : n # e.name => enums'[n] = enums[n]
  BY DEF Put
<1>2. ASSUME NEW n \in Names
      PROVE  /\ n \in DOMAIN enums' <=> Ever("enum", n)' # {}
             /\ n \in DOMAIN enums' => Latest(enums'[n], Ever("enum", n)')
  <2>1. CASE n = e.name
    <3>1. /\ Ever("enum", n) \subseteq Nat /\ \A i \in Ever("enum", n) : i < NewId
          /\ Ever("enum", n)' = Ever("enum", n) \cup {NewId}
      BY <2>1, EverGrows
    <3>2. NewId \in Nat
      BY DEF Grows
    <3>3. Latest(NewId, Ever("enum", n)')
      BY <3>1, <3>2, LatestAdded
    <3> QED
      BY <1>1, <2>1, <3>1, <3>3
  <2>2. CASE n # e.name
    <3>1. Ever("enum", n)' = Ever("enum", n)
      BY <2>2, EverGrows
    <3> QED
      BY <1>1, <2>2, <3>1 DEF EnumsOk
  <2> QED
    BY <2>1, <2>2
<1> QED
  BY <1>2 DEF EnumsOk

-----------------------------------------------------------------------------
(* Type names.                                                             *)

(* global_typedefs is right if no type name is declared.                   *)
LEMMA TypeNamesStay ==
    ASSUME TypeNamesOk, EverSame("type"), FileKept({"type"}), UNCHANGED <<typedefs, typesizes>>
    PROVE  TypeNamesOk'
BY DEF TypeNamesOk, EverSame, FileKept

(* It is right after one.                                                  *)
LEMMA TypeNamesAdd ==
    ASSUME TypeNamesOk, EnvOk, NEW e, Grows(e), Adds(e), e.kind = "type",
           typedefs' = typedefs \cup {e.name},
           typesizes' = IF AtFile THEN Put(typesizes, e.name, e.ty) ELSE typesizes
    PROVE  TypeNamesOk'
<1>1. ASSUME NEW n \in Names PROVE n \in typedefs' <=> Ever("type", n)' # {}
  <2>1. n \in typedefs <=> Ever("type", n) # {}
    BY DEF TypeNamesOk
  <2> QED
    BY <2>1, EverGrows
<1>2. CASE ~AtFile
  <2>1. FileKept({"type"})
    BY <1>2, FileKeptIf
  <2> QED
    BY <1>1, <1>2, <2>1 DEF TypeNamesOk, FileKept
<1>3. CASE AtFile
  <2>1. Top = 1 /\ Len(env) = 1
    BY <1>3, TopIs
  <2>2. PICK m : m = env[1].ids
    OBVIOUS
  <2>3. PICK p : p = env'[1].ids
    OBVIOUS
  <2>4. /\ DOMAIN p = DOMAIN m \cup {e.name} /\ p[e.name] = e
        /\ \A n \in DOMAIN m : p[n] = m[n]
        /\ e.name \notin DOMAIN m
    BY <2>1, <2>2, <2>3 DEF Adds, Free
  <2>5. /\ DOMAIN typesizes' = DOMAIN typesizes \cup {e.name}
        /\ typesizes'[e.name] = e.ty
        /\ \A n \in DOMAIN typesizes : n # e.name => typesizes'[n] = typesizes[n]
    BY <1>3 DEF Put
  <2>6. \A n \in Names : /\ n \in DOMAIN typesizes <=> n \in DOMAIN m /\ m[n].kind \in {"type"}
                         /\ n \in DOMAIN typesizes => typesizes[n] = m[n].ty
    BY <2>2 DEF TypeNamesOk, AtFileIs
  <2>7. \A n \in Names : /\ n \in DOMAIN typesizes' <=> n \in DOMAIN p /\ p[n].kind \in {"type"}
                         /\ n \in DOMAIN typesizes' => typesizes'[n] = p[n].ty
    BY <2>4, <2>5, <2>6
  <2> QED
    BY <1>1, <2>3, <2>7 DEF TypeNamesOk, AtFileIs
<1> QED
  BY <1>2, <1>3

-----------------------------------------------------------------------------
(* Tags.                                                                   *)

(* global_structs is right if no structure is defined.                     *)
LEMMA TagsStay ==
    ASSUME TagsOk, EverSame("struct"), UNCHANGED <<unit, structs>>, Len(env) = Top,
           \A i \in 1 .. Len(env') :
              \/ i \in 1 .. Top /\ env'[i].tags = env[i].tags
              \/ DOMAIN env'[i].tags = {}
    PROVE  TagsOk'
<1>1. ASSUME NEW i \in 1 .. Len(env'), NEW t \in DOMAIN env'[i].tags
      PROVE  t \in DOMAIN unit.bodies /\ env'[i].tags[t].id \in Ever("struct", t)
  <2>1. i \in 1 .. Len(env) /\ env'[i].tags = env[i].tags
    OBVIOUS
  <2> QED
    BY <2>1 DEF TagsOk
<1> QED
  BY <1>1 DEF TagsOk, EverSame

(* It is right after a definition, which replaces one of its tag.          *)
LEMMA TagsAdd ==
    ASSUME TagsOk, EnvOk, NEW e, Grows(e), NEW t \in DOMAIN unit.bodies, NEW l,
           e.kind = "struct", e.name = t, AddsTag(t), UNCHANGED unit,
           structs' = Put(structs, t, Put(l, "id", NewId))
    PROVE  TagsOk'
<1>1. PICK x : x = Put(l, "id", NewId)
  OBVIOUS
<1>2. x.id = NewId
  BY <1>1 DEF Put
<1>3. /\ DOMAIN structs' = DOMAIN structs \cup {t}
      /\ structs'[t] = x
      /\ \A u \in DOMAIN structs : u # t => structs'[u] = structs[u]
  BY <1>1 DEF Put
<1>4. /\ Ever("struct", t) \subseteq Nat /\ \A i \in Ever("struct", t) : i < NewId
      /\ Ever("struct", t)' = Ever("struct", t) \cup {NewId}
  BY EverGrows
<1>5. NewId \in Nat
  BY DEF Grows
<1>6. Latest(NewId, Ever("struct", t)')
  BY <1>4, <1>5, LatestAdded
<1>7. \A u : u # t => Ever("struct", u)' = Ever("struct", u)
  BY EverGrows
<1>8. ASSUME NEW u \in DOMAIN unit.bodies
      PROVE  /\ u \in DOMAIN structs' <=> Ever("struct", u)' # {}
             /\ u \in DOMAIN structs' => Latest(structs'[u].id, Ever("struct", u)')
  <2>1. CASE u = t
    BY <1>2, <1>3, <1>4, <1>6, <2>1
  <2>2. CASE u # t
    BY <1>3, <1>7, <2>2 DEF TagsOk
  <2> QED
    BY <2>1, <2>2
<1>9. ASSUME NEW i \in 1 .. Len(env'), NEW u \in DOMAIN env'[i].tags
      PROVE  u \in DOMAIN unit.bodies /\ env'[i].tags[u].id \in Ever("struct", u)'
  <2>1. i \in 1 .. Len(env) /\ Len(env) = Top
    BY TopIs DEF AddsTag
  <2>2. CASE i = Top /\ u = t
    BY <1>4, <2>2 DEF AddsTag
  <2>3. CASE ~(i = Top /\ u = t)
    <3>1. u \in DOMAIN env[i].tags /\ env'[i].tags[u] = env[i].tags[u]
      BY <2>1, <2>3 DEF AddsTag
    <3>2. u \in DOMAIN unit.bodies /\ env[i].tags[u].id \in Ever("struct", u)
      BY <2>1, <3>1 DEF TagsOk
    <3> QED
      BY <1>4, <1>7, <3>1, <3>2
  <2> QED
    BY <2>2, <2>3
<1> QED
  BY <1>8, <1>9 DEF TagsOk

-----------------------------------------------------------------------------
(* The types of variables.                                                 *)

(* The names that the parser gives to variables differ.                    *)
LEMMA PlacesDiffer ==
    ASSUME Counts, EntsOk, NEW i \in DOMAIN ents
    PROVE  /\ ents[i].kind = "auto" =>
                /\ \A n : ents[i].place # FileName(n)
                /\ \A n, f : ents[i].place # <<"func", n, f>>
                /\ \A w, n : ents[i].place # <<w, n, counter>>
           /\ ents[i].kind # "auto" =>
                /\ \A n, c : ents[i].place # <<"auto", n, c>> /\ ents[i].place # <<"param", n, c>>
                /\ ents[i].place = PlaceOf(ents[i])
<1>1. EntityOk(i, ents[i])
  BY DEF EntsOk
<1>2. CASE ents[i].kind = "auto"
  <2>1. Drawn(ents[i])
    BY <1>1, <1>2 DEF EntityOk
  <2>2. PICK c \in Nat, v \in {"auto", "param"} :
          c < counter /\ ents[i].place = <<v, ents[i].name, c>>
    BY <2>1 DEF Drawn
  <2>3. ents[i].place[1] = v /\ ents[i].place[3] = c
    BY <2>2
  <2>4. v # "file" /\ v # "func"
    OBVIOUS
  <2>5. c # counter
    BY <2>2 DEF Counts
  <2>6. \A n : FileName(n)[1] = "file"
    BY DEF FileName
  <2>7. \A n, f : <<"func", n, f>>[1] = "func"
    OBVIOUS
  <2>8. \A w, n : <<w, n, counter>>[3] = counter
    OBVIOUS
  <2>9. \A n : ents[i].place # FileName(n)
    BY <2>3, <2>4, <2>6
  <2>10. \A n, f : ents[i].place # <<"func", n, f>>
    BY <2>3, <2>4, <2>7
  <2>11. \A w, n : ents[i].place # <<w, n, counter>>
    BY <2>3, <2>5, <2>8
  <2> QED
    BY <1>2, <2>9, <2>10, <2>11
<1>3. CASE ents[i].kind # "auto"
  <2>1. ents[i].place = PlaceOf(ents[i])
    BY <1>1, <1>3 DEF EntityOk
  <2>2. ents[i].place[1] = "func" \/ ents[i].place[1] = "file"
    BY <2>1 DEF PlaceOf, FileName
  <2>3. \A n, c : <<"auto", n, c>>[1] = "auto" /\ <<"param", n, c>>[1] = "param"
    OBVIOUS
  <2>4. \A n, c : ents[i].place # <<"auto", n, c>> /\ ents[i].place # <<"param", n, c>>
    BY <2>2, <2>3
  <2> QED
    BY <1>3, <2>1, <2>4
<1> QED
  BY <1>2, <1>3

(* What constexpr_vars has under a name is a constant of that name.        *)
LEMMA ConstantIs ==
    ASSUME ConstsOk, EntsOk, FileOk, NEW u \in DOMAIN consts
    PROVE  /\ consts[u] \in DOMAIN ents /\ ents[consts[u]].kind = "constexpr"
           /\ ents[consts[u]].place = u
           /\ \A n : u = FileName(n) => n \in DOMAIN env[1].ids /\ env[1].ids[n] = ents[consts[u]]
           /\ \A n, f : u = <<"func", n, f>> =>
                ents[consts[u]].name = n /\ ents[consts[u]].func = f /\ f # 0
<1>1. PICK i : i = consts[u]
  OBVIOUS
<1>2. i \in DOMAIN ents /\ ents[i].kind = "constexpr" /\ ents[i].place = u
  BY <1>1 DEF ConstsOk, Latest, Constants
<1>3. EntityOk(i, ents[i])
  BY <1>2 DEF EntsOk
<1>4. u = PlaceOf(ents[i])
  BY <1>2, <1>3 DEF EntityOk
<1>5. CASE ents[i].func = 0
  <2>1. u = FileName(ents[i].name)
    BY <1>2, <1>4, <1>5 DEF PlaceOf
  <2>2. ents[i].name \in DOMAIN env[1].ids /\ env[1].ids[ents[i].name] = ents[i]
    BY <1>2, <1>5 DEF FileOk
  <2>3. \A n : u = FileName(n) => n = ents[i].name
    BY <2>1 DEF FileName
  <2>4. \A n, f : u # <<"func", n, f>>
    BY <2>1 DEF FileName
  <2> QED
    BY <1>1, <1>2, <2>2, <2>3, <2>4
<1>6. CASE ents[i].func # 0
  <2>1. u = <<"func", ents[i].name, ents[i].func>>
    BY <1>2, <1>4, <1>6 DEF PlaceOf
  <2>2. \A n : u # FileName(n)
    BY <2>1 DEF FileName
  <2>3. \A n, f : u = <<"func", n, f>> => ents[i].name = n /\ ents[i].func = f
    BY <2>1
  <2> QED
    BY <1>1, <1>2, <1>6, <2>2, <2>3
<1> QED
  BY <1>5, <1>6

AutosKept == \A i \in Autos' : i \in Autos /\ ents'[i] = ents[i]

(* No declaration adds an automatic variable but its own.                  *)
LEMMA AutosKeptIf ==
    /\ UNCHANGED ents => AutosKept
    /\ \A e : Grows(e) /\ e.kind # "auto" => AutosKept
<1>1. ASSUME UNCHANGED ents PROVE AutosKept
  BY <1>1 DEF AutosKept, Autos
<1>2. ASSUME NEW e, Grows(e), e.kind # "auto" PROVE AutosKept
  BY <1>2 DEF AutosKept, Autos, Grows
<1> QED
  BY <1>1, <1>2

(* The types recorded are right if nothing typed is declared.              *)
LEMMA TypesStay ==
    ASSUME TypesOk, ConstsOk, AutosKept, Keeps, FileKept(FileTyped), UNCHANGED <<types, consts>>
    PROVE  TypesOk'
<1>1. \A i \in Autos' : ents'[i].place \in DOMAIN types /\ types[ents'[i].place] = ents'[i].ty
  BY DEF TypesOk, AutosKept
<1>2. \A u \in DOMAIN consts : consts[u] \in DOMAIN ents
  BY DEF ConstsOk, Latest, Constants
<1>3. \A u \in DOMAIN consts : u \in DOMAIN types /\ types[u] = ents'[consts[u]].ty
  BY <1>2 DEF TypesOk, Keeps
<1>4. \A n \in Names :
        /\ FileName(n) \in DOMAIN types <=> AtFileIs(n, FileTyped)'
        /\ FileName(n) \in DOMAIN types => types[FileName(n)] = env'[1].ids[n].ty
  BY DEF TypesOk, FileKept
<1>5. \A u \in DOMAIN types : u[1] = "func" => u \in DOMAIN consts
  BY DEF TypesOk
<1> QED
  BY <1>1, <1>3, <1>4, <1>5 DEF TypesOk

(* The type ty of the variable u is recorded, and of no other.             *)
Retyped(u, ty) ==
    /\ types' = Put(types, u, ty)
    /\ \A i \in Autos' :
          \/ i \in Autos /\ ents'[i] = ents[i] /\ ents[i].place # u
          \/ ents'[i].place = u /\ ents'[i].ty = ty
    /\ \A v \in DOMAIN consts' :
          \/ /\ v \in DOMAIN consts /\ consts'[v] = consts[v] /\ v # u
             /\ ents'[consts[v]] = ents[consts[v]]
          \/ v = u /\ ents'[consts'[v]].ty = ty
    /\ u[1] = "func" => u \in DOMAIN consts'
    /\ DOMAIN consts \subseteq DOMAIN consts'
    /\ \A n \in Names :
          IF FileName(n) = u
          THEN AtFileIs(n, FileTyped)' /\ env'[1].ids[n].ty = ty
          ELSE /\ AtFileIs(n, FileTyped)' <=> AtFileIs(n, FileTyped)
               /\ AtFileIs(n, FileTyped) => env'[1].ids[n].ty = env[1].ids[n].ty

(* They are right after one more is recorded.                              *)
LEMMA TypesPut ==
    ASSUME TypesOk, NEW u, NEW ty, Retyped(u, ty)
    PROVE  TypesOk'
<1>1. /\ DOMAIN types' = DOMAIN types \cup {u}
      /\ types'[u] = ty
      /\ \A v \in DOMAIN types : v # u => types'[v] = types[v]
  BY DEF Put, Retyped
<1>2. \A i \in Autos' : ents'[i].place \in DOMAIN types' /\ types'[ents'[i].place] = ents'[i].ty
  BY <1>1 DEF TypesOk, Retyped
<1>3. \A v \in DOMAIN consts' : v \in DOMAIN types' /\ types'[v] = ents'[consts'[v]].ty
  BY <1>1 DEF TypesOk, Retyped
<1>4. ASSUME NEW n \in Names
      PROVE  /\ FileName(n) \in DOMAIN types' <=> AtFileIs(n, FileTyped)'
             /\ FileName(n) \in DOMAIN types' => types'[FileName(n)] = env'[1].ids[n].ty
  <2>1. /\ FileName(n) \in DOMAIN types <=> AtFileIs(n, FileTyped)
        /\ FileName(n) \in DOMAIN types => types[FileName(n)] = env[1].ids[n].ty
    BY DEF TypesOk
  <2>2. CASE FileName(n) = u
    BY <1>1, <2>2 DEF Retyped
  <2>3. CASE FileName(n) # u
    BY <1>1, <2>1, <2>3 DEF Retyped
  <2> QED
    BY <2>2, <2>3
<1>5. \A v \in DOMAIN types' : v[1] = "func" => v \in DOMAIN consts'
  BY <1>1 DEF TypesOk, Retyped
<1> QED
  BY <1>2, <1>3, <1>4, <1>5 DEF TypesOk

(* That of an automatic variable, or of a parameter of a prototype.        *)
LEMMA TypesPutAuto ==
    ASSUME Counts, EntsOk, ConstsOk, TypesOk, FileOk, FileKept(FileTyped), UNCHANGED consts, Keeps,
           NEW w \in {"auto", "param"}, NEW n, NEW ty,
           types' = Put(types, <<w, n, counter>>, ty),
           \/ AutosKept
           \/ \E e : Grows(e) /\ e.ty = ty /\ e.place = <<w, n, counter>>
    PROVE  TypesOk'
<1>1. PICK u : u = <<w, n, counter>>
  OBVIOUS
<1>2. u[1] = w /\ w # "func" /\ \A m : FileName(m) # u
  BY <1>1 DEF FileName
<1>3. \A i \in Autos : i \in DOMAIN ents /\ ents[i].place # u
  BY <1>1, PlacesDiffer DEF Autos
<1>4. \A i \in Autos' :
        \/ i \in Autos /\ ents'[i] = ents[i] /\ ents[i].place # u
        \/ ents'[i].place = u /\ ents'[i].ty = ty
  <2>1. CASE AutosKept
    BY <1>3, <2>1 DEF AutosKept
  <2>2. ASSUME NEW e, Grows(e), e.ty = ty, e.place = u
        PROVE  \A i \in Autos' :
                 \/ i \in Autos /\ ents'[i] = ents[i] /\ ents[i].place # u
                 \/ ents'[i].place = u /\ ents'[i].ty = ty
    <3> TAKE i \in Autos'
    <3>1. CASE i = NewId
      BY <2>2, <3>1 DEF Grows
    <3>2. CASE i # NewId
      <4>1. i \in DOMAIN ents /\ ents'[i] = ents[i] /\ i \in Autos
        BY <2>2, <3>2 DEF Grows, Autos
      <4> QED
        BY <1>3, <4>1
    <3> QED
      BY <3>1, <3>2
  <2> QED
    BY <1>1, <2>1, <2>2
<1>5. \A v \in DOMAIN consts' :
        \/ /\ v \in DOMAIN consts /\ consts'[v] = consts[v] /\ v # u
           /\ ents'[consts[v]] = ents[consts[v]]
        \/ v = u /\ ents'[consts'[v]].ty = ty
  <2> TAKE v \in DOMAIN consts'
  <2>1. v \in DOMAIN consts /\ consts'[v] = consts[v]
    OBVIOUS
  <2>2. /\ consts[v] \in DOMAIN ents /\ ents[consts[v]].kind = "constexpr"
        /\ ents[consts[v]].place = v
    BY <2>1, ConstantIs
  <2>3. v # u
    BY <1>1, <2>2, PlacesDiffer
  <2> QED
    BY <2>1, <2>2, <2>3 DEF Keeps
<1>6. \A m \in Names :
        IF FileName(m) = u
        THEN AtFileIs(m, FileTyped)' /\ env'[1].ids[m].ty = ty
        ELSE /\ AtFileIs(m, FileTyped)' <=> AtFileIs(m, FileTyped)
             /\ AtFileIs(m, FileTyped) => env'[1].ids[m].ty = env[1].ids[m].ty
  BY <1>2 DEF FileKept
<1>7. types' = Put(types, u, ty)
  BY <1>1
<1>8. u[1] = "func" => u \in DOMAIN consts'
  BY <1>2
<1>9. DOMAIN consts \subseteq DOMAIN consts'
  OBVIOUS
<1>10. Retyped(u, ty)
  BY <1>4, <1>5, <1>6, <1>7, <1>8, <1>9 DEF Retyped
<1> QED
  BY <1>10, TypesPut

-----------------------------------------------------------------------------
(* The declaration of e in the innermost scope, and what every such one    *)
(* leaves true.                                                            *)

Declaration(e) ==
    /\ Grows(e) /\ Adds(e)
    /\ e.name \in Names /\ e.kind \in Kinds \ {"struct"}
    /\ e.func = IF AtFile THEN 0 ELSE func
    /\ e.kind \in {"auto", "static"} => ~AtFile
    /\ e.kind = "enum" => e.ty = "int"
    /\ IF e.kind = "auto" THEN e.place = <<"auto", e.name, counter>> /\ counter' = counter + 1
       ELSE e.place = PlaceOf(e) /\ counter' = counter
    /\ e.kind = "global" => \A i \in Linked(e.name) : ents[i].ty = e.ty
    /\ AtFile /\ e.kind # "global" => Linked(e.name) = {}
    /\ ~AtFile /\ e.kind = "global" =>
          (e.name \in DOMAIN env[1].ids => env[1].ids[e.name].kind = "global")
    /\ scopes' = IF e.kind \in Kept /\ ~AtFile THEN InTop(e.name, e.place) ELSE scopes
    /\ UNCHANGED <<unit, func, done, blocks>>

(* The entities and scopes are right after any declaration.                *)
LEMMA DeclarationBased ==
    ASSUME Based, NEW e, Declaration(e)
    PROVE  Based'
<1>1. Counts /\ EntsOk /\ EnvOk /\ ScopesOk /\ BlocksOk /\ FileOk
  BY DEF Based
<1>2. Grows(e) /\ Adds(e) /\ e.name \in Names /\ e.kind \in Kinds /\ e.kind # "struct"
  BY DEF Declaration
<1>3. UNCHANGED <<unit, func, done, blocks>>
  BY DEF Declaration
<1>4. e.func = IF AtFile THEN 0 ELSE func
  BY DEF Declaration
<1>5. counter' \in Nat /\ counter <= counter'
  BY <1>1 DEF Declaration, Counts
<1>6. IsSeq(scopes') /\ Len(scopes') = Len(scopes) /\ ScopesOk'
  <2>1. CASE e.kind \in Kept /\ ~AtFile
    <3>1. scopes' = InTop(e.name, e.place)
      BY <2>1 DEF Declaration
    <3> QED
      BY <1>1, <1>2, <2>1, <3>1, ScopesAddsOne
  <2>2. CASE ~(e.kind \in Kept /\ ~AtFile)
    <3>1. UNCHANGED scopes
      BY <2>2 DEF Declaration
    <3>2. IsSeq(scopes)
      BY <1>1 DEF EnvOk
    <3> QED
      BY <1>1, <1>2, <2>2, <3>1, <3>2, ScopesAddsNone
  <2> QED
    BY <2>1, <2>2
<1>7. AtFile' <=> AtFile
  BY <1>1, <1>6, SeqIs DEF EnvOk, AtFile
<1>8. Counts'
  BY <1>1, <1>3, <1>5, <1>7 DEF Counts
<1>9. e.func = 0 <=> AtFile
  BY <1>1, <1>4 DEF Counts
<1>10. EntsOk'
  <2>1. e.id = NewId
    BY <1>2 DEF Grows
  <2>2. e.kind = "auto" => e.place = <<"auto", e.name, counter>> /\ counter' = counter + 1
    BY DEF Declaration
  <2>3. e.kind # "auto" => e.place = PlaceOf(e)
    BY DEF Declaration
  <2>4. e.kind = "auto" => Drawn(e)'
    BY <1>1, <2>2 DEF Drawn, Counts
  <2>5. e.func = 0 \/ e.func \in done'
    BY <1>1, <1>3, <1>4 DEF Counts
  <2>6. e.kind \in {"auto", "static"} => e.func # 0
    BY <1>9 DEF Declaration
  <2>7. e.kind = "enum" => e.ty = "int"
    BY DEF Declaration
  <2>8. EntityOk(e.id, e)'
    BY <1>2, <2>3, <2>4, <2>5, <2>6, <2>7 DEF EntityOk
  <2>9. e.kind = "auto" => \E w \in {"auto", "param"} : e.place = <<w, e.name, counter>>
    BY <2>2
  <2>10. done \subseteq done'
    BY <1>3
  <2> QED
    BY <1>1, <1>2, <1>5, <2>8, <2>9, <2>10, EntsGrow
<1>11. EnvOk'
  BY <1>1, <1>2, <1>3, <1>4, <1>6, EnvAdds
<1>12. BlocksOk'
  BY <1>1, <1>3, <1>6, BlocksStay
<1>13. FileOk'
  <2>1. e.kind = "global" => \A i \in Linked(e.name) : ents[i].ty = e.ty
    BY DEF Declaration
  <2>2. AtFile /\ e.kind # "global" => Linked(e.name) = {}
    BY DEF Declaration
  <2>3. ~AtFile /\ e.kind = "global" =>
          (e.name \in DOMAIN env[1].ids => env[1].ids[e.name].kind = "global")
    BY DEF Declaration
  <2> QED
    BY <1>1, <1>2, <1>9, <2>1, <2>2, <2>3, FileAdds
<1> QED
  BY <1>6, <1>8, <1>10, <1>11, <1>12, <1>13 DEF Based

(* What it leaves of the maps that have no such entity.                    *)
LEMMA DeclarationMaps ==
    ASSUME Based, MapsOk, NEW e, Declaration(e)
    PROVE  /\ e.kind # "static" /\ UNCHANGED statics => StaticsOk'
           /\ e.kind # "constexpr" /\ UNCHANGED consts => ConstsOk'
           /\ e.kind # "enum" /\ UNCHANGED enums => EnumsOk'
           /\ e.kind # "type" /\ UNCHANGED <<typedefs, typesizes>> => TypeNamesOk'
           /\ UNCHANGED structs => TagsOk'
           /\ /\ e.kind \notin Kept /\ (AtFile => e.kind \notin FileTyped)
              /\ UNCHANGED <<types, consts>>
              => TypesOk'
<1>1. EnvOk /\ Grows(e) /\ Adds(e) /\ Keeps /\ UNCHANGED <<unit, func>>
  BY KeepsThem DEF Based, Declaration
<1>2. StaticsOk /\ ConstsOk /\ EnumsOk /\ TypeNamesOk /\ TagsOk /\ TypesOk
  BY DEF MapsOk
<1>3. ASSUME e.kind # "static", UNCHANGED statics PROVE StaticsOk'
  <2>1. EverSame("static")
    BY <1>1, <1>3, OtherKinds
  <2> QED
    BY <1>1, <1>2, <1>3, <2>1, StaticsStay
<1>4. ASSUME e.kind # "constexpr", UNCHANGED consts PROVE ConstsOk'
  BY <1>1, <1>2, <1>4, ConstsStay
<1>5. ASSUME e.kind # "enum", UNCHANGED enums PROVE EnumsOk'
  <2>1. EverSame("enum")
    BY <1>1, <1>5, OtherKinds
  <2> QED
    BY <1>2, <1>5, <2>1, EnumsStay
<1>6. ASSUME e.kind # "type", UNCHANGED <<typedefs, typesizes>> PROVE TypeNamesOk'
  <2>1. EverSame("type")
    BY <1>1, <1>6, OtherKinds
  <2>2. e.kind \notin {"type"}
    BY <1>6
  <2>3. FileKept({"type"})
    BY <1>1, <2>2, FileKeptIf
  <2> QED
    BY <1>2, <1>6, <2>1, <2>3, TypeNamesStay
<1>7. ASSUME UNCHANGED structs PROVE TagsOk'
  <2>1. e.kind # "struct"
    BY DEF Declaration
  <2>2. EverSame("struct")
    BY <1>1, <2>1, OtherKinds
  <2>3. Len(env) = Top /\ Len(env') = Top
    BY <1>1, TopIs DEF Adds
  <2>4. \A i \in 1 .. Len(env') :
          \/ i \in 1 .. Top /\ env'[i].tags = env[i].tags
          \/ DOMAIN env'[i].tags = {}
    BY <1>1, <2>3 DEF Adds
  <2> QED
    BY <1>1, <1>2, <1>7, <2>2, <2>3, <2>4, TagsStay
<1>8. ASSUME e.kind \notin Kept, AtFile => e.kind \notin FileTyped, UNCHANGED <<types, consts>>
      PROVE  TypesOk'
  <2>1. AutosKept
    BY <1>1, <1>8, AutosKeptIf DEF Kept
  <2>2. FileKept(FileTyped)
    BY <1>1, <1>8, FileKeptIf
  <2> QED
    BY <1>1, <1>2, <1>8, <2>1, <2>2, TypesStay
<1> QED
  BY <1>3, <1>4, <1>5, <1>6, <1>7, <1>8

-----------------------------------------------------------------------------
(* Declarations at file scope.                                             *)

(* The fields of an entity.                                                *)
LEMMA EntityIs ==
    ASSUME NEW kind, NEW n, NEW ty, NEW place, NEW e, e = Entity(kind, n, ty, place)
    PROVE  /\ e.id = NewId /\ e.kind = kind /\ e.name = n /\ e.ty = ty /\ e.place = place
           /\ e.func = IF AtFile THEN 0 ELSE func
BY DEF Entity, EntityOf

(* global_decl keeps the invariant: a variable.                            *)
LEMMA FileVarStep ==
    ASSUME Based, MapsOk, NEW n \in Names, NEW ty \in Types, FileVar(n, ty)
    PROVE  Based' /\ MapsOk'
<1>1. PICK e : e = Entity("global", n, ty, FileName(n))
  OBVIOUS
<1>2. /\ e.id = NewId /\ e.kind = "global" /\ e.name = n /\ e.ty = ty /\ e.place = FileName(n)
      /\ e.func = IF AtFile THEN 0 ELSE func
  BY <1>1, EntityIs
<1>3. /\ AtFile /\ Free(n) /\ Declared(e) /\ \A i \in Linked(n) : ents[i].ty = ty
      /\ types' = Put(types, FileName(n), ty)
      /\ UNCHANGED <<unit, scopes, statics, func, counter, consts, enums, typedefs, typesizes,
                     structs, blocks, done>>
  BY <1>1 DEF FileVar
<1>4. Grows(e) /\ Adds(e)
  BY <1>2, <1>3, DeclaredAdds DEF Based
<1>5. Declaration(e)
  BY <1>2, <1>3, <1>4 DEF Declaration, PlaceOf, Kinds, Kept
<1>6. Counts /\ EntsOk /\ EnvOk /\ FileOk /\ ConstsOk /\ TypesOk
  BY DEF Based, MapsOk
<1>7. TypesOk'
  <2>1. PICK u : u = FileName(n)
    OBVIOUS
  <2>2. u[1] = "file" /\ \A m : FileName(m) = u <=> m = n
    BY <2>1 DEF FileName
  <2>3. Top = 1
    BY <1>3, <1>6, TopIs
  <2>4. AutosKept /\ Keeps
    BY <1>2, <1>4, AutosKeptIf, KeepsThem
  <2>5. \A i \in Autos' :
          \/ i \in Autos /\ ents'[i] = ents[i] /\ ents[i].place # u
          \/ ents'[i].place = u /\ ents'[i].ty = ty
    BY <1>6, <2>1, <2>4, PlacesDiffer DEF AutosKept, Autos
  <2>6. \A v \in DOMAIN consts' :
          \/ /\ v \in DOMAIN consts /\ consts'[v] = consts[v] /\ v # u
             /\ ents'[consts[v]] = ents[consts[v]]
          \/ v = u /\ ents'[consts'[v]].ty = ty
    <3> TAKE v \in DOMAIN consts'
    <3>1. v \in DOMAIN consts /\ consts'[v] = consts[v]
      BY <1>3
    <3>2. consts[v] \in DOMAIN ents /\ \A m : v = FileName(m) => m \in DOMAIN env[1].ids
      BY <1>6, <3>1, ConstantIs
    <3>3. n \notin DOMAIN env[1].ids
      BY <1>3, <2>3 DEF Free
    <3> QED
      BY <2>1, <2>4, <3>1, <3>2, <3>3 DEF Keeps
  <2>7. \A m \in Names :
          IF FileName(m) = u
          THEN AtFileIs(m, FileTyped)' /\ env'[1].ids[m].ty = ty
          ELSE /\ AtFileIs(m, FileTyped)' <=> AtFileIs(m, FileTyped)
               /\ AtFileIs(m, FileTyped) => env'[1].ids[m].ty = env[1].ids[m].ty
    <3>1. PICK d : d = env[1].ids
      OBVIOUS
    <3>2. PICK p : p = env'[1].ids
      OBVIOUS
    <3>3. /\ DOMAIN p = DOMAIN d \cup {n} /\ p[n] = e
          /\ \A m \in DOMAIN d : p[m] = d[m]
          /\ n \notin DOMAIN d
      BY <1>2, <1>4, <2>3, <3>1, <3>2 DEF Adds, Free
    <3>4. \A m : IF m = n
                 THEN m \in DOMAIN p /\ p[m].kind \in FileTyped /\ p[m].ty = ty
                 ELSE /\ m \in DOMAIN p /\ p[m].kind \in FileTyped
                            <=> m \in DOMAIN d /\ d[m].kind \in FileTyped
                      /\ m \in DOMAIN d => p[m].ty = d[m].ty
      BY <1>2, <3>3 DEF FileTyped
    <3> QED
      BY <2>2, <3>1, <3>2, <3>4 DEF AtFileIs
  <2>8. types' = Put(types, u, ty) /\ DOMAIN consts' = DOMAIN consts
    BY <1>3, <2>1
  <2>9. Retyped(u, ty)
    BY <2>2, <2>5, <2>6, <2>7, <2>8 DEF Retyped
  <2> QED
    BY <1>6, <2>9, TypesPut
<1>8. StaticsOk' /\ ConstsOk' /\ EnumsOk' /\ TypeNamesOk' /\ TagsOk'
  BY <1>2, <1>3, <1>5, DeclarationMaps
<1> QED
  BY <1>5, <1>7, <1>8, DeclarationBased DEF MapsOk

(* A constant.                                                             *)
LEMMA FileConstexprStep ==
    ASSUME Based, MapsOk, NEW n \in Names, NEW ty \in Types, FileConstexpr(n, ty)
    PROVE  Based' /\ MapsOk'
<1>1. PICK e : e = Entity("constexpr", n, ty, FileName(n))
  OBVIOUS
<1>2. /\ e.id = NewId /\ e.kind = "constexpr" /\ e.name = n /\ e.ty = ty /\ e.place = FileName(n)
      /\ e.func = IF AtFile THEN 0 ELSE func
  BY <1>1, EntityIs
<1>3. /\ AtFile /\ Free(n) /\ Declared(e) /\ Linked(n) = {}
      /\ types' = Put(types, FileName(n), ty)
      /\ consts' = Put(consts, FileName(n), NewId)
      /\ UNCHANGED <<unit, scopes, statics, func, counter, enums, typedefs, typesizes,
                     structs, blocks, done>>
  BY <1>1 DEF FileConstexpr, FreeAtFile
<1>4. Grows(e) /\ Adds(e)
  BY <1>2, <1>3, DeclaredAdds DEF Based
<1>5. Declaration(e)
  BY <1>2, <1>3, <1>4 DEF Declaration, PlaceOf, Kinds, Kept
<1>6. Counts /\ EntsOk /\ EnvOk /\ FileOk /\ ConstsOk /\ TypesOk
  BY DEF Based, MapsOk
<1>7. TypesOk'
  <2>1. PICK u : u = FileName(n)
    OBVIOUS
  <2>2. u[1] = "file" /\ \A m : FileName(m) = u <=> m = n
    BY <2>1 DEF FileName
  <2>3. Top = 1
    BY <1>3, <1>6, TopIs
  <2>4. AutosKept /\ Keeps
    BY <1>2, <1>4, AutosKeptIf, KeepsThem
  <2>5. \A i \in Autos' :
          \/ i \in Autos /\ ents'[i] = ents[i] /\ ents[i].place # u
          \/ ents'[i].place = u /\ ents'[i].ty = ty
    BY <1>6, <2>1, <2>4, PlacesDiffer DEF AutosKept, Autos
  <2>6. /\ DOMAIN consts' = DOMAIN consts \cup {u}
        /\ consts'[u] = NewId
        /\ \A v \in DOMAIN consts : v # u => consts'[v] = consts[v]
    BY <1>3, <2>1 DEF Put
  <2>7. \A v \in DOMAIN consts' :
          \/ /\ v \in DOMAIN consts /\ consts'[v] = consts[v] /\ v # u
             /\ ents'[consts[v]] = ents[consts[v]]
          \/ v = u /\ ents'[consts'[v]].ty = ty
    <3> TAKE v \in DOMAIN consts'
    <3>1. CASE v = u
      BY <1>2, <1>4, <2>6, <3>1 DEF Grows
    <3>2. CASE v # u
      <4>1. v \in DOMAIN consts /\ consts'[v] = consts[v]
        BY <2>6, <3>2
      <4>2. consts[v] \in DOMAIN ents
        BY <1>6, <4>1, ConstantIs
      <4> QED
        BY <2>4, <3>2, <4>1, <4>2 DEF Keeps
    <3> QED
      BY <3>1, <3>2
  <2>8. \A m \in Names :
          IF FileName(m) = u
          THEN AtFileIs(m, FileTyped)' /\ env'[1].ids[m].ty = ty
          ELSE /\ AtFileIs(m, FileTyped)' <=> AtFileIs(m, FileTyped)
               /\ AtFileIs(m, FileTyped) => env'[1].ids[m].ty = env[1].ids[m].ty
    <3>1. PICK d : d = env[1].ids
      OBVIOUS
    <3>2. PICK p : p = env'[1].ids
      OBVIOUS
    <3>3. /\ DOMAIN p = DOMAIN d \cup {n} /\ p[n] = e
          /\ \A m \in DOMAIN d : p[m] = d[m]
          /\ n \notin DOMAIN d
      BY <1>2, <1>4, <2>3, <3>1, <3>2 DEF Adds, Free
    <3>4. \A m : IF m = n
                 THEN m \in DOMAIN p /\ p[m].kind \in FileTyped /\ p[m].ty = ty
                 ELSE /\ m \in DOMAIN p /\ p[m].kind \in FileTyped
                            <=> m \in DOMAIN d /\ d[m].kind \in FileTyped
                      /\ m \in DOMAIN d => p[m].ty = d[m].ty
      BY <1>2, <3>3 DEF FileTyped
    <3> QED
      BY <2>2, <3>1, <3>2, <3>4 DEF AtFileIs
  <2>9. types' = Put(types, u, ty)
    BY <1>3, <2>1
  <2>10. Retyped(u, ty)
    BY <2>2, <2>5, <2>6, <2>7, <2>8, <2>9 DEF Retyped
  <2> QED
    BY <1>6, <2>10, TypesPut
<1>8. StaticsOk' /\ EnumsOk' /\ TypeNamesOk' /\ TagsOk'
  BY <1>2, <1>3, <1>5, DeclarationMaps
<1>9. ConstsOk'
  BY <1>2, <1>3, <1>4, <1>6, ConstsAdd
<1> QED
  BY <1>5, <1>7, <1>8, <1>9, DeclarationBased DEF MapsOk

(* In a block or in the file.                                              *)
LEMMA EnumStep ==
    ASSUME Based, MapsOk, NEW n \in Names, Enum(n)
    PROVE  Based' /\ MapsOk'
<1>1. PICK e : e = Entity("enum", n, "int", FileName(n))
  OBVIOUS
<1>2. /\ e.id = NewId /\ e.kind = "enum" /\ e.name = n /\ e.ty = "int" /\ e.place = FileName(n)
      /\ e.func = IF AtFile THEN 0 ELSE func
  BY <1>1, EntityIs
<1>3. /\ Free(n) /\ Declared(e) /\ (AtFile => Linked(n) = {})
      /\ enums' = Put(enums, n, NewId)
      /\ UNCHANGED <<unit, scopes, statics, func, counter, types, consts, typedefs, typesizes,
                     structs, blocks, done>>
  BY <1>1 DEF Enum, FreeAtFile, FreeHere
<1>4. Grows(e) /\ Adds(e)
  BY <1>2, <1>3, DeclaredAdds DEF Based
<1>5. Declaration(e)
  BY <1>2, <1>3, <1>4 DEF Declaration, PlaceOf, Kinds, Kept
<1>6. StaticsOk' /\ ConstsOk' /\ TypesOk' /\ TypeNamesOk' /\ TagsOk'
  BY <1>2, <1>3, <1>5, DeclarationMaps DEF Kept, FileTyped
<1>7. EnumsOk'
  BY <1>2, <1>3, <1>4, EnumsAdd DEF MapsOk
<1> QED
  BY <1>5, <1>6, <1>7, DeclarationBased DEF MapsOk

(* A type name at file scope.                                              *)
LEMMA FileTypedefStep ==
    ASSUME Based, MapsOk, NEW n \in Names, NEW ty \in Types, FileTypedef(n, ty)
    PROVE  Based' /\ MapsOk'
<1>1. PICK e : e = Entity("type", n, ty, FileName(n))
  OBVIOUS
<1>2. /\ e.id = NewId /\ e.kind = "type" /\ e.name = n /\ e.ty = ty /\ e.place = FileName(n)
      /\ e.func = IF AtFile THEN 0 ELSE func
  BY <1>1, EntityIs
<1>3. /\ AtFile /\ Free(n) /\ Declared(e) /\ Linked(n) = {}
      /\ typedefs' = typedefs \cup {n}
      /\ typesizes' = Put(typesizes, n, ty)
      /\ UNCHANGED <<unit, scopes, statics, func, counter, types, consts, enums,
                     structs, blocks, done>>
  BY <1>1 DEF FileTypedef, FreeAtFile
<1>4. Grows(e) /\ Adds(e)
  BY <1>2, <1>3, DeclaredAdds DEF Based
<1>5. Declaration(e)
  BY <1>2, <1>3, <1>4 DEF Declaration, PlaceOf, Kinds, Kept
<1>6. StaticsOk' /\ ConstsOk' /\ TypesOk' /\ EnumsOk' /\ TagsOk'
  BY <1>2, <1>3, <1>5, DeclarationMaps DEF Kept, FileTyped
<1>7. TypeNamesOk'
  BY <1>2, <1>3, <1>4, TypeNamesAdd DEF MapsOk, Based
<1> QED
  BY <1>5, <1>6, <1>7, DeclarationBased DEF MapsOk

(* Nothing is declared.                                                    *)
LEMMA StillBased ==
    ASSUME Based, UNCHANGED <<unit, scopes, env, ents, blocks, done>>,
           counter' \in Nat, counter <= counter', func' \in Nat, func' = func \/ AtFile
    PROVE  Based'
<1>1. Counts /\ EntsOk /\ EnvOk /\ ScopesOk /\ BlocksOk /\ FileOk
  BY DEF Based
<1>2. Counts'
  BY <1>1 DEF Counts, AtFile
<1>3. EntsOk'
  BY <1>1, EntsStay
<1>4. EnvOk'
  <2>1. Keeps
    BY KeepsThem
  <2>2. IsSeq(env') /\ IsSeq(scopes') /\ Len(env') = Len(scopes') + 1
    BY <1>1 DEF EnvOk
  <2>3. \A i \in 1 .. Len(env') :
          \/ i \in 1 .. Top /\ env'[i].ids = env[i].ids
          \/ DOMAIN env'[i].ids = {}
    BY DEF Top
  <2> QED
    BY <1>1, <2>1, <2>2, <2>3, EnvSame
<1>5. ScopesOk'
  BY <1>1 DEF ScopesOk, ScopeOk
<1>6. BlocksOk'
  BY <1>1, BlocksStay
<1>7. FileOk'
  BY <1>1, FileSame
<1> QED
  BY <1>2, <1>3, <1>4, <1>5, <1>6, <1>7 DEF Based

(* The maps are right if nothing is declared.                              *)
LEMMA StillMaps ==
    ASSUME MapsOk, EnvOk,
           UNCHANGED <<unit, ents, env, consts, enums, typedefs, typesizes, structs>>
    PROVE  /\ ConstsOk' /\ EnumsOk' /\ TypeNamesOk' /\ TagsOk'
           /\ UNCHANGED <<statics, func>> => StaticsOk'
           /\ UNCHANGED types => TypesOk'
<1>1. StaticsOk /\ ConstsOk /\ EnumsOk /\ TypeNamesOk /\ TagsOk /\ TypesOk
  BY DEF MapsOk
<1>2. Keeps /\ AutosKept /\ \A k : EverSame(k)
  BY KeepsThem, AutosKeptIf, OtherKinds
<1>3. \A ks : FileKept(ks)
  BY FileKeptIf
<1>4. Len(env) = Top /\ Len(env') = Top
  BY DEF Top
<1>5. TagsOk'
  BY <1>1, <1>2, <1>4, TagsStay
<1>6. ConstsOk'
  BY <1>1, ConstsStay
<1>7. EnumsOk' /\ TypeNamesOk'
  BY <1>1, <1>2, <1>3, EnumsStay, TypeNamesStay
<1>8. UNCHANGED <<statics, func>> => StaticsOk'
  BY <1>1, <1>2, StaticsStay
<1>9. UNCHANGED types => TypesOk'
  BY <1>1, <1>2, <1>3, TypesStay
<1> QED
  BY <1>5, <1>6, <1>7, <1>8, <1>9

(* A second declaration of a variable has the type of the first.           *)
LEMMA FileVarAgainStep ==
    ASSUME Based, MapsOk, NEW n \in Names, NEW ty \in Types, FileVarAgain(n, ty),
           status # "fatal", status' # "fatal"
    PROVE  Based' /\ MapsOk'
<1>1. /\ AtFile /\ ~Free(n) /\ env[1].ids[n].kind = "global"
      /\ types' = Put(types, FileName(n), ty) /\ ty = env[1].ids[n].ty
      /\ UNCHANGED <<unit, scopes, statics, func, counter, consts, enums, typedefs, typesizes,
                     structs, env, ents, blocks, done>>
  BY DEF FileVarAgain
<1>2. Counts /\ EntsOk /\ EnvOk /\ FileOk /\ ConstsOk /\ TypesOk
  BY DEF Based, MapsOk
<1>3. Top = 1
  BY <1>1, <1>2, TopIs
<1>4. n \in DOMAIN env[1].ids
  BY <1>1, <1>3 DEF Free
<1>5. AtFileIs(n, FileTyped)
  BY <1>1, <1>4 DEF AtFileIs, FileTyped
<1>6. FileName(n) \in DOMAIN types /\ types[FileName(n)] = ty
  BY <1>1, <1>2, <1>5 DEF TypesOk
<1>7. /\ DOMAIN types' = DOMAIN types
      /\ \A u \in DOMAIN types : types'[u] = types[u]
  BY <1>1, <1>6 DEF Put
<1>8. Autos' = Autos
  BY <1>1 DEF Autos
<1>9. \A m, ks : AtFileIs(m, ks)' <=> AtFileIs(m, ks)
  BY <1>1 DEF AtFileIs
<1>10. TypesOk'
  BY <1>1, <1>2, <1>7, <1>8, <1>9 DEF TypesOk
<1>11. counter' \in Nat /\ counter <= counter' /\ func' \in Nat
  BY <1>1, <1>2 DEF Counts
<1>12. Based'
  BY <1>1, <1>11, StillBased
<1>13. ConstsOk' /\ EnumsOk' /\ TypeNamesOk' /\ TagsOk' /\ StaticsOk'
  BY <1>1, <1>2, StillMaps
<1> QED
  BY <1>10, <1>12, <1>13 DEF MapsOk

-----------------------------------------------------------------------------
(* Structures.                                                             *)

(* A structure, with any layout.                                           *)
LEMMA StructStep ==
    ASSUME Based, MapsOk, NEW t \in DOMAIN unit.bodies, NEW l, TagDeclared(t),
           structs' = Put(structs, t, Put(l, "id", NewId)),
           UNCHANGED <<unit, scopes, statics, func, counter, types, consts, enums, typedefs,
                       typesizes, blocks, done>>
    PROVE  Based' /\ MapsOk'
<1>1. PICK e : e = Entity("struct", t, "long", FileName(t))
  OBVIOUS
<1>2. /\ e.id = NewId /\ e.kind = "struct" /\ e.name = t /\ e.place = FileName(t)
      /\ e.func = IF AtFile THEN 0 ELSE func
  BY <1>1, EntityIs
<1>3. Counts /\ EntsOk /\ EnvOk /\ ScopesOk /\ BlocksOk /\ FileOk
  BY DEF Based
<1>4. Grows(e) /\ AddsTag(t)
  BY <1>1, <1>3, TagAdds
<1>5. Keeps /\ AutosKept
  BY <1>2, <1>4, KeepsThem, AutosKeptIf
<1>6. Counts'
  BY <1>3 DEF Counts, AtFile
<1>7. counter' \in Nat /\ counter <= counter'
  BY <1>3 DEF Counts
<1>8. Top \in Nat /\ Top >= 1 /\ Len(env) = Top /\ Len(env') = Top /\ Len(scopes) = Top - 1
  BY <1>3, <1>4, TopIs DEF AddsTag
<1>9. \A i \in 1 .. Top : env'[i].ids = env[i].ids
  BY <1>4, <1>8 DEF AddsTag
<1>10. EntsOk'
  <2>1. EntityOk(e.id, e)'
    BY <1>2, <1>3 DEF EntityOk, PlaceOf, Kinds, Counts
  <2> QED
    BY <1>2, <1>3, <1>4, <1>7, <2>1, EntsGrow
<1>11. EnvOk'
  <2>1. IsSeq(env') /\ IsSeq(scopes') /\ Len(env') = Len(scopes') + 1
    BY <1>3, <1>4, <1>8 DEF AddsTag, EnvOk
  <2>2. \A i \in 1 .. Len(env') :
          \/ i \in 1 .. Top /\ env'[i].ids = env[i].ids
          \/ DOMAIN env'[i].ids = {}
    BY <1>8, <1>9
  <2> QED
    BY <1>3, <1>5, <2>1, <2>2, EnvSame
<1>12. ScopesOk'
  <2>1. \A i \in 1 .. Len(scopes') :
          /\ i \in 1 .. Len(scopes) /\ scopes'[i] = scopes[i]
          /\ env'[i + 1].ids = env[i + 1].ids
    BY <1>8, <1>9
  <2> QED
    BY <1>3, <2>1, ScopesFrom
<1>13. BlocksOk'
  BY <1>3, BlocksStay
<1>14. env'[1].ids = env[1].ids
  BY <1>8, <1>9
<1>15. FileOk'
  BY <1>2, <1>3, <1>4, <1>14, FileSame
<1>16. StaticsOk /\ ConstsOk /\ EnumsOk /\ TypeNamesOk /\ TagsOk /\ TypesOk
  BY DEF MapsOk
<1>17. \A ks : FileKept(ks)
  BY <1>3, <1>14, FileKeptIf
<1>18. EverSame("static") /\ EverSame("enum") /\ EverSame("type")
  BY <1>2, <1>4, OtherKinds
<1>19. StaticsOk'
  BY <1>5, <1>16, <1>18, StaticsStay
<1>20. ConstsOk'
  BY <1>2, <1>4, <1>16, ConstsStay
<1>21. EnumsOk' /\ TypeNamesOk'
  BY <1>16, <1>17, <1>18, EnumsStay, TypeNamesStay
<1>22. TypesOk'
  BY <1>5, <1>16, <1>17, TypesStay
<1>23. TagsOk'
  BY <1>2, <1>3, <1>4, <1>16, TagsAdd
<1> QED
  BY <1>6, <1>10, <1>11, <1>12, <1>13, <1>15, <1>19, <1>20, <1>21, <1>22, <1>23 DEF Based, MapsOk

(* A structure at file scope.                                              *)
LEMMA FileStructStep ==
    ASSUME Based, MapsOk, NEW t \in DOMAIN unit.bodies, FileStruct(t)
    PROVE  Based' /\ MapsOk'
<1>1. PICK l : l = FileLayout(unit.bodies[t].members, unit.bodies[t].union, structs, aligns)
  OBVIOUS
<1>2. /\ TagDeclared(t) /\ structs' = Put(structs, t, Put(l, "id", NewId))
      /\ UNCHANGED <<unit, scopes, statics, func, counter, types, consts, enums, typedefs,
                     typesizes, blocks, done>>
  BY <1>1 DEF FileStruct
<1> QED
  BY <1>2, StructStep

(* A structure in a block.                                                 *)
LEMMA LocalStructStep ==
    ASSUME Based, MapsOk, NEW t \in DOMAIN unit.bodies, LocalStruct(t), status' # "fatal"
    PROVE  Based' /\ MapsOk'
<1>1. PICK l : l = LocalLayout(unit.bodies[t].members, unit.bodies[t].union, structs)
  OBVIOUS
<1>2. /\ TagDeclared(t) /\ structs' = Put(structs, t, Put(l, "id", NewId))
      /\ UNCHANGED <<unit, scopes, statics, func, counter, types, consts, enums, typedefs,
                     typesizes, blocks, done>>
  BY <1>1 DEF LocalStruct
<1> QED
  BY <1>2, StructStep

-----------------------------------------------------------------------------
(* Functions and blocks.                                                   *)

(* The numbers of functions.                                               *)
LEMMA FunctionIs ==
    ASSUME Counts, NEW f \in 1 .. unit.funcs
    PROVE  f \in Nat /\ f # 0
<1>1. unit.funcs \in Nat
  BY UnitsAssumption DEF Counts
<1> QED
  BY <1>1

(* A parameter is typed under the name that its number makes.              *)
LEMMA ParamsAre ==
    ASSUME NEW ps \in ParamLists
    PROVE  \/ ps = << >> /\ Len(ps) = 0
           \/ /\ ps # << >> /\ Len(ps) = 1
              /\ ps[1].name \in Names /\ ps[1].ty \in Types
              /\ Typed(ps) = Put(types, <<"param", ps[1].name, counter>>, ps[1].ty)
              /\ ParamScope(ps) = Put(None, ps[1].name, <<"param", ps[1].name, counter>>)
<1>1. CASE ps = << >>
  BY <1>1
<1>2. CASE ps # << >>
  <2>1. PICK n \in Names, ty \in Types : ps = <<[name |-> n, ty |-> ty]>>
    BY <1>2 DEF ParamLists
  <2>2. Len(ps) = 1 /\ ps[1].name = n /\ ps[1].ty = ty
    BY <2>1
  <2>3. Typed(ps) = Put(types, <<"param", n, counter>>, ty)
    BY <1>2, <2>2 DEF Typed, ParamName
  <2>4. ParamScope(ps) = Put(None, n, <<"param", n, counter>>)
    BY <1>2, <2>2 DEF ParamScope, ParamName
  <2> QED
    BY <1>2, <2>2, <2>3, <2>4
<1> QED
  BY <1>1, <1>2

(* function() up to the semicolon of a prototype.                          *)
LEMMA PrototypeStep ==
    ASSUME Based, MapsOk, NEW f \in 1 .. unit.funcs, NEW ps \in ParamLists, Prototype(f, ps)
    PROVE  Based' /\ MapsOk'
<1>1. /\ AtFile /\ f \notin done /\ func' = f /\ statics' = None /\ types' = Typed(ps)
      /\ counter' = counter + Len(ps)
      /\ UNCHANGED <<unit, scopes, consts, enums, typedefs, typesizes, structs, env, ents,
                     blocks, done>>
  BY DEF Prototype
<1>2. Counts /\ EntsOk /\ EnvOk /\ FileOk /\ ConstsOk /\ TypesOk
  BY DEF Based, MapsOk
<1>3. f \in Nat /\ f # 0
  BY <1>2, FunctionIs
<1>4. counter \in Nat
  BY <1>2 DEF Counts
<1>5. counter' \in Nat /\ counter <= counter'
  BY <1>1, <1>4, ParamsAre
<1>6. Based'
  BY <1>1, <1>3, <1>5, StillBased
<1>7. ConstsOk' /\ EnumsOk' /\ TypeNamesOk' /\ TagsOk' /\ (UNCHANGED types => TypesOk')
  BY <1>1, <1>2, StillMaps
<1>8. Keeps /\ AutosKept /\ EverSame("static")
  BY <1>1, KeepsThem, AutosKeptIf, OtherKinds
<1>9. StaticsOk'
  BY <1>1, <1>2, <1>3, <1>8, StaticsClear
<1>10. TypesOk'
  <2>1. CASE ps = << >>
    BY <1>1, <1>7, <2>1 DEF Typed
  <2>2. CASE ps # << >>
    <3>1. types' = Put(types, <<"param", ps[1].name, counter>>, ps[1].ty)
      BY <1>1, <2>2, ParamsAre
    <3>2. FileKept(FileTyped)
      BY <1>1, <1>2, FileKeptIf
    <3> QED
      BY <1>1, <1>2, <1>8, <3>1, <3>2, TypesPutAuto
  <2> QED
    BY <2>1, <2>2
<1> QED
  BY <1>6, <1>7, <1>9, <1>10 DEF MapsOk

(* Scopes are opened or closed, and nothing is declared.                   *)
LEMMA ScopesMove ==
    ASSUME Based, UNCHANGED ents, BlocksOk', Counts',
           func' = func \/ AtFile,
           IsSeq(env'), IsSeq(scopes'), Len(env') = Len(scopes') + 1, Len(env') >= 1,
           Len(scopes') \in Nat,
           env'[1] = env[1],
           \A i \in 1 .. Len(env') :
              \/ i \in 1 .. Top /\ env'[i] = env[i]
              \/ DOMAIN env'[i].ids = {} /\ DOMAIN env'[i].tags = {},
           \A i \in 1 .. Len(scopes') :
              \/ i \in 1 .. Len(scopes) /\ scopes'[i] = scopes[i] /\ env'[i + 1] = env[i + 1]
              \/ DOMAIN scopes'[i] = {} /\ DOMAIN env'[i + 1].ids = {},
           counter <= counter', done \subseteq done'
    PROVE  /\ Based'
           /\ MapsOk /\ UNCHANGED <<unit, consts, enums, typedefs, typesizes, structs>> =>
                 /\ ConstsOk' /\ EnumsOk' /\ TypeNamesOk' /\ TagsOk'
                 /\ UNCHANGED <<statics, func>> => StaticsOk'
                 /\ UNCHANGED types => TypesOk'
<1>1. Counts /\ EntsOk /\ EnvOk /\ ScopesOk /\ BlocksOk /\ FileOk
  BY DEF Based
<1>2. counter' \in Nat
  BY DEF Counts
<1>3. EntsOk'
  BY <1>1, <1>2, EntsStay
<1>4. Keeps /\ AutosKept /\ \A k : EverSame(k)
  BY KeepsThem, AutosKeptIf, OtherKinds
<1>5. EnvOk'
  <2>1. \A i \in 1 .. Len(env') :
          \/ i \in 1 .. Top /\ env'[i].ids = env[i].ids
          \/ DOMAIN env'[i].ids = {}
    OBVIOUS
  <2> QED
    BY <1>1, <1>4, <2>1, EnvSame
<1>6. ScopesOk'
  <2>1. \A i \in 1 .. Len(scopes') :
          \/ i \in 1 .. Len(scopes) /\ scopes'[i] = scopes[i] /\ env'[i + 1].ids = env[i + 1].ids
          \/ DOMAIN scopes'[i] = {} /\ DOMAIN env'[i + 1].ids = {}
          \/ ScopeOk(i)'
    OBVIOUS
  <2> QED
    BY <1>1, <2>1, ScopesFrom
<1>7. env'[1].ids = env[1].ids
  OBVIOUS
<1>8. FileOk'
  BY <1>1, <1>7, FileSame
<1>9. Based'
  BY <1>3, <1>5, <1>6, <1>8 DEF Based
<1>10. ASSUME MapsOk, UNCHANGED <<unit, consts, enums, typedefs, typesizes, structs>>
       PROVE  /\ ConstsOk' /\ EnumsOk' /\ TypeNamesOk' /\ TagsOk'
              /\ UNCHANGED <<statics, func>> => StaticsOk'
              /\ UNCHANGED types => TypesOk'
  <2>1. StaticsOk /\ ConstsOk /\ EnumsOk /\ TypeNamesOk /\ TagsOk /\ TypesOk
    BY <1>10 DEF MapsOk
  <2>2. \A ks : FileKept(ks)
    BY <1>1, <1>7, FileKeptIf
  <2>3. Len(env) = Top
    BY DEF Top
  <2>4. \A i \in 1 .. Len(env') :
          \/ i \in 1 .. Top /\ env'[i].tags = env[i].tags
          \/ DOMAIN env'[i].tags = {}
    OBVIOUS
  <2>5. TagsOk'
    BY <1>4, <1>10, <2>1, <2>3, <2>4, TagsStay
  <2>6. ConstsOk'
    BY <1>10, <2>1, ConstsStay
  <2>7. EnumsOk' /\ TypeNamesOk'
    BY <1>4, <1>10, <2>1, <2>2, EnumsStay, TypeNamesStay
  <2>8. UNCHANGED <<statics, func>> => StaticsOk'
    BY <1>4, <2>1, StaticsStay
  <2>9. UNCHANGED types => TypesOk'
    BY <1>4, <1>10, <2>1, <2>2, TypesStay
  <2> QED
    BY <2>5, <2>6, <2>7, <2>8, <2>9
<1> QED
  BY <1>9, <1>10

(* e is declared in a scope of its own around the one that is opened.      *)
Nesting(e) ==
    /\ Grows(e) /\ Pushes(e)
    /\ e.name \in Names /\ e.kind = "auto" /\ e.func = func'
    /\ e.place = <<"param", e.name, counter>> /\ counter' = counter + 1
    /\ func' = func \/ AtFile
    /\ func' \in done' /\ done \subseteq done'
    /\ IsSeq(scopes') /\ Len(scopes') = Len(scopes) + 2
    /\ \A i \in 1 .. Len(scopes) : scopes'[i] = scopes[i]
    /\ scopes'[Len(scopes) + 1] = Put(None, e.name, e.place)
    /\ scopes'[Len(scopes) + 2] = None
    /\ types' = Put(types, e.place, e.ty)
    /\ UNCHANGED <<unit, consts, enums, typedefs, typesizes, structs>>

(* The entities and scopes are right after two scopes are opened.          *)
LEMMA NestingBased ==
    ASSUME Based, NEW e, Nesting(e), Counts', BlocksOk'
    PROVE  Based'
<1>1. Counts /\ EntsOk /\ EnvOk /\ ScopesOk /\ BlocksOk /\ FileOk
  BY DEF Based
<1>2. /\ Grows(e) /\ Pushes(e) /\ e.name \in Names /\ e.kind = "auto" /\ e.func = func'
      /\ func' = func \/ AtFile
  BY DEF Nesting
<1>3. e.func # 0 /\ e.func \in done'
  BY <1>2 DEF Nesting, Counts
<1>4. EntsOk'
  <2>1. e.place = <<"param", e.name, counter>> /\ counter' = counter + 1 /\ done \subseteq done'
    BY DEF Nesting
  <2>2. counter \in Nat /\ counter' \in Nat /\ counter < counter'
    BY <1>1, <2>1 DEF Counts
  <2>3. Drawn(e)'
    BY <2>1, <2>2 DEF Drawn
  <2>4. e.id = NewId
    BY <1>2 DEF Grows
  <2>5. EntityOk(e.id, e)'
    BY <1>2, <1>3, <2>3 DEF EntityOk, Kinds
  <2>6. \E w \in {"auto", "param"} : e.place = <<w, e.name, counter>>
    BY <2>1
  <2>7. counter <= counter'
    BY <2>2
  <2> QED
    BY <1>1, <1>2, <2>1, <2>2, <2>5, <2>6, <2>7, EntsGrow
<1>5. IsSeq(scopes') /\ Len(scopes') = Len(scopes) + 2
  BY DEF Nesting
<1>6. EnvOk'
  BY <1>1, <1>2, <1>5, EnvPushes
<1>7. ScopesOk'
  <2>1. \A i \in 1 .. Len(scopes) : scopes'[i] = scopes[i]
    BY DEF Nesting
  <2>2. /\ scopes'[Len(scopes) + 1] = Put(None, e.name, e.place)
        /\ scopes'[Len(scopes) + 2] = None
    BY DEF Nesting
  <2> QED
    BY <1>1, <1>2, <1>5, <2>1, <2>2, ScopesPush
<1>8. env'[1] = env[1]
  BY <1>1, <1>2, TopIs DEF Pushes
<1>9. FileOk'
  <2>1. Grows(e) /\ (e.func # 0 \/ e.kind = "struct") /\ e.kind # "global"
    BY <1>2, <1>3
  <2>2. env'[1].ids = env[1].ids
    BY <1>8
  <2> QED
    BY <1>1, <2>1, <2>2, FileSame
<1> QED
  BY <1>4, <1>6, <1>7, <1>9 DEF Based

(* The maps are.                                                           *)
LEMMA NestingMaps ==
    ASSUME Based, MapsOk, NEW e, Nesting(e)
    PROVE  /\ ConstsOk' /\ EnumsOk' /\ TypeNamesOk' /\ TagsOk' /\ TypesOk'
           /\ UNCHANGED <<statics, func>> => StaticsOk'
<1>1. Counts /\ EntsOk /\ EnvOk /\ FileOk
  BY DEF Based
<1>2. /\ Grows(e) /\ Pushes(e) /\ e.kind = "auto" /\ e.place = <<"param", e.name, counter>>
      /\ types' = Put(types, e.place, e.ty)
      /\ UNCHANGED <<unit, consts, enums, typedefs, typesizes, structs>>
  BY DEF Nesting
<1>3. StaticsOk /\ ConstsOk /\ EnumsOk /\ TypeNamesOk /\ TagsOk /\ TypesOk
  BY DEF MapsOk
<1>4. Keeps /\ EverSame("static") /\ EverSame("enum") /\ EverSame("type") /\ EverSame("struct")
  BY <1>2, KeepsThem, OtherKinds
<1>5. Top \in Nat /\ Top >= 1 /\ Len(env) = Top /\ Len(env') = Top + 2
  BY <1>1, <1>2, TopIs DEF Pushes
<1>6. \A i \in 1 .. Top : env'[i] = env[i]
  BY <1>2, <1>5 DEF Pushes
<1>7. env'[1].ids = env[1].ids
  BY <1>5, <1>6
<1>8. \A ks : FileKept(ks)
  BY <1>1, <1>7, FileKeptIf
<1>9. TagsOk'
  <2>1. ASSUME NEW i \in 1 .. Len(env')
        PROVE  \/ i \in 1 .. Top /\ env'[i].tags = env[i].tags
               \/ DOMAIN env'[i].tags = {}
    <3>1. CASE i \in 1 .. Top
      BY <1>6, <3>1
    <3>2. CASE i = Top + 1 \/ i = Top + 2
      BY <1>2, <3>2, PushedIs
    <3> QED
      BY <1>5, <3>1, <3>2
  <2> QED
    BY <1>2, <1>3, <1>4, <1>5, <2>1, TagsStay
<1>10. ConstsOk'
  BY <1>2, <1>3, ConstsStay
<1>11. EnumsOk' /\ TypeNamesOk'
  BY <1>2, <1>3, <1>4, <1>8, EnumsStay, TypeNamesStay
<1>12. TypesOk'
  <2>1. PICK n : n = e.name
    OBVIOUS
  <2>2. PICK ty : ty = e.ty
    OBVIOUS
  <2>3. /\ types' = Put(types, <<"param", n, counter>>, ty)
        /\ Grows(e) /\ e.ty = ty /\ e.place = <<"param", n, counter>>
    BY <1>2, <2>1, <2>2
  <2>4. FileKept(FileTyped) /\ UNCHANGED consts
    BY <1>2, <1>8
  <2> QED
    BY <1>1, <1>3, <1>4, <2>3, <2>4, TypesPutAuto
<1>13. UNCHANGED <<statics, func>> => StaticsOk'
  BY <1>3, <1>4, StaticsStay
<1> QED
  BY <1>9, <1>10, <1>11, <1>12, <1>13

(* The head of a for statement.                                            *)
LEMMA ForStep ==
    ASSUME Based, MapsOk, NEW n \in Names, NEW ty \in Types, For(n, ty)
    PROVE  Based' /\ MapsOk'
<1>1. PICK e : e = Entity("auto", n, ty, ParamName(n))
  OBVIOUS
<1>2. /\ e.id = NewId /\ e.kind = "auto" /\ e.name = n /\ e.ty = ty
      /\ e.place = <<"param", n, counter>>
      /\ e.func = IF AtFile THEN 0 ELSE func
  BY <1>1, EntityIs DEF ParamName
<1>3. PICK q : q = Put(None, n, e.place)
  OBVIOUS
<1>4. ParamName(n) = e.place
  BY <1>2 DEF ParamName
<1>5. /\ ~AtFile /\ scopes' = TwoOn(scopes, q, None)
      /\ types' = Put(types, e.place, e.ty) /\ counter' = counter + 1 /\ Record(e)
      /\ env' = env \o <<Scope(Put(None, e.name, e), None), NoScope>>
      /\ blocks' = Append(blocks, "for")
      /\ UNCHANGED <<unit, statics, func, consts, enums, typedefs, typesizes, structs, done>>
  BY <1>1, <1>2, <1>3, <1>4 DEF For, TwoOn
<1>6. Counts /\ EntsOk /\ EnvOk /\ BlocksOk
  BY DEF Based
<1>7. Grows(e) /\ Pushes(e)
  BY <1>2, <1>5, <1>6, RecordGrows, TwoPush
<1>8. PICK z : z = TwoOn(scopes, q, None)
  OBVIOUS
<1>9. /\ IsSeq(z) /\ Len(z) = Len(scopes) + 2
      /\ \A i \in 1 .. Len(scopes) : z[i] = scopes[i]
      /\ z[Len(scopes) + 1] = q /\ z[Len(scopes) + 2] = None
  BY <1>6, <1>8, TwoMore DEF EnvOk
<1>10. scopes' = z
  BY <1>5, <1>8
<1>11. func \in done
  BY <1>5, <1>6 DEF Counts
<1>12. Nesting(e)
  BY <1>2, <1>3, <1>5, <1>7, <1>9, <1>10, <1>11 DEF Nesting
<1>13. Counts'
  BY <1>5, <1>6, <1>11 DEF Counts
<1>14. BlocksOk'
  <2>1. Len(scopes) \in Nat
    BY <1>6, TopIs
  <2>2. Len(scopes') = Len(scopes) + Width("for")
    BY <1>9, <1>10 DEF Width
  <2> QED
    BY <1>5, <1>6, <2>1, <2>2, BlocksOpen
<1>15. Based'
  BY <1>12, <1>13, <1>14, NestingBased
<1> QED
  BY <1>5, <1>12, <1>15, NestingMaps DEF MapsOk

(* function() up to the brace of the body.                                 *)
LEMMA BeginStep ==
    ASSUME Based, MapsOk, NEW f \in 1 .. unit.funcs, NEW ps \in ParamLists, Begin(f, ps)
    PROVE  Based' /\ MapsOk'
<1>1. /\ AtFile /\ f \notin done /\ func' = f /\ done' = done \cup {f} /\ statics' = None
      /\ scopes' = <<ParamScope(ps), None>> /\ types' = Typed(ps)
      /\ counter' = counter + Len(ps) /\ blocks' = <<"body">>
      /\ UNCHANGED <<unit, consts, enums, typedefs, typesizes, structs>>
  BY DEF Begin
<1>2. Counts /\ EntsOk /\ EnvOk /\ BlocksOk
  BY DEF Based
<1>3. f \in Nat /\ f # 0
  BY <1>2, FunctionIs
<1>4. counter \in Nat
  BY <1>2 DEF Counts
<1>5. counter' \in Nat /\ counter <= counter'
  BY <1>1, <1>4, ParamsAre
<1>6. Counts'
  BY <1>1, <1>2, <1>3, <1>5 DEF Counts
<1>7. IsSeq(scopes') /\ Len(scopes') = 2
  BY <1>1, Few
<1>8. Len(scopes) = 0
  BY <1>1, <1>2, TopIs
<1>9. BlocksOk'
  <2>1. IsSeq(blocks') /\ Len(blocks') = 1 /\ blocks'[1] = "body"
    BY <1>1, Few
  <2>2. PICK g : g[0] = 0 /\ g[1] = 2
    <3>1. [i \in {0, 1} |-> IF i = 0 THEN 0 ELSE 2][0] = 0
      OBVIOUS
    <3>2. [i \in {0, 1} |-> IF i = 0 THEN 0 ELSE 2][1] = 2
      OBVIOUS
    <3> QED
      BY <3>1, <3>2
  <2>3. Width("body") = 2
    BY DEF Width
  <2>4. Depths(g)'
    BY <1>7, <2>1, <2>2, <2>3 DEF Depths
  <2> QED
    BY <2>1, <2>4 DEF BlocksOk
<1>10. CASE ps = << >>
  <2>1. PICK y : y = NoScope
    OBVIOUS
  <2>2. env' = TwoOn(env, y, y) /\ UNCHANGED ents
    BY <1>10, <2>1 DEF Begin, TwoOn
  <2>3. PICK z : z = TwoOn(env, y, y)
    OBVIOUS
  <2>4. /\ IsSeq(z) /\ Len(z) = Len(env) + 2
        /\ \A i \in 1 .. Len(env) : z[i] = env[i]
        /\ z[Len(env) + 1] = y /\ z[Len(env) + 2] = y
    BY <1>2, <2>3, TwoMore DEF EnvOk
  <2>5. env' = z
    BY <2>2, <2>3
  <2>6. Top = 1 /\ Len(env) = 1
    BY <1>1, <1>2, TopIs
  <2>7. DOMAIN y.ids = {} /\ DOMAIN y.tags = {}
    BY <2>1, NoneIs DEF NoScope, Scope
  <2>8. scopes'[1] = None /\ scopes'[2] = None
    BY <1>1, <1>10 DEF ParamScope
  <2>9. /\ Len(env') = 3 /\ env'[1] = env[1]
        /\ DOMAIN env'[2].ids = {} /\ DOMAIN env'[2].tags = {}
        /\ DOMAIN env'[3].ids = {} /\ DOMAIN env'[3].tags = {}
    BY <2>4, <2>5, <2>6, <2>7
  <2>10. \A i \in 1 .. Len(env') :
           \/ i \in 1 .. Top /\ env'[i] = env[i]
           \/ DOMAIN env'[i].ids = {} /\ DOMAIN env'[i].tags = {}
    BY <2>6, <2>9
  <2>11. \A i \in 1 .. Len(scopes') :
           \/ i \in 1 .. Len(scopes) /\ scopes'[i] = scopes[i] /\ env'[i + 1] = env[i + 1]
           \/ DOMAIN scopes'[i] = {} /\ DOMAIN env'[i + 1].ids = {}
    BY <1>7, <2>8, <2>9, NoneIs
  <2>12. IsSeq(env') /\ Len(env') = Len(scopes') + 1 /\ Len(env') >= 1 /\ Len(scopes') \in Nat
    <3>1. IsSeq(env')
      BY <2>4, <2>5
    <3>2. Len(env') = 3 /\ Len(scopes') = 2
      BY <1>7, <2>9
    <3> QED
      BY <3>1, <3>2
  <2>13. done \subseteq done' /\ (func' = func \/ AtFile)
    BY <1>1
  <2>14. /\ Based' /\ ConstsOk' /\ EnumsOk' /\ TypeNamesOk' /\ TagsOk'
         /\ UNCHANGED types => TypesOk'
    BY <1>1, <1>5, <1>6, <1>7, <1>9, <2>2, <2>9, <2>10, <2>11, <2>12, <2>13, ScopesMove
  <2>15. UNCHANGED types
    BY <1>1, <1>10 DEF Typed
  <2>16. Keeps /\ EverSame("static")
    BY <2>2, KeepsThem, OtherKinds
  <2>17. StaticsOk'
    BY <1>1, <1>2, <1>3, <2>16, StaticsClear
  <2> QED
    BY <2>14, <2>15, <2>17 DEF MapsOk
<1>11. CASE ps # << >>
  <2>1. PICK n : n = ps[1].name
    OBVIOUS
  <2>2. PICK e : e = EntityOf(f, "auto", ps[1].name, ps[1].ty, ParamName(ps[1].name))
    OBVIOUS
  <2>3. /\ e.id = NewId /\ e.kind = "auto" /\ e.name = n /\ e.ty = ps[1].ty
        /\ e.place = <<"param", n, counter>> /\ e.func = f
    BY <2>1, <2>2 DEF EntityOf, ParamName
  <2>4. /\ Len(ps) = 1 /\ n \in Names
        /\ Typed(ps) = Put(types, e.place, e.ty)
        /\ ParamScope(ps) = Put(None, e.name, e.place)
    BY <1>11, <2>1, <2>3, ParamsAre
  <2>5. Record(e) /\ env' = env \o <<Scope(Put(None, e.name, e), None), NoScope>>
    BY <1>11, <2>2 DEF Begin
  <2>6. Grows(e) /\ Pushes(e)
    BY <1>2, <2>3, <2>5, RecordGrows, TwoPush
  <2>7. scopes'[1] = Put(None, e.name, e.place) /\ scopes'[2] = None
    BY <1>1, <2>4
  <2>8. Nesting(e)
    BY <1>1, <1>7, <1>8, <2>3, <2>4, <2>6, <2>7 DEF Nesting
  <2>9. Based'
    BY <1>6, <1>9, <2>8, NestingBased
  <2>10. Keeps /\ EverSame("static")
    BY <2>3, <2>6, KeepsThem, OtherKinds
  <2>11. StaticsOk'
    BY <1>1, <1>2, <1>3, <2>10, StaticsClear
  <2> QED
    BY <2>8, <2>9, <2>11, NestingMaps DEF MapsOk
<1> QED
  BY <1>10, <1>11

(* An opening brace.                                                       *)
LEMMA OpenStep ==
    ASSUME Based, MapsOk, Open
    PROVE  Based' /\ MapsOk'
<1>1. PICK y : y = NoScope
  OBVIOUS
<1>2. PICK b : b = "block"
  OBVIOUS
<1>3. /\ ~AtFile /\ scopes' = Append(scopes, None) /\ env' = Append(env, y)
      /\ blocks' = Append(blocks, b)
      /\ UNCHANGED <<unit, statics, func, counter, types, consts, enums, typedefs, typesizes,
                     structs, ents, done>>
  BY <1>1, <1>2 DEF Open
<1>4. Counts /\ EnvOk /\ BlocksOk
  BY DEF Based
<1>5. /\ Top \in Nat /\ Top >= 1 /\ Len(env) = Top /\ Len(scopes) = Top - 1
      /\ Len(scopes) \in Nat
  BY <1>4, TopIs
<1>6. IsSeq(env) /\ IsSeq(scopes)
  BY <1>4 DEF EnvOk
<1>7. /\ IsSeq(env') /\ Len(env') = Top + 1
      /\ \A i \in 1 .. Top : env'[i] = env[i]
      /\ env'[Top + 1] = y
  <2>1. PICK s : s = env
    OBVIOUS
  <2>2. env' = Append(s, y) /\ IsSeq(s) /\ Len(s) = Top
    BY <1>3, <1>5, <1>6, <2>1
  <2> QED
    BY <2>1, <2>2, Appended
<1>8. /\ IsSeq(scopes') /\ Len(scopes') = Len(scopes) + 1
      /\ \A i \in 1 .. Len(scopes) : scopes'[i] = scopes[i]
      /\ scopes'[Len(scopes) + 1] = None
  <2>1. PICK s : s = scopes
    OBVIOUS
  <2>2. PICK x : x = None
    OBVIOUS
  <2>3. scopes' = Append(s, x) /\ IsSeq(s)
    BY <1>3, <1>6, <2>1, <2>2
  <2> QED
    BY <2>1, <2>2, <2>3, Appended
<1>9. DOMAIN y.ids = {} /\ DOMAIN y.tags = {}
  BY <1>1, NoneIs DEF NoScope, Scope
<1>10. Counts'
  BY <1>3, <1>4 DEF Counts
<1>11. BlocksOk'
  <2>1. Len(scopes') = Len(scopes) + Width(b)
    BY <1>2, <1>8 DEF Width
  <2> QED
    BY <1>3, <1>4, <1>5, <2>1, BlocksOpen
<1>12. ASSUME NEW i \in 1 .. Len(env')
       PROVE  \/ i \in 1 .. Top /\ env'[i] = env[i]
              \/ DOMAIN env'[i].ids = {} /\ DOMAIN env'[i].tags = {}
  <2>1. CASE i \in 1 .. Top
    BY <1>7, <2>1
  <2>2. CASE i = Top + 1
    BY <1>7, <1>9, <2>2
  <2> QED
    BY <1>5, <1>7, <2>1, <2>2
<1>13. ASSUME NEW i \in 1 .. Len(scopes')
       PROVE  \/ i \in 1 .. Len(scopes) /\ scopes'[i] = scopes[i] /\ env'[i + 1] = env[i + 1]
              \/ DOMAIN scopes'[i] = {} /\ DOMAIN env'[i + 1].ids = {}
  <2>1. CASE i \in 1 .. Len(scopes)
    BY <1>5, <1>7, <1>8, <2>1
  <2>2. CASE i = Len(scopes) + 1
    <3>1. i + 1 = Top + 1
      BY <1>5, <2>2
    <3> QED
      BY <1>7, <1>8, <1>9, <2>2, <3>1, NoneIs
  <2> QED
    BY <1>5, <1>8, <2>1, <2>2
<1>14. Len(env') = Len(scopes') + 1 /\ Len(env') >= 1 /\ Len(scopes') \in Nat
  BY <1>5, <1>7, <1>8
<1>15. env'[1] = env[1]
  BY <1>5, <1>7
<1>16. counter <= counter' /\ done \subseteq done'
  BY <1>3, <1>4 DEF Counts
<1>17. /\ Based' /\ ConstsOk' /\ EnumsOk' /\ TypeNamesOk' /\ TagsOk'
       /\ UNCHANGED <<statics, func>> => StaticsOk'
       /\ UNCHANGED types => TypesOk'
  BY <1>3, <1>7, <1>8, <1>10, <1>11, <1>12, <1>13, <1>14, <1>15, <1>16, ScopesMove
<1> QED
  BY <1>3, <1>17 DEF MapsOk

(* A closing brace, which ends one scope or two.                           *)
LEMMA CloseStep ==
    ASSUME Based, MapsOk, Close
    PROVE  Based' /\ MapsOk'
<1>1. PICK k : k = Width(Last(blocks))
  OBVIOUS
<1>2. /\ ~AtFile /\ scopes' = Pop(scopes, k) /\ env' = Pop(env, k)
      /\ blocks' = Front(blocks)
      /\ UNCHANGED <<unit, statics, func, counter, types, consts, enums, typedefs, typesizes,
                     structs, ents, done>>
  BY <1>1 DEF Close, Width
<1>3. Counts /\ EnvOk /\ BlocksOk
  BY DEF Based
<1>4. /\ Top \in Nat /\ Top >= 1 /\ Len(env) = Top /\ Len(scopes) = Top - 1
      /\ Len(scopes) \in Nat /\ Len(scopes) # 0
  BY <1>2, <1>3, TopIs
<1>5. IsSeq(env) /\ IsSeq(scopes)
  BY <1>3 DEF EnvOk
<1>6. k \in {1, 2} /\ k <= Len(scopes) /\ (Len(scopes') = Len(scopes) - k => BlocksOk')
  BY <1>1, <1>2, <1>3, <1>4, BlocksClose
<1>7. /\ IsSeq(scopes') /\ Len(scopes') = Len(scopes) - k
      /\ \A i \in 1 .. Len(scopes) - k : scopes'[i] = scopes[i]
  <2>1. PICK s : s = scopes
    OBVIOUS
  <2>2. IsSeq(s) /\ Len(s) = Len(scopes) /\ k \in Nat /\ k <= Len(s)
    BY <1>4, <1>5, <1>6, <2>1
  <2>3. PICK q : q = Pop(s, k)
    OBVIOUS
  <2>4. /\ IsSeq(q) /\ Len(q) = Len(s) - k
        /\ \A i \in 1 .. Len(s) - k : q[i] = s[i]
    BY <2>2, <2>3, Popped
  <2>5. scopes' = q
    BY <1>2, <2>1, <2>3
  <2> QED
    BY <2>1, <2>2, <2>4, <2>5
<1>8. /\ IsSeq(env') /\ Len(env') = Top - k
      /\ \A i \in 1 .. Top - k : env'[i] = env[i]
  <2>1. PICK s : s = env
    OBVIOUS
  <2>2. IsSeq(s) /\ Len(s) = Top /\ k \in Nat /\ k <= Len(s)
    BY <1>4, <1>5, <1>6, <2>1
  <2>3. PICK q : q = Pop(s, k)
    OBVIOUS
  <2>4. /\ IsSeq(q) /\ Len(q) = Len(s) - k
        /\ \A i \in 1 .. Len(s) - k : q[i] = s[i]
    BY <2>2, <2>3, Popped
  <2>5. env' = q
    BY <1>2, <2>1, <2>3
  <2> QED
    BY <2>1, <2>2, <2>4, <2>5
<1>9. BlocksOk'
  BY <1>6, <1>7
<1>10. Counts'
  BY <1>2, <1>3 DEF Counts
<1>11. \A i \in 1 .. Len(env') :
         \/ i \in 1 .. Top /\ env'[i] = env[i]
         \/ DOMAIN env'[i].ids = {} /\ DOMAIN env'[i].tags = {}
  BY <1>4, <1>6, <1>8
<1>12. \A i \in 1 .. Len(scopes') :
         \/ i \in 1 .. Len(scopes) /\ scopes'[i] = scopes[i] /\ env'[i + 1] = env[i + 1]
         \/ DOMAIN scopes'[i] = {} /\ DOMAIN env'[i + 1].ids = {}
  BY <1>4, <1>6, <1>7, <1>8
<1>13. Len(env') = Len(scopes') + 1 /\ Len(env') >= 1 /\ Len(scopes') \in Nat
  BY <1>4, <1>6, <1>7, <1>8
<1>14. env'[1] = env[1]
  BY <1>8, <1>13
<1>15. counter <= counter' /\ done \subseteq done'
  BY <1>2, <1>3 DEF Counts
<1>16. /\ Based' /\ ConstsOk' /\ EnumsOk' /\ TypeNamesOk' /\ TagsOk'
       /\ UNCHANGED <<statics, func>> => StaticsOk'
       /\ UNCHANGED types => TypesOk'
  BY <1>2, <1>7, <1>8, <1>9, <1>10, <1>11, <1>12, <1>13, <1>14, <1>15, ScopesMove
<1> QED
  BY <1>2, <1>16 DEF MapsOk

-----------------------------------------------------------------------------
(* Declarations in a block.                                                *)

(* An automatic variable.                                                  *)
LEMMA LocalStep ==
    ASSUME Based, MapsOk, NEW n \in Names, NEW ty \in Types, Local(n, ty)
    PROVE  Based' /\ MapsOk'
<1>1. PICK e : e = Entity("auto", n, ty, AutoName(n))
  OBVIOUS
<1>2. /\ e.id = NewId /\ e.kind = "auto" /\ e.name = n /\ e.ty = ty
      /\ e.place = <<"auto", n, counter>>
      /\ e.func = IF AtFile THEN 0 ELSE func
  BY <1>1, EntityIs DEF AutoName
<1>3. /\ ~AtFile /\ Free(n) /\ Declared(e)
      /\ scopes' = InTop(e.name, e.place)
      /\ types' = Put(types, <<"auto", n, counter>>, ty)
      /\ counter' = counter + 1
      /\ UNCHANGED <<unit, statics, func, consts, enums, typedefs, typesizes, structs, blocks,
                     done>>
  BY <1>1, <1>2 DEF Local, FreeHere, AutoName
<1>4. Grows(e) /\ Adds(e)
  BY <1>2, <1>3, DeclaredAdds DEF Based
<1>5. Declaration(e)
  BY <1>2, <1>3, <1>4 DEF Declaration, Kinds, Kept
<1>6. StaticsOk' /\ ConstsOk' /\ EnumsOk' /\ TypeNamesOk' /\ TagsOk'
  BY <1>2, <1>3, <1>5, DeclarationMaps
<1>7. Counts /\ EntsOk /\ EnvOk /\ FileOk /\ ConstsOk /\ TypesOk
  BY DEF Based, MapsOk
<1>8. TypesOk'
  <2>1. FileKept(FileTyped)
    BY <1>3, <1>4, <1>7, FileKeptIf
  <2>2. Keeps
    BY <1>4, KeepsThem
  <2> QED
    BY <1>2, <1>3, <1>4, <1>7, <2>1, <2>2, TypesPutAuto
<1> QED
  BY <1>5, <1>6, <1>8, DeclarationBased DEF MapsOk

(* A static, which is found by its name alone.                             *)
LEMMA StaticLocalStep ==
    ASSUME Based, MapsOk, NEW n \in Names, NEW ty \in Types, StaticLocal(n, ty)
    PROVE  Based' /\ MapsOk'
<1>1. PICK e : e = Entity("static", n, ty, FuncName(n))
  OBVIOUS
<1>2. /\ e.id = NewId /\ e.kind = "static" /\ e.name = n /\ e.ty = ty
      /\ e.place = <<"func", n, func>>
      /\ e.func = IF AtFile THEN 0 ELSE func
  BY <1>1, EntityIs DEF FuncName
<1>3. /\ ~AtFile /\ Free(n) /\ Declared(e)
      /\ statics' = Put(statics, n, FuncName(n))
      /\ UNCHANGED <<unit, scopes, func, counter, types, consts, enums, typedefs, typesizes,
                     structs, blocks, done>>
  BY <1>1 DEF StaticLocal, FreeHere
<1>4. Grows(e) /\ Adds(e)
  BY <1>2, <1>3, DeclaredAdds DEF Based
<1>5. Declaration(e)
  BY <1>2, <1>3, <1>4 DEF Declaration, PlaceOf, Kinds, Kept
<1>6. ConstsOk' /\ EnumsOk' /\ TypeNamesOk' /\ TagsOk' /\ TypesOk'
  BY <1>2, <1>3, <1>5, DeclarationMaps DEF Kept
<1>7. StaticsOk'
  BY <1>2, <1>3, <1>4, StaticsAdd DEF MapsOk
<1> QED
  BY <1>5, <1>6, <1>7, DeclarationBased DEF MapsOk

(* A constant in a block.                                                  *)
LEMMA LocalConstexprStep ==
    ASSUME Based, MapsOk, NEW n \in Names, NEW ty \in Types, LocalConstexpr(n, ty)
    PROVE  Based' /\ MapsOk'
<1>1. PICK e : e = Entity("constexpr", n, ty, FuncName(n))
  OBVIOUS
<1>2. /\ e.id = NewId /\ e.kind = "constexpr" /\ e.name = n /\ e.ty = ty
      /\ e.place = <<"func", n, func>>
      /\ e.func = IF AtFile THEN 0 ELSE func
  BY <1>1, EntityIs DEF FuncName
<1>3. /\ ~AtFile /\ Free(n) /\ Declared(e)
      /\ scopes' = InTop(e.name, e.place)
      /\ types' = Put(types, e.place, ty)
      /\ consts' = Put(consts, e.place, NewId)
      /\ UNCHANGED <<unit, statics, func, counter, enums, typedefs, typesizes, structs, blocks,
                     done>>
  BY <1>1, <1>2 DEF LocalConstexpr, FreeHere, FuncName
<1>4. Grows(e) /\ Adds(e)
  BY <1>2, <1>3, DeclaredAdds DEF Based
<1>5. Counts /\ EntsOk /\ EnvOk /\ FileOk /\ ConstsOk /\ TypesOk
  BY DEF Based, MapsOk
<1>6. e.func # 0
  BY <1>2, <1>3, <1>5 DEF Counts
<1>7. Declaration(e)
  BY <1>2, <1>3, <1>4, <1>6 DEF Declaration, PlaceOf, Kinds, Kept
<1>8. StaticsOk' /\ EnumsOk' /\ TypeNamesOk' /\ TagsOk'
  BY <1>2, <1>3, <1>7, DeclarationMaps
<1>9. ConstsOk'
  BY <1>2, <1>3, <1>4, <1>5, ConstsAdd
<1>10. TypesOk'
  <2>1. PICK u : u = e.place
    OBVIOUS
  <2>2. u = <<"func", n, func>>
    BY <1>2, <2>1
  <2>3. \A m : FileName(m) # u
    BY <2>2 DEF FileName
  <2>4. AutosKept /\ Keeps /\ FileKept(FileTyped)
    BY <1>2, <1>3, <1>4, <1>5, AutosKeptIf, KeepsThem, FileKeptIf
  <2>5. \A i \in Autos' :
          \/ i \in Autos /\ ents'[i] = ents[i] /\ ents[i].place # u
          \/ ents'[i].place = u /\ ents'[i].ty = ty
    BY <1>5, <2>2, <2>4, PlacesDiffer DEF AutosKept, Autos
  <2>6. /\ DOMAIN consts' = DOMAIN consts \cup {u}
        /\ consts'[u] = NewId
        /\ \A v \in DOMAIN consts : v # u => consts'[v] = consts[v]
    BY <1>3, <2>1 DEF Put
  <2>7. \A v \in DOMAIN consts' :
          \/ /\ v \in DOMAIN consts /\ consts'[v] = consts[v] /\ v # u
             /\ ents'[consts[v]] = ents[consts[v]]
          \/ v = u /\ ents'[consts'[v]].ty = ty
    <3> TAKE v \in DOMAIN consts'
    <3>1. CASE v = u
      BY <1>2, <1>4, <2>6, <3>1 DEF Grows
    <3>2. CASE v # u
      <4>1. v \in DOMAIN consts /\ consts'[v] = consts[v]
        BY <2>6, <3>2
      <4>2. consts[v] \in DOMAIN ents
        BY <1>5, <4>1, ConstantIs
      <4> QED
        BY <2>4, <3>2, <4>1, <4>2 DEF Keeps
    <3> QED
      BY <3>1, <3>2
  <2>8. \A m \in Names :
          IF FileName(m) = u
          THEN AtFileIs(m, FileTyped)' /\ env'[1].ids[m].ty = ty
          ELSE /\ AtFileIs(m, FileTyped)' <=> AtFileIs(m, FileTyped)
               /\ AtFileIs(m, FileTyped) => env'[1].ids[m].ty = env[1].ids[m].ty
    BY <2>3, <2>4 DEF FileKept
  <2>9. types' = Put(types, u, ty)
    BY <1>3, <2>1
  <2>10. Retyped(u, ty)
    BY <2>5, <2>6, <2>7, <2>8, <2>9 DEF Retyped
  <2> QED
    BY <1>5, <2>10, TypesPut
<1> QED
  BY <1>7, <1>8, <1>9, <1>10, DeclarationBased DEF MapsOk

(* A type name in a block.                                                 *)
LEMMA LocalTypedefStep ==
    ASSUME Based, MapsOk, NEW n \in Names, NEW ty \in Types, LocalTypedef(n, ty)
    PROVE  Based' /\ MapsOk'
<1>1. PICK e : e = Entity("type", n, ty, FileName(n))
  OBVIOUS
<1>2. /\ e.id = NewId /\ e.kind = "type" /\ e.name = n /\ e.ty = ty /\ e.place = FileName(n)
      /\ e.func = IF AtFile THEN 0 ELSE func
  BY <1>1, EntityIs
<1>3. /\ ~AtFile /\ Free(n) /\ Declared(e)
      /\ typedefs' = typedefs \cup {n}
      /\ UNCHANGED <<unit, scopes, statics, func, counter, types, consts, enums, typesizes,
                     structs, blocks, done>>
  BY <1>1 DEF LocalTypedef, FreeHere
<1>4. Grows(e) /\ Adds(e)
  BY <1>2, <1>3, DeclaredAdds DEF Based
<1>5. Declaration(e)
  BY <1>2, <1>3, <1>4 DEF Declaration, PlaceOf, Kinds, Kept
<1>6. StaticsOk' /\ ConstsOk' /\ TypesOk' /\ EnumsOk' /\ TagsOk'
  BY <1>2, <1>3, <1>5, DeclarationMaps DEF Kept, FileTyped
<1>7. TypeNamesOk'
  BY <1>2, <1>3, <1>4, TypeNamesAdd DEF MapsOk, Based
<1> QED
  BY <1>5, <1>6, <1>7, DeclarationBased DEF MapsOk

(* An extern, which the parser skips.                                      *)
LEMMA LocalExternStep ==
    ASSUME Based, MapsOk, NEW n \in Names, NEW ty \in Types, LocalExtern(n, ty)
    PROVE  Based' /\ MapsOk'
<1>1. PICK e : e = Entity("global", n, ty, FileName(n))
  OBVIOUS
<1>2. /\ e.id = NewId /\ e.kind = "global" /\ e.name = n /\ e.ty = ty /\ e.place = FileName(n)
      /\ e.func = IF AtFile THEN 0 ELSE func
  BY <1>1, EntityIs
<1>3. /\ ~AtFile /\ Free(n) /\ Declared(e)
      /\ n \in DOMAIN env[1].ids => env[1].ids[n].kind = "global"
      /\ \A i \in Linked(n) : ents[i].ty = ty
      /\ UNCHANGED <<unit, scopes, statics, func, counter, types, consts, enums, typedefs,
                     typesizes, structs, blocks, done>>
  BY <1>1 DEF LocalExtern, FreeHere, code
<1>4. Grows(e) /\ Adds(e)
  BY <1>2, <1>3, DeclaredAdds DEF Based
<1>5. Declaration(e)
  BY <1>2, <1>3, <1>4 DEF Declaration, PlaceOf, Kinds, Kept
<1>6. StaticsOk' /\ ConstsOk' /\ TypesOk' /\ EnumsOk' /\ TypeNamesOk' /\ TagsOk'
  BY <1>2, <1>3, <1>5, DeclarationMaps DEF Kept
<1> QED
  BY <1>5, <1>6, DeclarationBased DEF MapsOk


-----------------------------------------------------------------------------
(* The invariant holds.                                                    *)

(* It holds before the first declaration.                                  *)
LEMMA InitHolds ==
    ASSUME Init
    PROVE  Based /\ MapsOk
<1>1. /\ unit \in Units /\ scopes = << >> /\ statics = None /\ func = 0 /\ counter = 0
      /\ types = None /\ consts = None /\ enums = None /\ typedefs = {} /\ typesizes = None
      /\ structs = None /\ env = <<NoScope>> /\ ents = << >> /\ blocks = << >> /\ done = {}
  BY DEF Init
<1>2. PICK y : y = NoScope
  OBVIOUS
<1>3. DOMAIN y.ids = {} /\ DOMAIN y.tags = {}
  BY <1>2, NoneIs DEF NoScope, Scope
<1>4. IsSeq(env) /\ Len(env) = 1 /\ env[1] = y
  BY <1>1, <1>2, Few
<1>5. /\ IsSeq(scopes) /\ Len(scopes) = 0 /\ AtFile
      /\ IsSeq(ents) /\ IsSeq(blocks) /\ Len(blocks) = 0
  BY <1>1, Few DEF AtFile
<1>6. DOMAIN ents = {}
  BY <1>1
<1>7. \A k, n : Ever(k, n) = {} /\ InFunction(k, n) = {}
  BY <1>6 DEF Ever, InFunction
<1>8. \A n, ks : ~AtFileIs(n, ks)
  BY <1>3, <1>4 DEF AtFileIs
<1>9. Counts
  BY <1>1, <1>5 DEF Counts
<1>10. EntsOk
  BY <1>5, <1>6 DEF EntsOk, Autos
<1>11. EnvOk
  BY <1>3, <1>4, <1>5 DEF EnvOk
<1>12. ScopesOk
  BY <1>5 DEF ScopesOk
<1>13. BlocksOk
  <2>1. PICK d : d = [i \in {0} |-> 0]
    OBVIOUS
  <2>2. d[0] = 0
    BY <2>1
  <2>3. Depths(d)
    BY <1>5, <2>2 DEF Depths
  <2> QED
    BY <1>5, <2>3 DEF BlocksOk
<1>14. FileOk
  BY <1>3, <1>4, <1>6 DEF FileOk, Linked
<1>15. StaticsOk /\ EnumsOk /\ TypeNamesOk
  BY <1>1, <1>7, <1>8, NoneIs DEF StaticsOk, EnumsOk, TypeNamesOk
<1>16. ConstsOk /\ TypesOk
  BY <1>1, <1>6, <1>8, NoneIs DEF ConstsOk, TypesOk, Autos
<1>17. TagsOk
  BY <1>1, <1>3, <1>4, <1>7, NoneIs DEF TagsOk
<1> QED
  BY <1>9, <1>10, <1>11, <1>12, <1>13, <1>14, <1>15, <1>16, <1>17 DEF Based, MapsOk

(* The end of the unit changes no map.                                     *)
LEMMA NothingStep ==
    ASSUME Based, MapsOk,
           UNCHANGED <<unit, scopes, statics, func, counter, types, consts, enums, typedefs,
                       typesizes, structs, env, ents, blocks, done>>
    PROVE  Based' /\ MapsOk'
<1>1. Counts /\ EnvOk
  BY DEF Based
<1>2. counter' \in Nat /\ counter <= counter' /\ func' \in Nat
  BY <1>1 DEF Counts
<1>3. Based'
  BY <1>2, StillBased
<1>4. /\ ConstsOk' /\ EnumsOk' /\ TypeNamesOk' /\ TagsOk' /\ StaticsOk' /\ TypesOk'
  BY <1>1, StillMaps
<1> QED
  BY <1>3, <1>4 DEF MapsOk

(* Every action keeps it.                                                  *)
LEMMA StepHolds ==
    ASSUME IInv, [Next]_vars
    PROVE  IInv'
<1> SUFFICES ASSUME status' # "fatal"
             PROVE  Based' /\ MapsOk'
  BY DEF IInv
<1>1. CASE UNCHANGED vars
  BY <1>1, NothingStep DEF IInv, vars, code
<1>2. CASE Terminated
  BY <1>2, NothingStep DEF IInv, Terminated, vars, code
<1>3. CASE Eof
  BY <1>3, NothingStep DEF IInv, Eof, code
<1>4. ASSUME NEW n \in Names, NEW ty \in Types, status = "parsing",
             \/ FileVar(n, ty) \/ FileVarAgain(n, ty) \/ FileConstexpr(n, ty)
             \/ FileTypedef(n, ty) \/ For(n, ty) \/ Local(n, ty) \/ StaticLocal(n, ty)
             \/ LocalConstexpr(n, ty) \/ LocalTypedef(n, ty) \/ LocalExtern(n, ty)
      PROVE  Based' /\ MapsOk'
  <2>1. Based /\ MapsOk /\ status # "fatal"
    BY <1>4 DEF IInv
  <2>2. CASE FileVar(n, ty)
    BY <2>1, <2>2, FileVarStep
  <2>3. CASE FileVarAgain(n, ty)
    BY <2>1, <2>3, FileVarAgainStep
  <2>4. CASE FileConstexpr(n, ty)
    BY <2>1, <2>4, FileConstexprStep
  <2>5. CASE FileTypedef(n, ty)
    BY <2>1, <2>5, FileTypedefStep
  <2>6. CASE For(n, ty)
    BY <2>1, <2>6, ForStep
  <2>7. CASE Local(n, ty)
    BY <2>1, <2>7, LocalStep
  <2>8. CASE StaticLocal(n, ty)
    BY <2>1, <2>8, StaticLocalStep
  <2>9. CASE LocalConstexpr(n, ty)
    BY <2>1, <2>9, LocalConstexprStep
  <2>10. CASE LocalTypedef(n, ty)
    BY <2>1, <2>10, LocalTypedefStep
  <2>11. CASE LocalExtern(n, ty)
    BY <2>1, <2>11, LocalExternStep
  <2> QED
    BY <1>4, <2>2, <2>3, <2>4, <2>5, <2>6, <2>7, <2>8, <2>9, <2>10, <2>11
<1>5. CASE \E n \in Names, ty \in Types :
              \/ FileVar(n, ty) \/ FileVarAgain(n, ty) \/ FileConstexpr(n, ty)
              \/ FileTypedef(n, ty) \/ For(n, ty) \/ Local(n, ty) \/ StaticLocal(n, ty)
              \/ LocalConstexpr(n, ty) \/ LocalTypedef(n, ty) \/ LocalExtern(n, ty)
  <2>1. PICK n \in Names, ty \in Types :
              \/ FileVar(n, ty) \/ FileVarAgain(n, ty) \/ FileConstexpr(n, ty)
              \/ FileTypedef(n, ty) \/ For(n, ty) \/ Local(n, ty) \/ StaticLocal(n, ty)
              \/ LocalConstexpr(n, ty) \/ LocalTypedef(n, ty) \/ LocalExtern(n, ty)
    BY <1>5
  <2>2. status = "parsing"
    BY <2>1 DEF FileVar, FileVarAgain, FileConstexpr, FileTypedef, For, Local, StaticLocal,
                LocalConstexpr, LocalTypedef, LocalExtern, May
  <2> QED
    BY <1>4, <2>1, <2>2
<1>6. CASE \E n \in Names : Enum(n) \/ Redefined(n)
  <2>1. PICK n \in Names : Enum(n) \/ Redefined(n)
    BY <1>6
  <2>2. CASE Enum(n)
    <3>1. status = "parsing"
      BY <2>2 DEF Enum, May
    <3> QED
      BY <2>2, <3>1, EnumStep DEF IInv
  <2>3. CASE Redefined(n)
    BY <2>3 DEF Redefined
  <2> QED
    BY <2>1, <2>2, <2>3
<1>7. CASE \E t \in DOMAIN unit.bodies : FileStruct(t) \/ LocalStruct(t)
  <2>1. PICK t \in DOMAIN unit.bodies : FileStruct(t) \/ LocalStruct(t)
    BY <1>7
  <2>2. status = "parsing"
    BY <2>1 DEF FileStruct, LocalStruct, MayDefine, May
  <2>3. Based /\ MapsOk
    BY <2>2 DEF IInv
  <2> QED
    BY <2>1, <2>3, FileStructStep, LocalStructStep
<1>8. CASE \E f \in 1 .. unit.funcs, ps \in ParamLists : Prototype(f, ps) \/ Begin(f, ps)
  <2>1. PICK f \in 1 .. unit.funcs, ps \in ParamLists : Prototype(f, ps) \/ Begin(f, ps)
    BY <1>8
  <2>2. status = "parsing"
    BY <2>1 DEF Prototype, Begin
  <2>3. Based /\ MapsOk
    BY <2>2 DEF IInv
  <2> QED
    BY <2>1, <2>3, PrototypeStep, BeginStep
<1>9. CASE Open \/ Close
  <2>1. status = "parsing"
    BY <1>9 DEF Open, Close
  <2> QED
    BY <1>9, <2>1, OpenStep, CloseStep DEF IInv
<1> QED
  BY <1>1, <1>2, <1>3, <1>5, <1>6, <1>7, <1>8, <1>9 DEF Next

-----------------------------------------------------------------------------
(* What the parser and C make of an identifier, by cases.                  *)

(* n denotes e, which is declared in the scope lv.                         *)
Innermost(lv, n, e) ==
    /\ lv \in 1 .. Top /\ n \in DOMAIN env[lv].ids /\ e = env[lv].ids[n]
    /\ \A i \in 1 .. Top : lv < i => n \notin DOMAIN env[i].ids

Agrees(n, e) == (Primary(n) = Expected(e) /\ Alone(e)) <=> ~UseGap(n, e)

(* A set is no more than an element if that is its latest and only one.    *)
LEMMA OneLeft ==
    ASSUME NEW k \in Nat, NEW I, I \subseteq 1 .. k, NEW x \in I
    PROVE  I = {x} <=> ~(x # Max(I) \/ Cardinality(I) > 1)
<1>1. IsFiniteSet(I)
  <2>1. IsFiniteSet(1 .. k)
    BY FS_Interval
  <2> QED
    BY <2>1, FS_Subset
<1>2. PICK c : c = Cardinality(I)
  OBVIOUS
<1>3. /\ c \in Nat /\ (c = 0 <=> I = {}) /\ (c = 1 <=> \E y : I = {y})
  BY <1>1, <1>2, FS_CardinalityType, FS_EmptySet, FS_Singleton
<1>4. ASSUME I = {x}
      PROVE  x = Max(I) /\ ~(c > 1)
  <2>1. Latest(x, I) /\ I \subseteq Nat
    BY <1>4 DEF Latest
  <2>2. c = 1
    BY <1>3, <1>4
  <2>3. Max(I) = x
    BY <2>1, LatestIsMax
  <2> QED
    BY <2>2, <2>3
<1>5. ASSUME ~(c > 1)
      PROVE  I = {x}
  <2>1. c = 1
    BY <1>3, <1>5
  <2> QED
    BY <1>3, <2>1
<1> QED
  BY <1>2, <1>4, <1>5

(* Tokens are equal in all their parts.                                    *)
LEMMA TokensDiffer ==
    /\ \A v, w, ty, uy : Number(v, ty) = Number(w, uy) <=> v = w /\ ty = uy
    /\ \A v, w, ty, uy : Variable(v, ty) = Variable(w, uy) <=> v = w /\ ty = uy
    /\ \A v, w, ty, uy : Number(v, ty) # Variable(w, uy)
BY DEF Number, Variable

(* The branches of primary.                                                *)
LEMMA PrimaryIs ==
    ASSUME NEW n, NEW u, u = IF n \in DOMAIN statics THEN statics[n] ELSE ResolveName(n),
           NEW b, b = (u = FileName(n) /\ u \notin DOMAIN types /\ n \in DOMAIN enums)
    PROVE  /\ b => Primary(n) = Number(enums[n], "int")
           /\ ~b /\ u \in DOMAIN consts => Primary(n) = Number(consts[u], types[u])
           /\ ~b /\ u \notin DOMAIN consts /\ u \in DOMAIN types =>
                Primary(n) = Variable(u, types[u])
           /\ ~b /\ u \notin DOMAIN consts /\ u \notin DOMAIN types =>
                Primary(n) = Variable(u, "long")
BY DEF Primary

(* What C makes of an entity, by its kind.                                 *)
LEMMA ExpectedIs ==
    ASSUME NEW e
    PROVE  /\ e.kind \in {"enum", "constexpr"} => Expected(e) = Number(e.id, e.ty)
           /\ e.kind \notin {"enum", "constexpr"} => Expected(e) = Variable(e.place, e.ty)
           /\ e.kind \notin {"auto", "static", "global"} => Alone(e)
BY DEF Expected, Alone, Objects

(* The cases that matter, by the kind of the entity.                       *)
LEMMA GapIs ==
    ASSUME NEW n, NEW e
    PROVE  /\ e.kind \in {"auto", "static"} => (UseGap(n, e) <=> StaticGap(n, e))
           /\ e.kind = "constexpr" => (UseGap(n, e) <=> StaticGap(n, e) \/ ConstexprGap(n, e))
           /\ e.kind = "enum" => (UseGap(n, e) <=> StaticGap(n, e) \/ EnumGap(n, e))
           /\ e.kind = "global" => (UseGap(n, e) <=> StaticGap(n, e) \/ ExternGap(n, e))
           /\ InFunction("static", n) = {} => ~StaticGap(n, e)
           /\ StaticGap(n, e) => UseGap(n, e)
BY DEF UseGap, StaticGap, ConstexprGap, EnumGap, ExternGap

(* The entities of a kind and a name are numbered.                         *)
LEMMA EverIs ==
    ASSUME EntsOk, NEW k, NEW n
    PROVE  /\ Ever(k, n) \subseteq 1 .. Len(ents) /\ InFunction(k, n) \subseteq Ever(k, n)
           /\ Len(ents) \in Nat
<1>1. Len(ents) \in Nat /\ DOMAIN ents = 1 .. Len(ents)
  BY SeqIs DEF EntsOk
<1> QED
  BY <1>1 DEF Ever, InFunction

(* A name in a scope denotes an entity that C may declare there.           *)
LEMMA DenotesEntity ==
    ASSUME Based, NEW lv \in 1 .. Top, NEW n \in DOMAIN env[lv].ids,
           NEW e, e = env[lv].ids[n]
    PROVE  /\ n \in Names /\ e.id \in DOMAIN ents /\ e = ents[e.id] /\ e.name = n
           /\ e.kind \in Kinds /\ e.kind # "struct"
           /\ e.func = IF lv = 1 THEN 0 ELSE func
           /\ lv # 1 => func # 0 /\ ~AtFile
           /\ e.kind \in {"auto", "static"} => e.func # 0
           /\ e.kind = "enum" => e.ty = "int"
           /\ e.kind # "auto" => e.place = PlaceOf(e)
           /\ e.id \in Ever(e.kind, n)
           /\ e.func = func => e.id \in InFunction(e.kind, n)
<1>1. Counts /\ EntsOk /\ EnvOk
  BY DEF Based
<1>2. NamedIn(lv, n, e)
  BY <1>1 DEF EnvOk, Top
<1>3. PICK i : i = e.id
  OBVIOUS
<1>4. i \in DOMAIN ents /\ ents[i] = e
  BY <1>2, <1>3 DEF NamedIn
<1>5. EntityOk(i, e)
  BY <1>1, <1>4 DEF EntsOk
<1>6. lv # 1 => ~AtFile
  BY <1>1, TopIs
<1>7. lv # 1 => func # 0
  BY <1>1, <1>6 DEF Counts
<1>8. e.id \in Ever(e.kind, n)
  BY <1>2, <1>3, <1>4 DEF NamedIn, Ever
<1>9. e.func = func => e.id \in InFunction(e.kind, n)
  BY <1>3, <1>4, <1>8 DEF InFunction
<1> QED
  BY <1>2, <1>3, <1>5, <1>6, <1>7, <1>8, <1>9 DEF NamedIn, EntityOk

(* A constant is meant unless a later one took its place.                  *)
LEMMA LatestConstant ==
    ASSUME Counts, EntsOk, NEW n, NEW e, e.id \in DOMAIN ents, e = ents[e.id], e.name = n,
           e.kind = "constexpr",
           NEW x, Latest(x, Constants(e.place))
    PROVE  ConstexprGap(n, e) <=> x # e.id
<1>1. Len(ents) \in Nat /\ DOMAIN ents = 1 .. Len(ents)
  BY SeqIs DEF EntsOk
<1>2. x \in DOMAIN ents /\ ents[x].kind = "constexpr" /\ ents[x].place = e.place
  BY DEF Latest, Constants
<1>3. e.id \in Constants(e.place)
  BY DEF Constants
<1>4. e.id <= x /\ e.id \in Nat /\ x \in Nat
  BY <1>1, <1>2, <1>3 DEF Latest
<1>5. ASSUME x # e.id
      PROVE  ConstexprGap(n, e)
  <2>1. ents[x].place = PlaceOf(ents[x]) /\ e.place = PlaceOf(e)
    BY <1>2, PlacesDiffer
  <2>2. ents[x].name = n
    <3>1. \A z : PlaceOf(z)[2] = z.name
      BY DEF PlaceOf, FileName
    <3>2. PlaceOf(ents[x]) = PlaceOf(e)
      BY <1>2, <2>1
    <3>3. PlaceOf(ents[x])[2] = ents[x].name /\ PlaceOf(e)[2] = e.name
      BY <3>1
    <3> QED
      BY <3>2, <3>3, Zenon
  <2>3. x \in Ever("constexpr", n)
    BY <1>2, <2>2 DEF Ever
  <2> QED
    BY <1>2, <1>4, <1>5, <2>3 DEF ConstexprGap
<1>6. ASSUME ConstexprGap(n, e)
      PROVE  x # e.id
  <2>1. PICK i \in Ever("constexpr", n) : i > e.id /\ ents[i].place = e.place
    BY <1>6 DEF ConstexprGap
  <2>2. i \in Constants(e.place) /\ i \in Nat
    BY <1>1, <2>1 DEF Ever, Constants
  <2> QED
    BY <1>4, <2>1, <2>2 DEF Latest
<1> QED
  BY <1>5, <1>6

(* The statics of a name and a function share their storage.               *)
LEMMA AloneStatic ==
    ASSUME Counts, EntsOk, NEW n, NEW e, e.kind = "static", func # 0,
           e.place = <<"func", n, func>>, e.id \in InFunction("static", n)
    PROVE  Alone(e) <=> InFunction("static", n) = {e.id}
<1>1. ASSUME NEW i \in DOMAIN ents
      PROVE  ents[i].kind \in Objects /\ ents[i].place = e.place <=> i \in InFunction("static", n)
  <2>1. EntityOk(i, ents[i])
    BY DEF EntsOk
  <2>2. ASSUME ents[i].kind \in Objects, ents[i].place = e.place
        PROVE  i \in InFunction("static", n)
    <3>1. ents[i].kind # "auto"
      BY <2>2, PlacesDiffer
    <3>2. <<"func", n, func>> = PlaceOf(ents[i])
      BY <2>2, <3>1, PlacesDiffer
    <3>3. ents[i].kind = "static" /\ ents[i].name = n /\ ents[i].func = func
      BY <2>2, <3>1, <3>2 DEF Objects, PlaceOf, FileName
    <3> QED
      BY <3>3 DEF InFunction, Ever
  <2>3. ASSUME i \in InFunction("static", n)
        PROVE  ents[i].kind \in Objects /\ ents[i].place = e.place
    <3>1. ents[i].kind = "static" /\ ents[i].name = n /\ ents[i].func = func
      BY <2>3 DEF InFunction, Ever
    <3>2. ents[i].place = PlaceOf(ents[i])
      BY <3>1, PlacesDiffer
    <3> QED
      BY <3>1, <3>2 DEF Objects, PlaceOf
  <2> QED
    BY <2>2, <2>3
<1>2. InFunction("static", n) \subseteq DOMAIN ents
  BY DEF InFunction, Ever
<1>3. Alone(e) <=> \A i \in DOMAIN ents :
          ents[i].kind \in Objects /\ ents[i].place = e.place => i = e.id
  BY <1>1 DEF Alone, Objects, InFunction, Ever
<1> QED
  BY <1>1, <1>2, <1>3

(* The storage of an automatic variable is its own.                        *)
LEMMA AloneAuto ==
    ASSUME Counts, EntsOk, NEW e, e.kind = "auto", e.id \in DOMAIN ents, e = ents[e.id]
    PROVE  Alone(e)
<1> SUFFICES ASSUME NEW i \in DOMAIN ents, ents[i].kind \in Objects, ents[i].place = e.place
             PROVE  i = e.id
  BY DEF Alone
<1>1. PICK j : j = e.id
  OBVIOUS
<1>2. j \in Autos /\ ents[j] = e
  BY <1>1 DEF Autos
<1>3. ents[i].kind = "auto"
  <2>1. ASSUME ents[i].kind # "auto"
        PROVE  FALSE
    <3>1. PICK p : p = ents[i]
      OBVIOUS
    <3>2. e.place = PlaceOf(p)
      BY <2>1, <3>1, PlacesDiffer
    <3>3. e.place = <<"func", p.name, p.func>> \/ e.place = FileName(p.name)
      BY <3>2 DEF PlaceOf
    <3> QED
      BY <1>2, <3>3, PlacesDiffer DEF Autos
  <2> QED
    BY <2>1
<1>4. i \in Autos
  BY <1>3 DEF Autos
<1> QED
  BY <1>1, <1>2, <1>4 DEF EntsOk

(* The storage of an object of the file is that of its name.               *)
LEMMA AloneGlobal ==
    ASSUME Counts, EntsOk, NEW n, NEW e, e.kind = "global", e.place = FileName(n)
    PROVE  Alone(e)
<1> SUFFICES ASSUME NEW i \in DOMAIN ents, ents[i].kind \in Objects, ents[i].place = e.place
             PROVE  ents[i].kind = "global"
  BY DEF Alone
<1>1. EntityOk(i, ents[i])
  BY DEF EntsOk
<1>2. ents[i].kind # "auto"
  BY PlacesDiffer
<1>3. ents[i].place = PlaceOf(ents[i])
  BY <1>2, PlacesDiffer
<1>4. ents[i].kind # "static"
  BY <1>3 DEF PlaceOf, FileName
<1> QED
  BY <1>2, <1>4 DEF Objects

(* A static of the function is found first.                                *)
LEMMA AgreesStatic ==
    ASSUME Based, MapsOk, NEW lv, NEW n, NEW e, Innermost(lv, n, e), e.kind # "type",
           InFunction("static", n) # {}
    PROVE  Agrees(n, e)
<1> DEFINE s == InFunction("static", n)
           c == InFunction("constexpr", n)
<1>1. Counts /\ EntsOk /\ EnvOk /\ FileOk /\ StaticsOk /\ ConstsOk /\ TypesOk
  BY DEF Based, MapsOk
<1>2. /\ n \in Names /\ e.id \in DOMAIN ents /\ e = ents[e.id] /\ e.name = n
      /\ e.kind \in Kinds /\ e.kind # "struct"
      /\ e.func = 0 \/ e.func = func
      /\ e.kind \in {"auto", "static"} => e.func # 0
      /\ e.kind = "enum" => e.ty = "int"
      /\ e.kind # "auto" => e.place = PlaceOf(e)
      /\ e.func = func => e.id \in InFunction(e.kind, n)
  BY DenotesEntity DEF Innermost
<1>3. /\ s \subseteq 1 .. Len(ents) /\ Len(ents) \in Nat
  <2>1. PICK z : z = s
    OBVIOUS
  <2> QED
    BY <1>1, EverIs
<1>4. PICK u : u = <<"func", n, func>>
  OBVIOUS
<1>5. n \in DOMAIN statics /\ statics[n] = u
  BY <1>1, <1>2, <1>4 DEF StaticsOk, FuncName
<1>6. u # FileName(n) /\ u[1] = "func"
  BY <1>4 DEF FileName
<1>7. func # 0
  <2>1. PICK i \in s : TRUE
    OBVIOUS
  <2>2. i \in DOMAIN ents /\ ents[i].kind = "static" /\ ents[i].func = func
    BY <2>1 DEF InFunction, Ever
  <2>3. EntityOk(i, ents[i])
    BY <1>1, <2>2 DEF EntsOk
  <2> QED
    BY <2>2, <2>3 DEF EntityOk
<1>8. /\ u \in DOMAIN consts => Primary(n) = Number(consts[u], types[u])
      /\ u \notin DOMAIN consts => Primary(n) = Variable(u, "long")
  <2>1. u = IF n \in DOMAIN statics THEN statics[n] ELSE ResolveName(n)
    BY <1>5
  <2>2. u \notin DOMAIN consts => u \notin DOMAIN types
    BY <1>1, <1>6 DEF TypesOk
  <2>3. PICK b \in BOOLEAN : b = (u = FileName(n) /\ u \notin DOMAIN types /\ n \in DOMAIN enums)
    OBVIOUS
  <2>4. ~b
    BY <1>6, <2>3
  <2> QED
    BY <2>1, <2>2, <2>3, <2>4, PrimaryIs
<1>9. \A i \in c : i \in DOMAIN ents /\ ents[i].kind = "constexpr" /\ ents[i].place = u
  <2> TAKE i \in c
  <2>1. /\ i \in DOMAIN ents /\ ents[i].kind = "constexpr" /\ ents[i].name = n
        /\ ents[i].func = func
    BY DEF InFunction, Ever
  <2>2. ents[i].place = PlaceOf(ents[i])
    BY <1>1, <2>1, PlacesDiffer
  <2> QED
    BY <1>4, <1>7, <2>1, <2>2 DEF PlaceOf
<1>10. u \in DOMAIN consts =>
         /\ Latest(consts[u], Constants(u)) /\ types[u] = ents[consts[u]].ty
         /\ consts[u] \in c /\ ents[consts[u]].kind = "constexpr" /\ ents[consts[u]].place = u
  <2> HAVE u \in DOMAIN consts
  <2>1. /\ consts[u] \in DOMAIN ents /\ ents[consts[u]].kind = "constexpr"
        /\ ents[consts[u]].place = u
        /\ ents[consts[u]].name = n /\ ents[consts[u]].func = func
    BY <1>1, <1>4, ConstantIs
  <2>2. consts[u] \in c
    BY <2>1 DEF InFunction, Ever
  <2>3. Latest(consts[u], Constants(u)) /\ types[u] = ents[consts[u]].ty
    BY <1>1 DEF ConstsOk, TypesOk
  <2> QED
    BY <2>1, <2>2, <2>3
<1>11. c # {} <=> u \in DOMAIN consts
  BY <1>1, <1>9, <1>10 DEF ConstsOk
(* A constant of the function replaced it.                                 *)
<1>12. CASE u \in DOMAIN consts /\ e.kind = "constexpr" /\ e.func = func
  <2>1. e.id \in c
    BY <1>2, <1>12
  <2>2. e.place = u
    BY <1>2, <1>9, <2>1
  <2>3. PICK x : x = consts[u]
    OBVIOUS
  <2>4. Latest(x, Constants(u)) /\ types[u] = ents[x].ty
    BY <1>10, <1>12, <2>3
  <2>5. Primary(n) = Expected(e) <=> x = e.id
    <3>1. Primary(n) = Number(x, ents[x].ty) /\ Expected(e) = Number(e.id, e.ty)
      BY <1>8, <1>12, <2>3, <2>4, ExpectedIs
    <3> QED
      BY <1>2, <3>1, TokensDiffer
  <2>6. ~StaticGap(n, e)
    BY <1>12 DEF StaticGap
  <2>7. ConstexprGap(n, e) <=> x # e.id
    BY <1>1, <1>2, <1>12, <2>2, <2>4, LatestConstant
  <2> QED
    BY <1>12, <2>5, <2>6, <2>7, GapIs, ExpectedIs DEF Agrees
<1>13. CASE u \in DOMAIN consts /\ ~(e.kind = "constexpr" /\ e.func = func)
  <2>1. StaticGap(n, e)
    BY <1>11, <1>13 DEF StaticGap
  <2>2. PICK x : x = consts[u]
    OBVIOUS
  <2>3. x \in c /\ ents[x].kind = "constexpr" /\ ents[x].func = func
    BY <1>10, <1>13, <2>2 DEF InFunction
  <2>4. x # e.id
    BY <1>2, <1>13, <2>3
  <2>5. Primary(n) = Number(x, types[u])
    BY <1>8, <1>13, <2>2
  <2>6. Primary(n) # Expected(e)
    <3>1. CASE e.kind \in {"enum", "constexpr"}
      BY <2>4, <2>5, <3>1, ExpectedIs, TokensDiffer
    <3>2. CASE e.kind \notin {"enum", "constexpr"}
      BY <2>5, <3>2, ExpectedIs, TokensDiffer
    <3> QED
      BY <3>1, <3>2
  <2> QED
    BY <2>1, <2>6, GapIs DEF Agrees
(* The static is meant, or hides what is.                                  *)
<1>14. CASE u \notin DOMAIN consts /\ e.id \in s
  <2>1. ents[e.id].kind = "static" /\ ents[e.id].func = func
    BY <1>14 DEF InFunction, Ever
  <2>2. e.kind = "static" /\ e.func = func
    BY <1>2, <2>1
  <2>3. e.place = u
    BY <1>2, <1>4, <2>2 DEF PlaceOf
  <2>4. Primary(n) = Expected(e) <=> e.ty = "long"
    BY <1>8, <1>14, <2>2, <2>3, ExpectedIs, TokensDiffer
  <2>5. Alone(e) <=> s = {e.id}
    BY <1>1, <1>4, <1>7, <1>14, <2>2, <2>3, AloneStatic
  <2>6. s = {e.id} <=> ~(e.id # Max(s) \/ Cardinality(s) > 1)
    <3>1. PICK z : z = s
      OBVIOUS
    <3>2. z \subseteq 1 .. Len(ents) /\ e.id \in z
      BY <1>3, <1>14, <3>1
    <3>3. z = {e.id} <=> ~(e.id # Max(z) \/ Cardinality(z) > 1)
      BY <1>3, <3>2, OneLeft
    <3> QED
      BY <3>1, <3>3
  <2>7. StaticGap(n, e) <=> e.id # Max(s) \/ Cardinality(s) > 1 \/ e.ty # "long"
    BY <1>11, <1>14, <2>2 DEF StaticGap
  <2>8. UseGap(n, e) <=> StaticGap(n, e)
    BY <2>2, GapIs
  <2> QED
    BY <2>4, <2>5, <2>6, <2>7, <2>8 DEF Agrees
<1>15. CASE u \notin DOMAIN consts /\ e.id \notin s
  <2>1. e.id # Max(s)
    <3>1. Latest(Max(s), s)
      BY <1>3, MaxIsLatest
    <3> QED
      BY <1>15, <3>1 DEF Latest
  <2>2. ~(e.kind = "constexpr" /\ e.func = func)
    BY <1>2, <1>11, <1>15
  <2>3. StaticGap(n, e)
    BY <2>1, <2>2 DEF StaticGap
  <2>4. Primary(n) = Variable(u, "long")
    BY <1>8, <1>15
  <2>5. CASE e.kind \in {"enum", "constexpr"}
    BY <2>3, <2>4, <2>5, ExpectedIs, TokensDiffer, GapIs DEF Agrees
  <2>6. CASE e.kind \notin {"enum", "constexpr"}
    <3>1. e.kind # "static"
      BY <1>2, <1>15
    <3>2. e.place # u
      <4>1. CASE e.kind = "auto"
        BY <1>1, <1>2, <1>4, <4>1, PlacesDiffer
      <4>2. CASE e.kind # "auto"
        BY <1>2, <1>6, <2>6, <3>1, <4>2 DEF PlaceOf
      <4> QED
        BY <4>1, <4>2
    <3> QED
      BY <2>3, <2>4, <2>6, <3>2, ExpectedIs, TokensDiffer, GapIs DEF Agrees
  <2> QED
    BY <2>5, <2>6
<1> QED
  BY <1>12, <1>13, <1>14, <1>15

(* Otherwise the innermost automatic variable or constant is found.        *)
LEMMA AgreesLocal ==
    ASSUME Based, MapsOk, NEW lv, NEW n, NEW e, Innermost(lv, n, e), e.kind # "type",
           InFunction("static", n) = {},
           {i \in DOMAIN scopes : n \in DOMAIN scopes[i]} # {}
    PROVE  Agrees(n, e)
<1> DEFINE at == {i \in DOMAIN scopes : n \in DOMAIN scopes[i]}
<1>1. Counts /\ EntsOk /\ EnvOk /\ ScopesOk /\ FileOk /\ StaticsOk /\ ConstsOk /\ TypesOk
  BY DEF Based, MapsOk
<1>2. /\ n \in Names /\ e.id \in DOMAIN ents /\ e = ents[e.id] /\ e.name = n
      /\ e.kind \in Kinds /\ e.kind # "struct"
      /\ e.func = IF lv = 1 THEN 0 ELSE func
      /\ e.kind = "enum" => e.ty = "int"
      /\ e.kind # "auto" => e.place = PlaceOf(e)
      /\ e.func = func => e.id \in InFunction(e.kind, n)
  BY DenotesEntity DEF Innermost
<1>3. /\ Top \in Nat /\ Len(scopes) \in Nat /\ Len(scopes) = Top - 1
      /\ DOMAIN scopes = 1 .. Len(scopes)
  BY <1>1, TopIs
<1>4. PICK m : m = Max(at)
  OBVIOUS
<1>5. m \in 1 .. Len(scopes) /\ n \in DOMAIN scopes[m]
      /\ \A i \in 1 .. Len(scopes) : n \in DOMAIN scopes[i] => i <= m
  <2>1. PICK z : z = at
    OBVIOUS
  <2>2. z \subseteq 1 .. Len(scopes) /\ z # {}
    BY <1>3, <2>1
  <2>3. Latest(Max(z), z)
    BY <1>3, <2>2, MaxIsLatest
  <2> QED
    BY <1>3, <1>4, <2>1, <2>3 DEF Latest
<1>6. PICK h : h = env[m + 1].ids[n]
  OBVIOUS
<1>7. /\ m + 1 \in 1 .. Top /\ n \in DOMAIN env[m + 1].ids
      /\ h.kind \in Kept /\ scopes[m][n] = h.place
  <2>1. ScopeOk(m)
    BY <1>1, <1>5 DEF ScopesOk
  <2> QED
    BY <1>2, <1>3, <1>5, <1>6, <2>1 DEF ScopeOk
<1>8. /\ h.id \in DOMAIN ents /\ h = ents[h.id] /\ h.name = n /\ h.func = func /\ func # 0
      /\ h.kind # "auto" => h.place = PlaceOf(h)
  <2>1. m + 1 # 1
    BY <1>5
  <2> QED
    BY <1>6, <1>7, <2>1, DenotesEntity
<1>9. LocalAround(n)
  BY <1>3, <1>5, <1>6, <1>7 DEF LocalAround, Kept
<1>10. PICK u : u = h.place
  OBVIOUS
<1>11. u # FileName(n)
  <2>1. CASE h.kind = "auto"
    BY <1>1, <1>8, <1>10, <2>1, PlacesDiffer
  <2>2. CASE h.kind = "constexpr"
    BY <1>8, <1>10, <2>2 DEF PlaceOf, FileName
  <2> QED
    BY <1>7, <2>1, <2>2 DEF Kept
<1>12. u = IF n \in DOMAIN statics THEN statics[n] ELSE ResolveName(n)
  <2>1. n \notin DOMAIN statics
    BY <1>1, <1>2 DEF StaticsOk
  <2>2. ResolveName(n) = scopes[m][n]
    BY <1>4 DEF ResolveName
  <2> QED
    BY <1>7, <1>10, <2>1, <2>2
<1>13. PICK b \in BOOLEAN : b = (u = FileName(n) /\ u \notin DOMAIN types /\ n \in DOMAIN enums)
  OBVIOUS
<1>14. ~b
  BY <1>11, <1>13
(* An automatic variable is known by its own name.                         *)
<1>15. h.kind = "auto" => Primary(n) = Variable(u, h.ty)
  <2> HAVE h.kind = "auto"
  <2>1. u \in DOMAIN types /\ types[u] = h.ty
    <3>1. PICK i : i = h.id
      OBVIOUS
    <3>2. i \in Autos /\ ents[i] = h
      BY <1>8, <3>1 DEF Autos
    <3> QED
      BY <1>1, <1>10, <3>2 DEF TypesOk
  <2>2. u \notin DOMAIN consts
    <3>1. ASSUME u \in DOMAIN consts
          PROVE  FALSE
      <4>1. PICK c : c = consts[u]
        OBVIOUS
      <4>2. c \in DOMAIN ents /\ ents[c].kind = "constexpr" /\ ents[c].place = u
        BY <1>1, <3>1, <4>1, ConstantIs
      <4>3. u = PlaceOf(ents[c])
        BY <1>1, <4>2, PlacesDiffer
      <4>4. PICK p : p = ents[c]
        OBVIOUS
      <4>5. u = <<"func", p.name, p.func>> \/ u = FileName(p.name)
        BY <4>3, <4>4 DEF PlaceOf
      <4> QED
        BY <1>1, <1>8, <1>10, <4>5, PlacesDiffer
    <3> QED
      BY <3>1
  <2> QED
    BY <1>12, <1>13, <1>14, <2>1, <2>2, PrimaryIs
(* A constant takes the value of the latest one of the name.               *)
<1>16. h.kind = "constexpr" => \E x : /\ Latest(x, Constants(u)) /\ x \in DOMAIN ents
                                      /\ ents[x].kind = "constexpr"
                                      /\ Primary(n) = Number(x, ents[x].ty)
  <2> HAVE h.kind = "constexpr"
  <2>1. u \in DOMAIN consts
    <3>1. PICK i : i = h.id
      OBVIOUS
    <3>2. i \in DOMAIN ents /\ ents[i] = h
      BY <1>8, <3>1
    <3> QED
      BY <1>1, <1>10, <3>2 DEF ConstsOk
  <2>2. PICK x : x = consts[u]
    OBVIOUS
  <2>3. Latest(x, Constants(u)) /\ types[u] = ents[x].ty
    BY <1>1, <2>1, <2>2 DEF ConstsOk, TypesOk
  <2>4. x \in DOMAIN ents /\ ents[x].kind = "constexpr"
    BY <2>3 DEF Latest, Constants
  <2>5. Primary(n) = Number(x, types[u])
    BY <1>12, <1>13, <1>14, <2>1, <2>2, PrimaryIs
  <2> QED
    BY <2>3, <2>4, <2>5
<1>17. CASE lv = m + 1
  <2>1. h = e
    BY <1>6, <1>17 DEF Innermost
  <2>2. CASE e.kind = "auto"
    <3>1. Primary(n) = Expected(e)
      BY <1>10, <1>15, <2>1, <2>2, ExpectedIs
    <3>2. Alone(e)
      BY <1>1, <1>2, <2>2, AloneAuto
    <3>3. ~UseGap(n, e)
      BY <2>2, GapIs
    <3> QED
      BY <3>1, <3>2, <3>3 DEF Agrees
  <2>3. CASE e.kind = "constexpr"
    <3>1. PICK x : /\ Latest(x, Constants(u)) /\ x \in DOMAIN ents
                   /\ Primary(n) = Number(x, ents[x].ty)
      BY <1>16, <2>1, <2>3
    <3>2. Primary(n) = Expected(e) <=> x = e.id
      <4>1. Expected(e) = Number(e.id, e.ty)
        BY <2>3, ExpectedIs
      <4> QED
        BY <1>2, <3>1, <4>1, TokensDiffer
    <3>3. u = e.place
      BY <1>10, <2>1
    <3>4. ConstexprGap(n, e) <=> x # e.id
      BY <1>1, <1>2, <2>3, <3>1, <3>3, LatestConstant
    <3>5. Alone(e)
      BY <2>3, ExpectedIs
    <3>6. UseGap(n, e) <=> ConstexprGap(n, e)
      BY <2>3, GapIs
    <3> QED
      BY <3>2, <3>4, <3>5, <3>6 DEF Agrees
  <2> QED
    BY <1>7, <2>1, <2>2, <2>3 DEF Kept
(* What is declared inside its scope is hidden by it.                      *)
<1>18. CASE lv # m + 1
  <2>1. lv \in 1 .. Top /\ m + 1 < lv
    BY <1>3, <1>5, <1>7, <1>18 DEF Innermost
  <2>2. e.kind \notin Kept
    <3>1. PICK j : j = lv - 1
      OBVIOUS
    <3>2. j \in 1 .. Len(scopes) /\ ~(j <= m) /\ j + 1 = lv
      BY <1>3, <1>5, <2>1, <3>1
    <3>3. ScopeOk(j)
      BY <1>1, <3>2 DEF ScopesOk
    <3>4. n \notin DOMAIN scopes[j]
      BY <1>5, <3>2
    <3> QED
      BY <1>2, <3>2, <3>3, <3>4 DEF ScopeOk, Innermost
  <2>3. e.func = func
    BY <1>2, <1>5, <2>1
  <2>4. e.kind # "static"
    BY <1>2, <2>3
  <2>5. UseGap(n, e)
    BY <1>2, <1>8, <1>9, <2>2, <2>3, <2>4 DEF UseGap, EnumGap, ExternGap, Kinds, Kept
  <2>6. Primary(n) # Expected(e)
    <3>1. CASE h.kind = "auto" /\ e.kind = "enum"
      BY <1>15, <3>1, ExpectedIs, TokensDiffer
    <3>2. CASE h.kind = "auto" /\ e.kind = "global"
      <4>1. e.place = FileName(n)
        BY <1>2, <3>2 DEF PlaceOf
      <4> QED
        BY <1>11, <1>15, <3>2, <4>1, ExpectedIs, TokensDiffer
    <3>3. CASE h.kind = "constexpr" /\ e.kind = "enum"
      <4>1. PICK x : ents[x].kind = "constexpr" /\ Primary(n) = Number(x, ents[x].ty)
        BY <1>16, <3>3
      <4>2. x # e.id
        BY <1>2, <3>3, <4>1
      <4> QED
        BY <3>3, <4>1, <4>2, ExpectedIs, TokensDiffer
    <3>4. CASE h.kind = "constexpr" /\ e.kind = "global"
      <4>1. PICK x : Primary(n) = Number(x, ents[x].ty)
        BY <1>16, <3>4
      <4> QED
        BY <3>4, <4>1, ExpectedIs, TokensDiffer
    <3> QED
      BY <1>2, <1>7, <2>2, <2>4, <3>1, <3>2, <3>3, <3>4 DEF Kinds, Kept
  <2> QED
    BY <2>5, <2>6 DEF Agrees
<1> QED
  BY <1>17, <1>18

(* Without one, what the name is at file scope, or an enumerator.          *)
LEMMA AgreesFile ==
    ASSUME Based, MapsOk, NEW lv, NEW n, NEW e, Innermost(lv, n, e), e.kind # "type",
           InFunction("static", n) = {},
           {i \in DOMAIN scopes : n \in DOMAIN scopes[i]} = {}
    PROVE  Agrees(n, e)
<1>1. Counts /\ EntsOk /\ EnvOk /\ ScopesOk /\ FileOk /\ StaticsOk /\ ConstsOk /\ TypesOk /\ EnumsOk
  BY DEF Based, MapsOk
<1>2. /\ n \in Names /\ e.id \in DOMAIN ents /\ e = ents[e.id] /\ e.name = n
      /\ e.kind \in Kinds /\ e.kind # "struct"
      /\ e.func = IF lv = 1 THEN 0 ELSE func
      /\ e.kind \in {"auto", "static"} => e.func # 0
      /\ e.kind = "enum" => e.ty = "int"
      /\ e.kind # "auto" => e.place = PlaceOf(e)
      /\ e.id \in Ever(e.kind, n)
      /\ lv # 1 => func # 0
      /\ e.func = func => e.id \in InFunction(e.kind, n)
  BY DenotesEntity DEF Innermost
<1>3. /\ Top \in Nat /\ Top >= 1 /\ Len(scopes) \in Nat /\ Len(scopes) = Top - 1
      /\ DOMAIN scopes = 1 .. Len(scopes)
  BY <1>1, TopIs
<1>4. \A i \in 2 .. Top : n \in DOMAIN env[i].ids => env[i].ids[n].kind \notin Kept
  <2> TAKE i \in 2 .. Top
  <2>1. PICK j : j = i - 1
    OBVIOUS
  <2>2. j \in 1 .. Len(scopes) /\ j + 1 = i
    BY <1>3, <2>1
  <2>3. n \notin DOMAIN scopes[j] /\ ScopeOk(j)
    BY <1>1, <1>3, <2>2 DEF ScopesOk
  <2> QED
    BY <1>2, <2>2, <2>3 DEF ScopeOk
<1>5. ~LocalAround(n)
  BY <1>4 DEF LocalAround, Kept
<1>6. /\ e.kind \in {"constexpr", "enum", "global"}
      /\ e.kind = "constexpr" => lv = 1
  <2>1. CASE lv = 1
    BY <1>2, <2>1 DEF Kinds
  <2>2. CASE lv # 1
    <3>1. lv \in 2 .. Top /\ n \in DOMAIN env[lv].ids /\ e = env[lv].ids[n]
      BY <1>3, <2>2 DEF Innermost
    <3>2. e.kind \notin Kept
      BY <1>4, <3>1
    <3>3. e.kind # "static"
      BY <1>2, <2>2
    <3> QED
      BY <1>2, <3>2, <3>3 DEF Kinds, Kept
  <2> QED
    BY <2>1, <2>2
<1>7. PICK u : u = FileName(n)
  OBVIOUS
<1>8. u = IF n \in DOMAIN statics THEN statics[n] ELSE ResolveName(n)
  <2>1. n \notin DOMAIN statics
    BY <1>1, <1>2 DEF StaticsOk
  <2> QED
    BY <1>7, <2>1 DEF ResolveName
<1>9. e.kind # "constexpr" \/ lv = 1 => e.place = u
  BY <1>2, <1>6, <1>7 DEF PlaceOf
<1>10. PICK g : g = env[1].ids[n]
  OBVIOUS
<1>11. n \in DOMAIN env[1].ids =>
         /\ g.id \in DOMAIN ents /\ g = ents[g.id] /\ g.func = 0 /\ g.name = n
         /\ g.kind # "auto" => g.place = PlaceOf(g)
  <2> HAVE n \in DOMAIN env[1].ids
  <2>1. 1 \in 1 .. Top
    BY <1>3
  <2> QED
    BY <1>10, <2>1, DenotesEntity
<1>12. /\ u \in DOMAIN types <=> AtFileIs(n, FileTyped)
       /\ u \in DOMAIN types => types[u] = g.ty
  BY <1>1, <1>2, <1>7, <1>10 DEF TypesOk
<1>13. /\ u \in DOMAIN consts <=> AtFileIs(n, {"constexpr"})
       /\ u \in DOMAIN consts => consts[u] = g.id /\ Latest(consts[u], Constants(u))
  <2>1. ASSUME u \in DOMAIN consts
        PROVE  /\ AtFileIs(n, {"constexpr"}) /\ consts[u] = g.id
               /\ Latest(consts[u], Constants(u))
    <3>1. PICK x : x = consts[u]
      OBVIOUS
    <3>2. /\ x \in DOMAIN ents /\ ents[x].kind = "constexpr"
          /\ n \in DOMAIN env[1].ids /\ env[1].ids[n] = ents[x]
      BY <1>1, <1>7, <2>1, <3>1, ConstantIs
    <3>3. EntityOk(x, ents[x])
      BY <1>1, <3>2 DEF EntsOk
    <3>4. g.id = x
      BY <1>10, <3>2, <3>3 DEF EntityOk
    <3> QED
      BY <1>1, <2>1, <3>1, <3>2, <3>4 DEF AtFileIs, ConstsOk
  <2>2. ASSUME AtFileIs(n, {"constexpr"})
        PROVE  u \in DOMAIN consts
    <3>1. n \in DOMAIN env[1].ids /\ g.kind = "constexpr"
      BY <1>10, <2>2 DEF AtFileIs
    <3>2. PICK x : x = g.id
      OBVIOUS
    <3>3. x \in DOMAIN ents /\ ents[x] = g /\ g.place = u
      BY <1>7, <1>11, <3>1, <3>2 DEF PlaceOf
    <3> QED
      BY <1>1, <3>1, <3>3 DEF ConstsOk
  <2> QED
    BY <2>1, <2>2
<1>14. u \in DOMAIN consts => u \in DOMAIN types
  BY <1>12, <1>13 DEF AtFileIs, FileTyped
<1>15. PICK b \in BOOLEAN : b = (u = FileName(n) /\ u \notin DOMAIN types /\ n \in DOMAIN enums)
  OBVIOUS
<1>16. n \in DOMAIN enums <=> Ever("enum", n) # {}
  BY <1>1, <1>2 DEF EnumsOk
<1>17. /\ u \in DOMAIN consts => Primary(n) = Number(g.id, g.ty)
       /\ u \notin DOMAIN consts /\ u \in DOMAIN types => Primary(n) = Variable(u, g.ty)
       /\ u \notin DOMAIN types /\ Ever("enum", n) # {} => Primary(n) = Number(enums[n], "int")
       /\ u \notin DOMAIN types /\ Ever("enum", n) = {} => Primary(n) = Variable(u, "long")
  <2>1. b <=> u \notin DOMAIN types /\ Ever("enum", n) # {}
    BY <1>7, <1>15, <1>16
  <2>2. /\ b => Primary(n) = Number(enums[n], "int")
        /\ ~b /\ u \in DOMAIN consts => Primary(n) = Number(consts[u], types[u])
        /\ ~b /\ u \notin DOMAIN consts /\ u \in DOMAIN types => Primary(n) = Variable(u, types[u])
        /\ ~b /\ u \notin DOMAIN consts /\ u \notin DOMAIN types => Primary(n) = Variable(u, "long")
    BY <1>8, <1>15, PrimaryIs
  <2> QED
    BY <1>12, <1>13, <1>14, <2>1, <2>2
<1>18. CASE e.kind = "constexpr"
  <2>1. lv = 1 /\ e = g /\ AtFileIs(n, {"constexpr"})
    BY <1>6, <1>10, <1>18 DEF Innermost, AtFileIs
  <2>2. Primary(n) = Expected(e)
    BY <1>13, <1>17, <1>18, <2>1, ExpectedIs
  <2>3. e.place = u /\ Latest(e.id, Constants(e.place))
    BY <1>9, <1>13, <2>1
  <2>4. ~ConstexprGap(n, e)
    <3>1. PICK x : x = e.id
      OBVIOUS
    <3> QED
      BY <1>1, <1>2, <1>18, <2>3, <3>1, LatestConstant
  <2> QED
    BY <1>18, <2>2, <2>4, GapIs, ExpectedIs DEF Agrees
<1>19. CASE e.kind = "enum"
  <2>1. Ever("enum", n) # {}
    BY <1>2, <1>19
  <2>2. Expected(e) = Number(e.id, "int") /\ Alone(e)
    BY <1>2, <1>19, ExpectedIs
  <2>3. UseGap(n, e) <=> u \in DOMAIN types \/ \E i \in Ever("enum", n) : i > e.id
    BY <1>5, <1>12, <1>19, GapIs DEF EnumGap, FileTyped
  <2>4. CASE u \in DOMAIN types
    <3>1. n \in DOMAIN env[1].ids /\ g.kind \in FileTyped
      BY <1>10, <1>12, <2>4 DEF AtFileIs
    <3>2. g.id # e.id
      BY <1>2, <1>11, <1>19, <3>1 DEF FileTyped
    <3>3. Primary(n) # Expected(e)
      <4>1. CASE u \in DOMAIN consts
        BY <1>17, <2>2, <3>2, <4>1, TokensDiffer
      <4>2. CASE u \notin DOMAIN consts
        BY <1>17, <2>2, <2>4, <4>2, TokensDiffer
      <4> QED
        BY <4>1, <4>2
    <3> QED
      BY <2>3, <2>4, <3>3 DEF Agrees
  <2>5. CASE u \notin DOMAIN types
    <3>1. PICK x : x = enums[n]
      OBVIOUS
    <3>2. Latest(x, Ever("enum", n))
      BY <1>1, <1>2, <1>16, <2>1, <3>1 DEF EnumsOk
    <3>3. Primary(n) = Expected(e) <=> x = e.id
      BY <1>17, <2>1, <2>2, <2>5, <3>1, TokensDiffer
    <3>4. e.id \in Ever("enum", n)
      BY <1>2, <1>19
    <3>5. Ever("enum", n) \subseteq 1 .. Len(ents) /\ Len(ents) \in Nat
      BY <1>1, EverIs
    <3>6. (\E i \in Ever("enum", n) : i > e.id) <=> x # e.id
      BY <3>2, <3>4, <3>5 DEF Latest
    <3> QED
      BY <2>2, <2>3, <2>5, <3>3, <3>6 DEF Agrees
  <2> QED
    BY <2>4, <2>5
<1>20. CASE e.kind = "global"
  <2>1. Expected(e) = Variable(u, e.ty)
    BY <1>9, <1>20, ExpectedIs
  <2>2. Alone(e)
    BY <1>1, <1>7, <1>9, <1>20, AloneGlobal
  <2>3. UseGap(n, e) <=>
          e.func # 0 /\ ~AtFileIs(n, {"global"}) /\ (e.ty # "long" \/ Ever("enum", n) # {})
    BY <1>5, <1>20, GapIs DEF ExternGap
  <2>4. PICK i : i = e.id
    OBVIOUS
  <2>5. i \in Linked(n) /\ ents[i] = e
    BY <1>2, <1>20, <2>4 DEF Linked
  <2>6. CASE AtFileIs(n, {"global"})
    <3>1. n \in DOMAIN env[1].ids /\ g.kind = "global"
      BY <1>10, <2>6 DEF AtFileIs
    <3>2. u \notin DOMAIN consts /\ u \in DOMAIN types
      BY <1>10, <1>12, <1>13, <3>1 DEF AtFileIs, FileTyped
    <3>3. e.ty = g.ty
      <4>1. PICK j : j = g.id
        OBVIOUS
      <4>2. j \in Linked(n) /\ ents[j] = g
        BY <1>11, <3>1, <4>1 DEF Linked
      <4> QED
        BY <1>1, <1>2, <2>5, <4>2 DEF FileOk
    <3> QED
      BY <1>17, <2>1, <2>2, <2>3, <2>6, <3>2, <3>3, TokensDiffer DEF Agrees
  <2>7. CASE ~AtFileIs(n, {"global"})
    <3>1. n \notin DOMAIN env[1].ids
      BY <1>1, <1>2, <2>5, <2>7 DEF FileOk, AtFileIs
    <3>2. lv # 1
      BY <3>1 DEF Innermost
    <3>3. e.func # 0
      BY <1>2, <3>2
    <3>4. u \notin DOMAIN types
      BY <1>12, <3>1 DEF AtFileIs
    <3>5. CASE Ever("enum", n) = {}
      BY <1>17, <2>1, <2>2, <2>3, <2>7, <3>3, <3>4, <3>5, TokensDiffer DEF Agrees
    <3>6. CASE Ever("enum", n) # {}
      BY <1>17, <2>1, <2>3, <2>7, <3>3, <3>4, <3>6, TokensDiffer DEF Agrees
    <3> QED
      BY <3>5, <3>6
  <2> QED
    BY <2>6, <2>7
<1> QED
  BY <1>6, <1>18, <1>19, <1>20

-----------------------------------------------------------------------------
(* The innermost scope that declares a name, and a tag.                    *)

(* What a name means is declared in the innermost scope that has it.       *)
LEMMA MeantIs ==
    ASSUME EnvOk, NEW n \in Visible
    PROVE  \E lv : Innermost(lv, n, Meant(n))
<1> DEFINE I == {i \in 1 .. Top : n \in DOMAIN env[i].ids}
<1>1. Top \in Nat
  BY TopIs
<1>2. I # {}
  BY DEF Visible
<1>3. PICK z : z = I
  OBVIOUS
<1>4. Latest(Max(z), z)
  BY <1>1, <1>2, <1>3, MaxIsLatest
<1>5. PICK lv : lv = Max(z)
  OBVIOUS
<1>6. lv \in I /\ \A i \in I : i <= lv
  BY <1>3, <1>4, <1>5 DEF Latest
<1>7. Meant(n) = env[lv].ids[n]
  BY <1>3, <1>5 DEF Meant
<1>8. \A i \in 1 .. Top : lv < i => n \notin DOMAIN env[i].ids
  BY <1>1, <1>6
<1> QED
  BY <1>6, <1>7, <1>8 DEF Innermost

(* So is what a tag means.                                                 *)
LEMMA TagMeantIs ==
    ASSUME EnvOk, NEW t \in TagsSeen
    PROVE  \E lv \in 1 .. Len(env) : t \in DOMAIN env[lv].tags /\ TagMeant(t) = env[lv].tags[t]
<1> DEFINE I == {i \in 1 .. Top : t \in DOMAIN env[i].tags}
<1>1. Top \in Nat /\ Top = Len(env)
  BY TopIs
<1>2. I # {}
  BY DEF TagsSeen
<1>3. PICK z : z = I
  OBVIOUS
<1>4. Latest(Max(z), z)
  BY <1>1, <1>2, <1>3, MaxIsLatest
<1>5. PICK lv : lv = Max(z)
  OBVIOUS
<1>6. lv \in I
  BY <1>3, <1>4, <1>5 DEF Latest
<1>7. TagMeant(t) = env[lv].tags[t]
  BY <1>3, <1>5 DEF TagMeant
<1> QED
  BY <1>1, <1>6, <1>7

(* The invariant implies that uses agree.                                  *)
LEMMA AgreesThen ==
    ASSUME Based, MapsOk
    PROVE  UsesAgree
<1>1. EntsOk /\ EnvOk /\ TypeNamesOk /\ TagsOk
  BY DEF Based, MapsOk
<1>2. ASSUME NEW n \in Visible, NEW e, e = Meant(n)
      PROVE  /\ e.kind = "type" =>
                  StartsDeclaration(n) /\ (NamedType(n) = e.ty <=> ~TypeGap(n, e))
             /\ e.kind # "type" =>
                  (StartsDeclaration(n) <=> Ever("type", n) # {}) /\ Agrees(n, e)
  <2>1. PICK lv : Innermost(lv, n, e)
    BY <1>1, <1>2, MeantIs
  <2>2. n \in Names /\ e.id \in Ever(e.kind, n)
    BY <2>1, DenotesEntity DEF Innermost
  <2>3. StartsDeclaration(n) <=> Ever("type", n) # {}
    BY <1>1, <2>2 DEF TypeNamesOk, StartsDeclaration
  <2>4. ASSUME e.kind = "type"
        PROVE  StartsDeclaration(n) /\ (NamedType(n) = e.ty <=> ~TypeGap(n, e))
    <3>1. StartsDeclaration(n)
      BY <2>2, <2>3, <2>4
    <3>2. NamedType(n) = IF AtFileIs(n, {"type"}) THEN env[1].ids[n].ty ELSE "long"
      BY <1>1, <2>2 DEF TypeNamesOk, NamedType
    <3>3. NamedType(n) = e.ty <=> ~TypeGap(n, e)
      BY <3>2 DEF TypeGap
    <3> QED
      BY <3>1, <3>3
  <2>5. ASSUME e.kind # "type"
        PROVE  Agrees(n, e)
    <3>1. CASE InFunction("static", n) # {}
      BY <2>1, <2>5, <3>1, AgreesStatic
    <3>2. CASE InFunction("static", n) = {}
      BY <2>1, <2>5, <3>2, AgreesLocal, AgreesFile
    <3> QED
      BY <3>1, <3>2
  <2> QED
    BY <2>3, <2>4, <2>5
<1>3. ASSUME NEW t \in TagsSeen
      PROVE  TagFound(t) <=> \A i \in Ever("struct", t) : i <= TagMeant(t).id
  <2>1. PICK lv \in 1 .. Len(env) : t \in DOMAIN env[lv].tags /\ TagMeant(t) = env[lv].tags[t]
    BY <1>1, TagMeantIs
  <2>2. PICK x : x = TagMeant(t).id
    OBVIOUS
  <2>3. t \in DOMAIN unit.bodies /\ x \in Ever("struct", t)
    BY <1>1, <2>1, <2>2 DEF TagsOk
  <2>4. PICK y : y = structs[t].id
    OBVIOUS
  <2>5. Latest(y, Ever("struct", t))
    BY <1>1, <2>3, <2>4 DEF TagsOk
  <2>6. Ever("struct", t) \subseteq 1 .. Len(ents) /\ Len(ents) \in Nat
    BY <1>1, EverIs
  <2>7. y = x <=> \A i \in Ever("struct", t) : i <= x
    BY <2>3, <2>5, <2>6 DEF Latest
  <2> QED
    BY <2>2, <2>4, <2>7 DEF TagFound
<1> QED
  BY <1>2, <1>3 DEF UsesAgree, Agrees

(* For every set of names and every unit, however long and however deep    *)
(* its blocks: at every point of it, an identifier stands for the entity   *)
(* of C's innermost declaration, with its type and with storage of its     *)
(* own, exactly outside the cases that Scopes names, and so do type names  *)
(* and tags (primary, parse_base_type and stmt of parser.c).               *)
THEOREM NamesResolve == Spec => []UsesAgree
<1>1. Init => IInv
  BY InitHolds DEF IInv
<1>2. IInv /\ [Next]_vars => IInv'
  BY StepHolds
<1>3. IInv => UsesAgree
  <2>1. CASE status = "fatal"
    BY <2>1 DEF UsesAgree
  <2>2. CASE status # "fatal"
    BY <2>2, AgreesThen DEF IInv
  <2> QED
    BY <2>1, <2>2
<1> QED
  BY <1>1, <1>2, <1>3, PTL DEF Spec

=============================================================================
