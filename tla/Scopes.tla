------------------------------- MODULE Scopes -------------------------------
(***************************************************************************)
(* The names of a translation unit as src/parser.c keeps them: a stack of  *)
(* hash maps for automatic variables, one map for the static variables of  *)
(* the function at hand, and one map each for the whole unit of            *)
(* enumerators, constants, type names, tags and the types of variables.    *)
(* A variable is known by the name it has in the IR, here a tuple: what    *)
(* the code writes as x is <<"file", x, 0>>, x$7 is <<"auto", x, 7>>,      *)
(* x.local.7 is <<"param", x, 7>>, and f$x is <<"func", x, f>>.            *)
(*                                                                         *)
(* Beside it stands what C says: env is the stack of scopes, the file's    *)
(* first, in which a name denotes an entity.  The units are those C        *)
(* accepts, but for the redeclarations that the parser reports.            *)
(***************************************************************************)
EXTENDS StructLayout

CONSTANTS
    Names,   \* identifiers
    Units    \* [kinds, bodies, size, depth, funcs]: the forms of declaration
             \* that a unit uses, its structure bodies by tag, and bounds on
             \* its declarations, its nested blocks and its functions

\* The functions of a unit are numbered from one.
ASSUME UnitsAssumption == \A u \in Units : u.funcs \in Nat

VARIABLES
    unit,
    scopes, statics, func, counter,  \* p->scopes, current_static_locals, ...
    types,      \* value_sizes and unsigned_vars: the type of a variable
    consts,     \* constexpr_vars
    enums,      \* global_enums
    typedefs,   \* global_typedefs
    typesizes,  \* global_typedef_sizes and what goes with it
    structs, aligns,  \* global_structs and _sizes, global_struct_alignments
    env, ents,  \* C: the scopes, and the entities declared so far
    blocks,     \* the open braces: of a "body", "block" or "for"
    done,       \* functions with a body
    status

code == <<scopes, statics, func, counter, types, consts, enums, typedefs, typesizes,
          structs, aligns>>
vars == <<unit, code, env, ents, blocks, done, status>>

Types == {"int", "long"}
None == << >>  \* the empty map

FileName(n) == <<"file", n, 0>>
FuncName(n) == <<"func", n, func>>
AutoName(n) == <<"auto", n, counter>>
ParamName(n) == <<"param", n, counter>>

Scope(ids, tags) == [ids |-> ids, tags |-> tags]
NoScope == Scope(None, None)
Put(map, key, val) == [k \in DOMAIN map \cup {key} |-> IF k = key THEN val ELSE map[k]]
AtFile == scopes = << >>

Init ==
    /\ unit \in Units
    /\ scopes = << >> /\ statics = None /\ func = 0 /\ counter = 0
    /\ types = None /\ consts = None /\ enums = None
    /\ typedefs = {} /\ typesizes = None /\ structs = None /\ aligns = None
    /\ env = <<NoScope>> /\ ents = << >> /\ blocks = << >> /\ done = {}
    /\ status = "parsing"

-----------------------------------------------------------------------------
(* What C makes of a declaration.  The id of an entity is its number, and  *)
(* stands for the value of an enumerator or a constant.                    *)

Top == Len(env)
Free(n) == n \notin DOMAIN env[Top].ids
NewId == Len(ents) + 1
EntityOf(f, kind, n, ty, place) ==
    [id |-> NewId, kind |-> kind, name |-> n, ty |-> ty, place |-> place, func |-> f]
Entity(kind, n, ty, place) == EntityOf(IF AtFile THEN 0 ELSE func, kind, n, ty, place)

Record(e) == ents' = Append(ents, e)
Declared(e) ==
    /\ Record(e)
    /\ env' = [env EXCEPT ![Top] = Scope(Put(@.ids, e.name, e), @.tags)]

\* Declarations of one object, at file scope and by extern, have one type.
Linked(n) == {i \in DOMAIN ents : ents[i].kind = "global" /\ ents[i].name = n}
FreeAtFile(n) == AtFile /\ Free(n) /\ Linked(n) = {}

\* A parameter may not be declared again in the body's outermost block.
FreeHere(n) == Free(n) /\ (Last(blocks) = "body" => n \notin DOMAIN env[Top - 1].ids)

May(kind) ==
    /\ status = "parsing"
    /\ kind \in unit.kinds
    /\ Len(ents) < unit.size

\* parser_enter_scope and parser_exit_scope.
InTop(n, u) == [scopes EXCEPT ![Len(scopes)] = Put(@, n, u)]
Pop(s, k) == SubSeq(s, 1, Len(s) - k)

-----------------------------------------------------------------------------
(* Declarations at file scope: parse_program and global_decl.              *)

FileVar(n, ty) ==
    /\ May("var") /\ AtFile /\ Free(n)
    /\ \A i \in Linked(n) : ents[i].ty = ty
    /\ types' = Put(types, FileName(n), ty)
    /\ Declared(Entity("global", n, ty, FileName(n)))
    /\ UNCHANGED <<unit, scopes, statics, func, counter, consts, enums, typedefs, typesizes,
                   structs, aligns, blocks, done, status>>

\* check_global_decl_compat: a second declaration has the type of the first.
FileVarAgain(n, ty) ==
    /\ May("var") /\ AtFile
    /\ ~Free(n) /\ env[1].ids[n].kind = "global"
    /\ types' = Put(types, FileName(n), ty)
    /\ status' = IF ty = env[1].ids[n].ty THEN status ELSE "fatal"
    /\ UNCHANGED <<unit, scopes, statics, func, counter, consts, enums, typedefs, typesizes,
                   structs, aligns, env, ents, blocks, done>>

FileConstexpr(n, ty) ==
    /\ May("constexpr") /\ FreeAtFile(n)
    /\ types' = Put(types, FileName(n), ty)
    /\ consts' = Put(consts, FileName(n), NewId)
    /\ Declared(Entity("constexpr", n, ty, FileName(n)))
    /\ UNCHANGED <<unit, scopes, statics, func, counter, enums, typedefs, typesizes,
                   structs, aligns, blocks, done, status>>

\* An enumeration, at file scope (parse_base_type) or in a block (stmt).
Enum(n) ==
    /\ May("enum") /\ IF AtFile THEN FreeAtFile(n) ELSE FreeHere(n)
    /\ enums' = Put(enums, n, NewId)
    /\ Declared(Entity("enum", n, "int", FileName(n)))
    /\ UNCHANGED <<unit, scopes, statics, func, counter, types, consts, typedefs, typesizes,
                   structs, aligns, blocks, done, status>>

FileTypedef(n, ty) ==
    /\ May("typedef") /\ FreeAtFile(n)
    /\ typedefs' = typedefs \cup {n}
    /\ typesizes' = Put(typesizes, n, ty)
    /\ Declared(Entity("type", n, ty, FileName(n)))
    /\ UNCHANGED <<unit, scopes, statics, func, counter, types, consts, enums,
                   structs, aligns, blocks, done, status>>

-----------------------------------------------------------------------------
(* Structures.  The innermost definition of a tag, the layout that the ABI *)
(* gives it, and whether the parser's map holds that one.                  *)

TagVisible(t) == \E i \in 1 .. Top : t \in DOMAIN env[i].tags
TagMeant(t) == env[Max({i \in 1 .. Top : t \in DOMAIN env[i].tags})].tags[t]
TagsSeen == UNION {DOMAIN env[i].tags : i \in 1 .. Top}
TagFound(t) == structs[t].id = TagMeant(t).id

\* Fields and extent are those of the ABI.
Conforms(l, abi) == l.fields = abi.fields /\ l.size = abi.size

MemberTags(b) == {b.members[i].ty : i \in {j \in DOMAIN b.members : IsTag(b.members[j].ty)}}
TagEntity(t) ==
    LET b == unit.bodies[t]
        abis == [u \in TagsSeen |-> TagMeant(u).abi]
    IN [id |-> NewId, local |-> ~AtFile, body |-> b, abis |-> abis,
        abi |-> AbiLayout(b.members, b.union, abis),
        clean |-> \A u \in MemberTags(b) : TagFound(u) /\ Conforms(structs[u], TagMeant(u).abi)]

TagDeclared(t) ==
    /\ Record(Entity("struct", t, "long", FileName(t)))
    /\ env' = [env EXCEPT ![Top] = Scope(@.ids, Put(@.tags, t, TagEntity(t)))]

MayDefine(t) ==
    /\ May("struct")
    /\ t \notin DOMAIN env[Top].tags
    /\ \A u \in MemberTags(unit.bodies[t]) : TagVisible(u)

\* At file scope (parse_base_type), the alignment is recorded as well.
FileStruct(t) ==
    LET b == unit.bodies[t]
        l == FileLayout(b.members, b.union, structs, aligns)
    IN /\ MayDefine(t) /\ AtFile
       /\ structs' = Put(structs, t, Put(l, "id", NewId))
       /\ aligns' = Put(aligns, t, l.align)
       /\ TagDeclared(t)
       /\ UNCHANGED <<unit, scopes, statics, func, counter, types, consts, enums, typedefs,
                      typesizes, blocks, done, status>>

\* In a block (stmt); a structure without declarator is a syntax error there.
LocalStruct(t) ==
    LET b == unit.bodies[t]
        l == LocalLayout(b.members, b.union, structs)
    IN /\ MayDefine(t) /\ ~AtFile
       /\ IF \E i \in DOMAIN b.members : b.members[i].anon
          THEN status' = "fatal" /\ UNCHANGED <<structs, env, ents>>
          ELSE /\ structs' = Put(structs, t, Put(l, "id", NewId))
               /\ TagDeclared(t)
               /\ UNCHANGED status
       /\ UNCHANGED <<unit, scopes, statics, func, counter, types, consts, enums, typedefs,
                      typesizes, aligns, blocks, done>>

-----------------------------------------------------------------------------
(* Functions and blocks.  params is a sequence of at most one [name, ty].  *)

Typed(ps) == IF ps = << >> THEN types ELSE Put(types, ParamName(ps[1].name), ps[1].ty)
ParamScope(ps) == IF ps = << >> THEN None ELSE Put(None, ps[1].name, ParamName(ps[1].name))
ParamLists == {<< >>} \cup {<<[name |-> n, ty |-> ty]>> : n \in Names, ty \in Types}

\* function() up to the semicolon of a prototype.
Prototype(f, ps) ==
    /\ status = "parsing" /\ AtFile /\ "proto" \in unit.kinds
    /\ f \notin done /\ counter < unit.size  \* bounds the prototypes
    /\ func' = f
    /\ statics' = None
    /\ types' = Typed(ps)
    /\ counter' = counter + Len(ps)
    /\ UNCHANGED <<unit, scopes, consts, enums, typedefs, typesizes, structs, aligns, env, ents,
                   blocks, done, status>>

\* function() up to the brace: the scope of the parameters, and that of the body.
Begin(f, ps) ==
    /\ status = "parsing" /\ AtFile /\ f \notin done
    /\ ps # << >> => May("auto")
    /\ func' = f /\ done' = done \cup {f}
    /\ statics' = None
    /\ scopes' = <<ParamScope(ps), None>>
    /\ types' = Typed(ps)
    /\ counter' = counter + Len(ps)
    /\ blocks' = <<"body">>
    /\ LET e == EntityOf(f, "auto", ps[1].name, ps[1].ty, ParamName(ps[1].name))
       IN IF ps = << >> THEN env' = env \o <<NoScope, NoScope>> /\ UNCHANGED ents
          ELSE /\ Record(e)
               /\ env' = env \o <<Scope(Put(None, e.name, e), None), NoScope>>
    /\ UNCHANGED <<unit, consts, enums, typedefs, typesizes, structs, aligns, status>>

Open ==
    /\ status = "parsing" /\ ~AtFile /\ Len(blocks) < unit.depth
    /\ scopes' = Append(scopes, None)
    /\ env' = Append(env, NoScope)
    /\ blocks' = Append(blocks, "block")
    /\ UNCHANGED <<unit, statics, func, counter, types, consts, enums, typedefs, typesizes,
                   structs, aligns, ents, done, status>>

\* A for statement declares its variable in a scope around that of its body.
For(n, ty) ==
    LET e == Entity("auto", n, ty, ParamName(n))
    IN /\ May("for") /\ ~AtFile /\ Len(blocks) < unit.depth
       /\ scopes' = scopes \o <<Put(None, n, ParamName(n)), None>>
       /\ types' = Put(types, ParamName(n), ty)
       /\ counter' = counter + 1
       /\ Record(e)
       /\ env' = env \o <<Scope(Put(None, n, e), None), NoScope>>
       /\ blocks' = Append(blocks, "for")
       /\ UNCHANGED <<unit, statics, func, consts, enums, typedefs, typesizes, structs, aligns,
                      done, status>>

\* The scope of the variable of a for statement stays.
Close_mutant ==
    LET k == IF Last(blocks) = "block" THEN 1 ELSE 2
    IN /\ status = "parsing" /\ ~AtFile
       /\ scopes' = Pop(scopes, IF Last(blocks) = "for" THEN 1 ELSE k)
       /\ env' = Pop(env, k)
       /\ blocks' = Front(blocks)
       /\ UNCHANGED <<unit, statics, func, counter, types, consts, enums, typedefs, typesizes,
                      structs, aligns, ents, done, status>>

\* The closing brace; current_static_locals is left as it is.
Close ==
    LET k == IF Last(blocks) = "block" THEN 1 ELSE 2
    IN /\ status = "parsing" /\ ~AtFile
       /\ scopes' = Pop(scopes, k)
       /\ env' = Pop(env, k)
       /\ blocks' = Front(blocks)
       /\ UNCHANGED <<unit, statics, func, counter, types, consts, enums, typedefs, typesizes,
                      structs, aligns, ents, done, status>>

-----------------------------------------------------------------------------
(* Declarations in a block: stmt.                                          *)

Local(n, ty) ==
    /\ May("auto") /\ ~AtFile /\ FreeHere(n)
    /\ n \notin DOMAIN Last(scopes)
    /\ scopes' = InTop(n, AutoName(n))
    /\ types' = Put(types, AutoName(n), ty)
    /\ counter' = counter + 1
    /\ Declared(Entity("auto", n, ty, AutoName(n)))
    /\ UNCHANGED <<unit, statics, func, consts, enums, typedefs, typesizes, structs, aligns,
                   blocks, done, status>>

\* "redefinition of local variable"
Redefined(n) ==
    /\ May("auto") /\ ~AtFile
    /\ n \in DOMAIN Last(scopes)
    /\ counter' = counter + 1
    /\ status' = "fatal"
    /\ UNCHANGED <<unit, scopes, statics, func, types, consts, enums, typedefs, typesizes, structs,
                   aligns, env, ents, blocks, done>>

\* A static is found by its name alone, and its type is not recorded.
StaticLocal(n, ty) ==
    /\ May("static") /\ ~AtFile /\ FreeHere(n)
    /\ statics' = Put(statics, n, FuncName(n))
    /\ Declared(Entity("static", n, ty, FuncName(n)))
    /\ UNCHANGED <<unit, scopes, func, counter, types, consts, enums, typedefs, typesizes, structs,
                   aligns, blocks, done, status>>

LocalConstexpr(n, ty) ==
    /\ May("constexpr") /\ ~AtFile /\ FreeHere(n)
    /\ scopes' = InTop(n, FuncName(n))
    /\ types' = Put(types, FuncName(n), ty)
    /\ consts' = Put(consts, FuncName(n), NewId)
    /\ Declared(Entity("constexpr", n, ty, FuncName(n)))
    /\ UNCHANGED <<unit, statics, func, counter, enums, typedefs, typesizes, structs, aligns,
                   blocks, done, status>>

\* A type name joins those of the file, without its type.
LocalTypedef(n, ty) ==
    /\ May("typedef") /\ ~AtFile /\ FreeHere(n)
    /\ typedefs' = typedefs \cup {n}
    /\ Declared(Entity("type", n, ty, FileName(n)))
    /\ UNCHANGED <<unit, scopes, statics, func, counter, types, consts, enums, typesizes, structs,
                   aligns, blocks, done, status>>

\* extern in a block is skipped to its semicolon.
LocalExtern(n, ty) ==
    /\ May("extern") /\ ~AtFile /\ FreeHere(n)
    /\ n \in DOMAIN env[1].ids => env[1].ids[n].kind = "global"
    /\ \A i \in Linked(n) : ents[i].ty = ty
    /\ Declared(Entity("global", n, ty, FileName(n)))
    /\ UNCHANGED <<unit, code, blocks, done, status>>

-----------------------------------------------------------------------------
(* The end of the unit.                                                    *)

Eof ==
    /\ status = "parsing" /\ AtFile
    /\ status' = "parsed"
    /\ UNCHANGED <<unit, code, env, ents, blocks, done>>

Terminated == status # "parsing" /\ UNCHANGED vars

Next ==
    \/ \E n \in Names, ty \in Types :
          \/ FileVar(n, ty) \/ FileVarAgain(n, ty) \/ FileConstexpr(n, ty) \/ FileTypedef(n, ty)
          \/ For(n, ty) \/ Local(n, ty) \/ StaticLocal(n, ty) \/ LocalConstexpr(n, ty)
          \/ LocalTypedef(n, ty) \/ LocalExtern(n, ty)
    \/ \E n \in Names : Enum(n) \/ Redefined(n)
    \/ \E t \in DOMAIN unit.bodies : FileStruct(t) \/ LocalStruct(t)
    \/ \E f \in 1 .. unit.funcs, ps \in ParamLists : Prototype(f, ps) \/ Begin(f, ps)
    \/ Open \/ Close \/ Eof \/ Terminated

Spec == Init /\ [][Next]_vars

-----------------------------------------------------------------------------
(* What the parser makes of an identifier (primary), of a type name        *)
(* (parse_base_type), and of a name at the start of a statement (stmt).    *)

ResolveName(n) ==
    LET at == {i \in DOMAIN scopes : n \in DOMAIN scopes[i]}
    IN IF at = {} THEN FileName(n) ELSE scopes[Max(at)][n]

Number(v, ty) == [op |-> "num", val |-> v, name |-> << >>, ty |-> ty]
Variable(u, ty) == [op |-> "var", val |-> 0, name |-> u, ty |-> ty]

Primary(n) ==
    LET u == IF n \in DOMAIN statics THEN statics[n] ELSE ResolveName(n)
    IN IF u = FileName(n) /\ u \notin DOMAIN types /\ n \in DOMAIN enums THEN Number(enums[n], "int")
       ELSE IF u \in DOMAIN consts THEN Number(consts[u], types[u])
       ELSE Variable(u, IF u \in DOMAIN types THEN types[u] ELSE "long")

NamedType(n) == IF n \in DOMAIN typesizes THEN typesizes[n] ELSE "long"
StartsDeclaration(n) == n \in typedefs

-----------------------------------------------------------------------------
(* What C makes of it, and the cases in which the two differ, told from    *)
(* the declarations of the unit alone.                                     *)

Visible == UNION {DOMAIN env[i].ids : i \in 1 .. Top}
Meant(n) == env[Max({i \in 1 .. Top : n \in DOMAIN env[i].ids})].ids[n]
Expected(e) ==
    IF e.kind \in {"enum", "constexpr"} THEN Number(e.id, e.ty) ELSE Variable(e.place, e.ty)

\* No other object has the storage of e.
Objects == {"auto", "static", "global"}
Alone(e) ==
    e.kind \in Objects => \A i \in DOMAIN ents :
        ents[i].kind \in Objects /\ ents[i].place = e.place
        => i = e.id \/ (e.kind = "global" /\ ents[i].kind = "global")

Ever(kind, n) == {i \in DOMAIN ents : ents[i].kind = kind /\ ents[i].name = n}
InFunction(kind, n) == {i \in Ever(kind, n) : ents[i].func = func}
AtFileIs(n, kinds) == n \in DOMAIN env[1].ids /\ env[1].ids[n].kind \in kinds
LocalAround(n) ==
    \E i \in 2 .. Top : n \in DOMAIN env[i].ids /\ env[i].ids[n].kind \in {"auto", "constexpr"}

\* A static of the function hides every other n, before, around and inside
\* it, and after the function as well; its type is long; one of the same
\* name shares its storage, and a constexpr of the function, which has the
\* same name in the IR, replaces it.
StaticGap(n, e) ==
    LET s == InFunction("static", n)
    IN /\ s # {} /\ ~(e.kind = "constexpr" /\ e.func = func)
       /\ \/ e.id # Max(s) \/ Cardinality(s) > 1 \/ e.ty # "long"
          \/ InFunction("constexpr", n) # {}

\* A constexpr takes the value of a later one of the function.
ConstexprGap(n, e) == e.kind = "constexpr" /\ \E i \in Ever("constexpr", n) :
    i > e.id /\ ents[i].place = e.place

\* An enumerator is hidden by every variable around it, and takes the value
\* of a later one, whose block may have ended.
EnumGap(n, e) ==
    /\ e.kind = "enum"
    /\ \/ LocalAround(n) \/ AtFileIs(n, {"global", "constexpr"})
       \/ \E i \in Ever("enum", n) : i > e.id

\* A variable declared by extern in a block is hidden by the locals around
\* it; without a declaration at file scope it is a long, or an enumerator.
ExternGap(n, e) ==
    /\ e.kind = "global" /\ e.func # 0
    /\ \/ LocalAround(n)
       \/ ~AtFileIs(n, {"global"}) /\ (e.ty # "long" \/ Ever("enum", n) # {})

UseGap(n, e) == StaticGap(n, e) \/ ConstexprGap(n, e) \/ EnumGap(n, e) \/ ExternGap(n, e)

\* A type name of a block is long, or what it is at file scope.
TypeGap(n, e) == e.ty # IF AtFileIs(n, {"type"}) THEN env[1].ids[n].ty ELSE "long"

\* At every point of the unit, an identifier stands for the entity that C's
\* innermost declaration gives it, with its type and with storage of its
\* own, except in the cases named above; a type name is taken for one
\* unless a variable hides it, and a tag for its innermost definition
\* unless a block that has ended defined it since (primary and stmt of
\* parser.c).
UsesAgree == status # "fatal" =>
    /\ \A n \in Visible :
        LET e == Meant(n)
        IN IF e.kind = "type"
           THEN StartsDeclaration(n) /\ (NamedType(n) = e.ty <=> ~TypeGap(n, e))
           ELSE /\ StartsDeclaration(n) <=> Ever("type", n) # {}
                /\ (Primary(n) = Expected(e) /\ Alone(e)) <=> ~UseGap(n, e)
    /\ \A t \in TagsSeen :
        TagFound(t) <=> \A i \in Ever("struct", t) : i <= TagMeant(t).id

-----------------------------------------------------------------------------
(* Structures: where the parser's layout and that of the ABI differ, told  *)
(* from the members of the definition d and the ABI's place of each.       *)

IsBits(m) == m.bits # NoBits
Holds(m) == IsBits(m) /\ m.bits > 0
Reached(d, i) == AbiRun(SubSeq(d.body.members, 1, i - 1), FALSE, d.abis).pos
Rounded(d, i, by) == RoundUp(Reached(d, i), 8 * by)

\* The alignment of a member: none for an anonymous structure, at most a
\* word, and in a block that of a structure is its size.
AlignUsed(d, m) ==
    IF m.anon THEN 1
    ELSE MinOf(Word, IF d.local THEN AbiSize(m.ty, d.abis) ELSE AbiAlign(m.ty, d.abis))
Misaligned(d, i, m) ==
    /\ ~IsBits(m)
    /\ Rounded(d, i, AlignUsed(d, m)) # Rounded(d, i, AbiAlign(m.ty, d.abis))

\* A bit-field never shares a unit with a member of another type.
Apart(d, i, m, prev) ==
    /\ Holds(m) /\ ~(IsBits(prev) /\ prev.ty = m.ty)
    /\ Holds(prev) \/ Reached(d, i) % (8 * BaseSize[m.ty]) # 0

\* The rest of the unit of a bit-field is left unused, except that an
\* anonymous structure begins where the unit does.
Unused(d, i, m, prev) ==
    /\ ~IsBits(m) /\ Holds(prev)
    /\ \/ m.anon
       \/ RoundUp(Rounded(d, i, BaseSize[prev.ty]), 8 * AbiAlign(m.ty, d.abis))
             # Rounded(d, i, AbiAlign(m.ty, d.abis))

\* An anonymous structure gives its bit-fields as members of whole types.
Spread(d, m) == m.anon /\ d.abis[m.ty].packed

\* After a bit-field of a union, the others follow it.
PlaceGap(d) ==
    LET ms == d.body.members
    IN IF d.body.union
       THEN \/ \E i \in 1 .. Len(ms) - 1 : Holds(ms[i])
            \/ \E i \in DOMAIN ms : Spread(d, ms[i])
       ELSE \E i \in DOMAIN ms :
                \/ Misaligned(d, i, ms[i]) \/ Spread(d, ms[i])
                \/ i > 1 /\ (Apart(d, i, ms[i], ms[i - 1]) \/ Unused(d, i, ms[i], ms[i - 1]))

\* The size is that of the largest member of a union; it is a multiple of
\* the word for a structure, unless it ends with a flexible array, which
\* has an element in a block.
Flexible(d) == Last(d.body.members).count = 0
FieldsUsed(d) ==
    LET n == Len(d.abi.fields)
    IN IF d.local /\ Flexible(d)
       THEN [d.abi.fields EXCEPT ![n].bits = 8 * AbiSize(Last(d.body.members).ty, d.abis)]
       ELSE d.abi.fields
SizeUsed(d) ==
    IF d.body.union
    THEN Max({AbiSize(m.ty, d.abis) * m.count : m \in ToSet(d.body.members)})
    ELSE IF ~Flexible(d) THEN RoundUp(d.abi.end, Word)
    ELSE IF ~d.local THEN d.abi.end
    ELSE RoundUp(d.abi.end + AbiSize(Last(d.body.members).ty, d.abis), Word)

\* The members of an anonymous structure are in no class.
Uncounted(d) == \E m \in ToSet(d.body.members) : m.anon

\* Floats travel in vector registers if they are scalars, all of one type,
\* or, in a definition at file scope, beside other scalars and all of an
\* eightbyte; beside a pointer to a tagged structure none does.
Scalars(d) == \A m \in ToSet(d.body.members) : m.count = 1 /\ ~IsBits(m) /\ ~IsTag(m.ty)
FieldTypes(d) == {m.ty : m \in ToSet(d.body.members)}
VectorUsed(d) ==
    IF d.body.union \/ ~Scalars(d) \/ "sptr" \in FieldTypes(d) THEN {}
    ELSE IF d.local /\ FieldTypes(d) = {"ldouble"} THEN 0 .. 1
    ELSE IF Cardinality(FieldTypes(d)) = 1 THEN d.abi.vec
    ELSE IF d.local \/ FieldTypes(d) \subseteq Floats THEN {}
    ELSE d.abi.vec

\* A structure whose members have the layout of the ABI has each member at
\* the bits where the ABI puts it, except in the cases of PlaceGap, and a
\* flexible array of a block is its first element; its size is then
\* the ABI's up to the padding at the end, and no more than sixteen bytes
\* travel in the registers that the ABI names, up to the floats named
\* above (the two copies of the layout in parse_base_type and stmt).
LayoutAgrees == status # "fatal" => \A t \in TagsSeen :
    LET d == TagMeant(t)
        l == structs[t]
    IN TagFound(t) /\ d.clean /\ ~PlaceGap(d) =>
        /\ l.fields = FieldsUsed(d)
        /\ l.size = SizeUsed(d)
        /\ d.abi.size <= 16 /\ ~Uncounted(d) => l.vec = VectorUsed(d)

=============================================================================
