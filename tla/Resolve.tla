------------------------------ MODULE Resolve ------------------------------
(***************************************************************************)
(* Symbol resolution of the internal linker (src/linker.c): the explicit   *)
(* inputs are parsed and included in command-line order, the archive       *)
(* indexes are loaded, and resolve_pass is repeated until a whole pass     *)
(* includes nothing.  One step of the model is one iteration of the        *)
(* innermost loop, so that the object list is seen growing under the scan. *)
(***************************************************************************)
EXTENDS Naturals, Sequences

CONSTANTS
    Names,       \* symbol names (non-empty strings)
    NInputs,     \* LinkRequest.n_inputs
    NArch,       \* LinkRequest.n_archives
    Offsets,     \* member header offsets inside an archive
    Images,      \* the contents the files may have
    None,        \* no entry in a hash map
    Bad          \* a file diagnostics_fatal is called for: it cannot be
                 \* opened, is short, or has the wrong magic

Bindings == {"LOCAL", "GLOBAL", "WEAK"}

\* Input i is the file <<0, i>>, the member of archive a at header offset m
\* is <<a, m>>.
InputFiles == {0} \X (1 .. NInputs)
Members == (1 .. NArch) \X Offsets
Files == InputFiles \cup Members

\* What parse_object returns: a new Obj at an address of its own, so that two
\* parses of one file are two objects.
Objs == [file : Files, addr : Nat]

\* A symbol-table entry; def is "st_shndx is not SHN_UNDEF", so a COMMON
\* symbol counts as a definition, as it does in the code.
Sym == [name : Names, bind : Bindings, def : BOOLEAN]

\* ELF allows one entry per non-local name in an object's symbol table.
SymTables ==
    {t \in Seq(Sym) : \A i, j \in 1 .. Len(t) :
        (t[i].bind # "LOCAL" /\ t[j].bind # "LOCAL" /\ t[i].name = t[j].name)
            => i = j}

\* The index of an archive (its System V armap): names and member offsets.
ArMaps == Seq(Names \X Offsets)

Image == [table : [Files -> SymTables \cup {Bad}],
          armap : [1 .. NArch -> ArMaps \cup {Bad}]]

ASSUME ImagesAssumption == Images \subseteq Image
ASSUME CountAssumption == NInputs \in Nat /\ NArch \in Nat
ASSUME BadAssumption == Bad \notin SymTables /\ Bad \notin ArMaps
ASSUME NoneAssumption == None \notin Objs /\ None \notin Files /\ None \notin Offsets

VARIABLES
    img,         \* the files, fixed for the whole link
    pc,          \* "inputs", "archives", "resolve", "resolved", "fatal"
    next,        \* the next input or archive to load
    objs,        \* lk->objs, in inclusion order
    globals,     \* lk->globals: name -> the object whose symbol defines it
    symmap,      \* archives[a].symmap: name -> member offset
    parsed,      \* archives[a].parsed: member offset -> the object cached
    oi, si,      \* the loop variables of resolve_pass, counted from 1
    progress     \* resolve_pass's result so far

vars == <<img, pc, next, objs, globals, symmap, parsed, oi, si, progress>>

Tab(o) == img.table[o.file]

\* The objects whose `included` flag is set, and where they come from.
Included == {objs[k] : k \in 1 .. Len(objs)}
IncludedFiles == {o.file : o \in Included}

\* What a symbol table says of a name, locals aside.
TableDefines(t, n, b) ==
    \E i \in 1 .. Len(t) : t[i] = [name |-> n, bind |-> b, def |-> TRUE]
TableRefers(t, n) ==
    \E i \in 1 .. Len(t) : t[i].name = n /\ t[i].bind # "LOCAL" /\ ~t[i].def
Defines(o, n, b) == TableDefines(Tab(o), n, b)
Refers(o, n) == TableRefers(Tab(o), n)
DefinesStrong(o, n) == Defines(o, n, "GLOBAL")
DefinesWeak(o, n) == Defines(o, n, "WEAK")

-----------------------------------------------------------------------------
(* include_object's loop over the symbols of o.  No two of its symbols     *)
(* share a name, so the iterations touch different entries of the map.     *)
\* Mutant of Register: a weak definition is kept even against a strong one.
Register_weakSticks(g, o) ==
    [n \in Names |->
        IF (DefinesStrong(o, n) \/ DefinesWeak(o, n)) /\ g[n] = None
        THEN o ELSE g[n]]

Register(g, o) ==
    [n \in Names |->
        IF \/ DefinesStrong(o, n) /\ (g[n] = None \/ DefinesWeak(g[n], n))
           \/ DefinesWeak(o, n) /\ g[n] = None
        THEN o ELSE g[n]]

\* archive_load keeps the first entry of the armap for a name.
FirstListed(am) ==
    [n \in Names |->
        IF \E i \in 1 .. Len(am) : am[i][1] = n
        THEN LET i == CHOOSE i \in 1 .. Len(am) :
                        /\ am[i][1] = n
                        /\ \A j \in 1 .. i - 1 : am[j][1] # n
             IN am[i][2]
        ELSE None]

\* The member resolve_pass turns to for a name: that of the first archive
\* whose symbol map lists it.
Listed(sm, n) == \E a \in 1 .. NArch : sm[a][n] # None
Supplier(sm, n) ==
    LET a == CHOOSE a \in 1 .. NArch :
                sm[a][n] # None /\ \A b \in 1 .. a - 1 : sm[b][n] = None
    IN <<a, sm[a][n]>>

\* arena_alloc returns new memory each time.  Every parsed object enters the
\* list at once, so the list's length tells the allocations apart.
NewObj(f) == [file |-> f, addr |-> Len(objs) + 1]

\* Mutant of MemberAt: archive_member_at does not look into its cache.
MemberAt_noCache(f) == NewObj(f)

\* archive_member_at: the cached object, or one parsed now.
Cached(f) == parsed[f[1]][f[2]] # None
MemberAt(f) == IF Cached(f) THEN parsed[f[1]][f[2]] ELSE NewObj(f)

-----------------------------------------------------------------------------
Init ==
    /\ img \in Images
    /\ pc = "inputs"
    /\ next = 1
    /\ objs = << >>
    /\ globals = [n \in Names |-> None]
    /\ symmap = [a \in 1 .. NArch |-> [n \in Names |-> None]]
    /\ parsed = [a \in 1 .. NArch |-> [m \in Offsets |-> None]]
    /\ oi = 1 /\ si = 1
    /\ progress = FALSE

Include(o) ==
    /\ objs' = Append(objs, o)
    /\ globals' = Register(globals, o)

\* Step 1 of elf_link_static: one explicit input.
LoadInput ==
    /\ pc = "inputs" /\ next <= NInputs
    /\ img.table[<<0, next>>] # Bad
    /\ Include(NewObj(<<0, next>>))
    /\ next' = next + 1
    /\ UNCHANGED <<img, pc, symmap, parsed, oi, si, progress>>

LoadInputFails ==
    /\ pc = "inputs" /\ next <= NInputs
    /\ img.table[<<0, next>>] = Bad
    /\ pc' = "fatal"
    /\ UNCHANGED <<img, next, objs, globals, symmap, parsed, oi, si, progress>>

InputsLoaded ==
    /\ pc = "inputs" /\ next > NInputs
    /\ pc' = "archives" /\ next' = 1
    /\ UNCHANGED <<img, objs, globals, symmap, parsed, oi, si, progress>>

\* Step 2: one archive's index.
LoadArchive ==
    /\ pc = "archives" /\ next <= NArch
    /\ img.armap[next] # Bad
    /\ symmap' = [symmap EXCEPT ![next] = FirstListed(img.armap[next])]
    /\ next' = next + 1
    /\ UNCHANGED <<img, pc, objs, globals, parsed, oi, si, progress>>

LoadArchiveFails ==
    /\ pc = "archives" /\ next <= NArch
    /\ img.armap[next] = Bad
    /\ pc' = "fatal"
    /\ UNCHANGED <<img, next, objs, globals, symmap, parsed, oi, si, progress>>

ArchivesLoaded ==
    /\ pc = "archives" /\ next > NArch
    /\ pc' = "resolve"
    /\ UNCHANGED <<img, next, objs, globals, symmap, parsed, oi, si, progress>>

(* resolve_pass.  Its outer loop tests oi against lk->nobj each time       *)
(* round, so members included during the pass are scanned in the same pass. *)
Scanning == pc = "resolve" /\ oi <= Len(objs) /\ si <= Len(Tab(objs[oi]))
ScannedSym == Tab(objs[oi])[si]

\* The symbol asks the archives for a definition.
Asks(y) == ~y.def /\ y.bind # "LOCAL" /\ globals[y.name] = None

\* Mutant of AsksForNew: weak references do not pull members.
AsksForNew_strongOnly(y) ==
    /\ Asks(y) /\ y.bind = "GLOBAL" /\ Listed(symmap, y.name)
    /\ MemberAt(Supplier(symmap, y.name)) \notin Included

\* Mutant of AsksForNew: a name already defined pulls its member too.
AsksForNew_evenIfDefined(y) ==
    /\ ~y.def /\ y.bind # "LOCAL" /\ Listed(symmap, y.name)
    /\ MemberAt(Supplier(symmap, y.name)) \notin Included

\* The archives list the name under a member whose object is not included.
AsksForNew(y) ==
    /\ Asks(y) /\ Listed(symmap, y.name)
    /\ MemberAt(Supplier(symmap, y.name)) \notin Included

Advance == si' = si + 1 /\ UNCHANGED oi

SkipSym ==
    /\ Scanning /\ ~AsksForNew(ScannedSym)
    /\ Advance
    /\ UNCHANGED <<img, pc, next, objs, globals, symmap, parsed, progress>>

PullSym ==
    /\ Scanning /\ AsksForNew(ScannedSym)
    /\ LET file == Supplier(symmap, ScannedSym.name)
           m == MemberAt(file)
       IN /\ img.table[file] # Bad
          /\ parsed' = [parsed EXCEPT ![file[1]][file[2]] = m]
          /\ Include(m)
    /\ progress' = TRUE
    /\ Advance
    /\ UNCHANGED <<img, pc, next, symmap>>

\* parse_object finds no ELF64 object at the member's offset.
PullFails ==
    /\ Scanning /\ AsksForNew(ScannedSym)
    /\ img.table[Supplier(symmap, ScannedSym.name)] = Bad
    /\ pc' = "fatal"
    /\ UNCHANGED <<img, next, objs, globals, symmap, parsed, oi, si, progress>>

\* Mutant of NextObj: the pass ends at the first object that pulled a
\* member, and the loop around it is relied upon.
NextObj_stopsAtProgress ==
    /\ pc = "resolve" /\ oi <= Len(objs) /\ si > Len(Tab(objs[oi]))
    /\ oi' = (IF progress THEN Len(objs) + 1 ELSE oi + 1) /\ si' = 1
    /\ UNCHANGED <<img, pc, next, objs, globals, symmap, parsed, progress>>

NextObj ==
    /\ pc = "resolve" /\ oi <= Len(objs) /\ si > Len(Tab(objs[oi]))
    /\ oi' = oi + 1 /\ si' = 1
    /\ UNCHANGED <<img, pc, next, objs, globals, symmap, parsed, progress>>

PassDone == pc = "resolve" /\ oi > Len(objs)

\* Mutant of Again: the loop ignores the pass's result.
Again_always == TRUE

\* "while (resolve_pass(...)) to fixpoint"
Again == progress

RepeatPass ==
    /\ PassDone /\ Again
    /\ oi' = 1 /\ si' = 1 /\ progress' = FALSE
    /\ UNCHANGED <<img, pc, next, objs, globals, symmap, parsed>>

Fixpoint ==
    /\ PassDone /\ ~Again
    /\ pc' = "resolved"
    /\ UNCHANGED <<img, next, objs, globals, symmap, parsed, oi, si, progress>>

Terminated ==
    /\ pc \in {"resolved", "fatal"}
    /\ UNCHANGED vars

Step ==
    \/ LoadInput \/ LoadInputFails \/ InputsLoaded
    \/ LoadArchive \/ LoadArchiveFails \/ ArchivesLoaded
    \/ SkipSym \/ PullSym \/ PullFails \/ NextObj
    \/ RepeatPass \/ Fixpoint

Next == Step \/ Terminated

\* The linker is a sequential program: it never stops between two steps.
Spec == Init /\ [][Next]_vars /\ WF_vars(Step)

-----------------------------------------------------------------------------
(* The state is well formed; in particular the scan never indexes past the *)
(* objects or past an object's symbols, and only parsed objects are in the *)
(* list.                                                                   *)
Parsed == {o \in Objs : Tab(o) # Bad}
TypeOK ==
    /\ img \in Image
    /\ pc \in {"inputs", "archives", "resolve", "resolved", "fatal"}
    /\ next \in Nat \ {0}
    /\ objs \in Seq(Parsed)
    /\ globals \in [Names -> Parsed \cup {None}]
    /\ symmap \in [1 .. NArch -> [Names -> Offsets \cup {None}]]
    /\ parsed \in [1 .. NArch -> [Offsets -> Parsed \cup {None}]]
    /\ oi \in 1 .. Len(objs) + 1
    /\ si \in Nat \ {0}
    /\ oi <= Len(objs) => si <= Len(Tab(objs[oi])) + 1
    /\ progress \in BOOLEAN

(* include_object, over any order in which objects arrive: a name is bound *)
(* to the first object with a strong definition, if any object has one,    *)
(* otherwise to the first with a weak one.                                 *)
FirstWith(n, b, o) ==
    \E k \in 1 .. Len(objs) :
        /\ objs[k] = o /\ Defines(o, n, b)
        /\ \A j \in 1 .. k - 1 : ~Defines(objs[j], n, b)
NobodyDefines(n, b) == \A k \in 1 .. Len(objs) : ~Defines(objs[k], n, b)
BindingRule ==
    \A n \in Names :
        \/ FirstWith(n, "GLOBAL", globals[n])
        \/ NobodyDefines(n, "GLOBAL") /\ FirstWith(n, "WEAK", globals[n])
        \/ NobodyDefines(n, "GLOBAL") /\ NobodyDefines(n, "WEAK") /\ globals[n] = None

(* No file is linked in twice, however many names ask for a member and in  *)
(* however many passes: every object that archive_member_at parses is a    *)
(* new one with a clear `included` flag, and only the cache keeps a member *)
(* that is asked for again, because it does not define what its archive's  *)
(* index says it does, from becoming a second object.                      *)
NoDoubleInclusion ==
    \A j, k \in 1 .. Len(objs) : objs[j].file = objs[k].file => j = k

(* At the end of every pass of resolve_pass, not only the last, no object  *)
(* of the image asks for a name that the archives list under a member that *)
(* is not included: the pass scans the members it pulls itself.            *)
Settled(n) ==
    \/ globals[n] # None
    \/ ~Listed(symmap, n)
    \/ Supplier(symmap, n) \in IncludedFiles
EveryPassCloses ==
    PassDone \/ pc = "resolved" =>
        \A o \in Included, n \in Names : Refers(o, n) => Settled(n)

(* With archive indexes that list what the members define, no name is left *)
(* undefined at the end that some archive member defines: the transitive   *)
(* member resolution of the file header's pipeline.                        *)
Exports(f, n) ==
    /\ img.table[f] # Bad
    /\ \E b \in {"GLOBAL", "WEAK"} : TableDefines(img.table[f], n, b)
IndexAccurate ==
    \A a \in 1 .. NArch :
        /\ img.armap[a] # Bad
        /\ \A n \in Names, m \in Offsets :
            Exports(<<a, m>>, n) <=>
                \E i \in 1 .. Len(img.armap[a]) : img.armap[a][i] = <<n, m>>
DemandMet ==
    pc = "resolved" /\ IndexAccurate =>
        \A o \in Included, n \in Names :
            Refers(o, n) /\ globals[n] = None =>
                \A a \in 1 .. NArch, m \in Offsets : ~Exports(<<a, m>>, n)

(* "while (resolve_pass(...))" ends: a pass that makes progress includes a *)
(* member, and there are finitely many.                                    *)
Termination == <>(pc \in {"resolved", "fatal"})

(* Resolution implements LinkClosure: the passes and cursors are forgotten *)
(* and the archives' supply is read off the files.                         *)
FileMap == [a \in 1 .. NArch |->
    IF img.armap[a] = Bad THEN [n \in Names |-> None] ELSE FirstListed(img.armap[a])]
AbsRefs == [f \in Files |->
    IF img.table[f] = Bad THEN {} ELSE {n \in Names : TableRefers(img.table[f], n)}]
AbsDefs == [f \in Files |-> {n \in Names : Exports(f, n)}]
AbsSupply == [n \in Names |-> IF Listed(FileMap, n) THEN Supplier(FileMap, n) ELSE None]
AbsStage == CASE pc \in {"inputs", "archives"} -> "loading"
              [] pc = "resolve" -> "pulling"
              [] pc = "resolved" -> "closed"
              [] OTHER -> "fatal"
Closure == INSTANCE LinkClosure WITH
    Objects <- Files, Inputs <- InputFiles,
    refs <- AbsRefs, defs <- AbsDefs, supply <- AbsSupply,
    image <- IncludedFiles, stage <- AbsStage
ClosureSpec == Closure!AbsSpec
=============================================================================
