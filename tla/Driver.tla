------------------------------- MODULE Driver -------------------------------
(***************************************************************************)
(* main of src/b1cc.c: it reads the options, writes the bundled headers to *)
(* a temporary directory, and takes one of five ways through the inputs:   *)
(* -E, -S, -c, a single input on its way to an executable, or a loop over  *)
(* several inputs and one link.  Compiling a file is backend_compile_asm,  *)
(* the specification of ParallelEmit.                                      *)
(*                                                                         *)
(* A path is <<base, suffix>>, an option <<name, joined operand>>.  Of a   *)
(* file the model keeps its kind and the parts whose code it holds: the    *)
(* inputs, and the runtime objects that no input stands for.               *)
(* Every call that can fail may do so, MaxFaults times in all: a fatal     *)
(* error is an exit(1) on the spot, a tool that fails returns its status,  *)
(* and the internal linker, a call of main's own process, may do either.   *)
(***************************************************************************)
EXTENDS ParallelEmit, Functions

CONSTANTS
    Commands,        \* the argument vectors
    Program,         \* the functions of each C file
    MaxFaults        \* bound on the calls that fail

ELF    == {"x86_64-b1nix", "x86_64-elf", "x86_64-unknown-elf"}
Kernel == ELF \ {"x86_64-b1nix"}

RuntimeFiles == <<"divdi3", "runtime">>
IncDir == <<"b1cc-inc", "/">>
RtDir  == <<"b1cc-rt", "/">>
RtObject(n) == <<RuntimeFiles[n], ".rt.o">>
NoPath == <<"", "">>
NoReturn == 2        \* of a call that ends in diagnostics_fatal
Stdout == <<"-", "">>

VARIABLES
    argv, internal_ld, cc_exists,   \* the command line and the environment
    opt, inputs,
    phase,           \* where main stands
    idx,             \* index of the argument, input or runtime file at hand
    fs,              \* the files: path -> [kind, of]
    temps,           \* files made by mkstemps so far; the last ones are in use
    temp_objects, link_cmd_args, runtime_objs,
    ran,             \* the commands given to system() or to the linker
    rc,              \* status of the last of them, NoReturn when it left main
    faults,
    status           \* the exit status, -1 while main runs

configVars == <<argv, internal_ld, cc_exists>>
listVars   == <<temp_objects, link_cmd_args, runtime_objs>>
mainVars   == <<configVars, opt, inputs, phase, idx, fs, temps, listVars, ran, rc, faults,
                status>>
vars == <<backendVars, mainVars>>

File(kind, of) == [kind |-> kind, of |-> of]
Empty == File("empty", << >>)

Write(files, p, f) == [q \in DOMAIN files \cup {p} |-> IF q = p THEN f ELSE files[q]]
Without(files, ps)  == Restrict(files, DOMAIN files \ ps)

\* The part that a source, an assembly text or an object holds, and what a
\* tool that is given several of them puts together.
PartIn(files, p)   == IF p \in DOMAIN files /\ files[p].of # << >> THEN files[p].of[1] ELSE NoPath
CodeIn(files, ps)  == [n \in DOMAIN ps |-> PartIn(files, ps[n])]

IsObject(p)    == p[2] \in {".o", ".a"}
IsAssembly(p)  == p[2] \in {".S", ".s"}
IsC(p)         == ~IsObject(p) /\ ~IsAssembly(p)
IsUserFile(p)  == p[2] \in {".c", ".S", ".s", ".o", ".a"}

\* The n-th file that mkstemps makes, and what is a file or directory of the
\* compiler's own.
Temp(n) == <<"b1cc", "temporary", n>>
Temporary(p) == p \in {IncDir, RtDir} \/ p[2] \in {"temporary", ".rt.o"}

\* The arguments that are compiled as C: -S takes any input for one.
CompiledAsC(c) ==
    {p \in Range(c) : IsUserFile(p) /\ (IsC(p) \/ \E a \in Range(c) : a[1] = "-S")}

\* The names that mkstemps and mkdtemp make up are new.
ASSUME CommandAssumption ==
    \A c \in Commands : /\ c \in Seq(STRING \X STRING)
                        /\ \A a \in Range(c) : ~Temporary(a)
ASSUME ProgramAssumption ==
    \A c \in Commands : \A p \in CompiledAsC(c) : Program[p] \in Seq(Seq(Ops) \ {<< >>})

-----------------------------------------------------------------------------
Options == [emit_asm |-> FALSE, compile_only |-> FALSE, preprocess_only |-> FALSE,
            internal_link |-> internal_ld, shared |-> FALSE, pie |-> FALSE,
            pic_mode |-> FALSE, freestanding |-> FALSE, nostdlib |-> FALSE,
            output |-> NoPath, target |-> "arm64-darwin"]

Init ==
    /\ EmitInit(<< >>)
    /\ argv \in Commands /\ internal_ld \in BOOLEAN /\ cc_exists \in BOOLEAN
    /\ opt = Options /\ inputs = << >>
    /\ phase = "options" /\ idx = 1
    /\ fs = [p \in {q \in Range(argv) : IsUserFile(q)} |-> File(p[2], <<p>>)]
    /\ temps = 0
    /\ temp_objects = << >> /\ link_cmd_args = << >> /\ runtime_objs = << >>
    /\ ran = << >> /\ rc = 0 /\ faults = 0 /\ status = -1

\* Where main goes on with the next input, or after them.
Step(p, i) == phase' = p /\ idx' = i /\ UNCHANGED <<configVars, opt, inputs, status>>
Quiet == UNCHANGED <<backendVars, temps, listVars, ran, rc, faults>>

Leave(s) == phase' = "exit" /\ status' = s /\ UNCHANGED <<configVars, opt, inputs, idx>>

\* diagnostics_error and diagnostics_fatal: exit(1), with no cleanup.
Fatal == Leave(1) /\ UNCHANGED <<backendVars, fs, temps, listVars, ran, rc>>
Fails == faults < MaxFaults /\ faults' = faults + 1

-----------------------------------------------------------------------------
(* Options                                                                 *)

Arg == argv[idx]
Operands == {"-o", "-I", "-D", "-l"}        \* those that need one
Flags == {"-S", "-c", "-E", "-fPIC", "-fno-pic", "-ffreestanding", "-nostdlib",
          "--internal-link", "-shared", "--pie", "--target"}

\* What a flag sets.  Options that are only recorded for the preprocessor,
\* the dumps or the tools' command lines set nothing here.
Set(o, a) ==
    CASE a[1] = "-S" -> [o EXCEPT !.emit_asm = TRUE]
      [] a[1] = "-c" -> [o EXCEPT !.compile_only = TRUE]
      [] a[1] = "-E" -> [o EXCEPT !.preprocess_only = TRUE]
      [] a[1] = "-fPIC" -> [o EXCEPT !.pic_mode = TRUE]
      [] a[1] = "-fno-pic" -> [o EXCEPT !.pic_mode = FALSE]
      [] a[1] = "-ffreestanding" -> [o EXCEPT !.freestanding = TRUE]
      [] a[1] = "-nostdlib" -> [o EXCEPT !.nostdlib = TRUE]
      [] a[1] = "--internal-link" -> [o EXCEPT !.internal_link = TRUE]
      [] a[1] = "-shared" -> [o EXCEPT !.shared = TRUE]
      [] a[1] = "--pie" -> [o EXCEPT !.pie = TRUE]
      [] a[1] = "--target" -> [o EXCEPT !.target = a[2]]
      [] OTHER -> o

AtOption == phase = "options" /\ idx <= Len(argv)
NextOption(n) == idx' = idx + n /\ Quiet /\ UNCHANGED <<configVars, phase, fs, status>>

FlagOption ==
    /\ AtOption /\ Arg[1] \in Flags
    /\ opt' = Set(opt, Arg) /\ UNCHANGED inputs /\ NextOption(1)

OperandOption ==
    /\ AtOption /\ Arg[1] \in Operands /\ idx < Len(argv)
    /\ opt' = IF Arg[1] = "-o" THEN [opt EXCEPT !.output = argv[idx + 1]] ELSE opt
    /\ UNCHANGED inputs /\ NextOption(2)

OperandMissing ==
    /\ AtOption /\ Arg[1] \in Operands /\ idx = Len(argv)
    /\ Fatal /\ UNCHANGED faults

InputArgument ==
    /\ AtOption /\ IsUserFile(Arg)
    /\ inputs' = Append(inputs, Arg) /\ UNCHANGED opt /\ NextOption(1)

OnElf == opt.target \in ELF
Usable ==
    /\ inputs # << >>
    /\ opt.target \in ELF \cup {"arm64-darwin"}
    /\ \/ opt.target # "x86_64-b1nix" \/ cc_exists
       \/ opt.internal_link \/ opt.compile_only \/ opt.preprocess_only
       \/ opt.emit_asm \/ opt.shared

\* One input is not put through the loop, unless it becomes a shared object
\* of an ELF target without the internal linker.
FastPath == Len(inputs) = 1 /\ ~(opt.shared /\ OnElf /\ ~opt.internal_link)

Way == CASE opt.preprocess_only -> "preprocess"
         [] ~opt.preprocess_only /\ opt.emit_asm -> "asm"
         [] ~opt.preprocess_only /\ ~opt.emit_asm /\ opt.compile_only -> "compile"
         [] OTHER -> IF FastPath THEN "single" ELSE "loop"

\* The bundled headers are written before anything is checked; a directory
\* that cannot be made is done without.
StartUp ==
    /\ phase = "options" /\ idx > Len(argv)
    /\ \/ /\ fs' = Write(fs, IncDir, Empty) /\ UNCHANGED faults
       \/ /\ Fails /\ UNCHANGED fs
    /\ IF Usable THEN Step(Way, 1) ELSE Leave(1)
    /\ UNCHANGED <<backendVars, temps, listVars, ran, rc>>

-----------------------------------------------------------------------------
(* Pieces the ways have in common                                          *)

In == inputs[idx]
AtInput(p) == phase = p /\ idx <= Len(inputs)
AtEnd(p)   == phase = p /\ idx > Len(inputs)

\* Mutant of Conclude: the headers stay.
Conclude_leaveDir(p, s) ==
    AtEnd(p) /\ Leave(s) /\ fs' = fs /\ Quiet

\* remove_tree of the headers and return.
Conclude(p, s) ==
    AtEnd(p) /\ Leave(s) /\ fs' = Without(fs, {IncDir}) /\ Quiet

\* Mutant of Dest: -o names the output of every input.
Dest_always(suffix) == IF opt.output = NoPath THEN <<In[1], suffix>> ELSE opt.output

\* The name an output gets: -o counts only for a single input.
Dest(suffix) ==
    IF opt.output = NoPath \/ Len(inputs) > 1 THEN <<In[1], suffix>> ELSE opt.output
OutName == IF opt.output = NoPath THEN <<"a", ".out">> ELSE opt.output

Compile(p) ==
    /\ AtInput(p) /\ Step("emit", idx)
    /\ Begin(Program[In])
    /\ UNCHANGED <<fs, temps, listVars, ran, rc, faults>>

Internal == opt.internal_link /\ opt.target = "x86_64-b1nix" /\ ~opt.freestanding
Native   == opt.shared /\ OnElf
RuntimeWanted == opt.freestanding /\ ~opt.nostdlib

\* Where the next call can be fatal: a source that cannot be read or has an
\* error, a file that cannot be created or written, an object writer that
\* gives up.
Dying ==
    \/ phase \in {"asm_write", "object_write", "s_temp", "s_write", "o_temp"}
    \/ phase = "o_write" /\ IsC(inputs[idx]) /\ (Way = "single" \/ Native)
    \/ phase \in {"preprocess", "asm"} /\ idx <= Len(inputs)
    \/ phase \in {"compile", "single", "loop"} /\ idx <= Len(inputs) /\ IsC(inputs[idx])
    \/ phase = "preprocess" /\ idx > Len(inputs) /\ opt.output # NoPath
Die == Dying /\ Fails /\ Fatal

AfterEmit ==
    CASE Way = "asm" -> "asm_write"
      [] Way = "compile" -> "object_write"
      [] Way = "single" /\ Internal -> "o_temp"
      [] OTHER -> "s_temp"

EmitThreads == phase = "emit" /\ EmitStep /\ UNCHANGED mainVars
Compiled  == phase = "emit" /\ pc = "done" /\ Step(AfterEmit, idx) /\ UNCHANGED fs /\ Quiet

MakeTemp ==
    /\ phase \in {"s_temp", "o_temp"}
    /\ fs' = Write(fs, Temp(temps + 1), Empty) /\ temps' = temps + 1
    /\ Step(IF phase = "s_temp" THEN "s_write" ELSE "o_write", idx)
    /\ UNCHANGED <<backendVars, listVars, ran, rc, faults>>

\* system() or the internal linker: on success out holds the code of ins.
Run(tool, ins, dest, kind) ==
    /\ ran' = Append(ran, [tool |-> tool, ins |-> ins])
    /\ \/ rc' = 0 /\ fs' = Write(fs, dest, File(kind, CodeIn(fs, ins))) /\ UNCHANGED faults
       \/ rc' = 1 /\ Fails /\ UNCHANGED fs
    /\ UNCHANGED <<backendVars, temps, listVars>>

-----------------------------------------------------------------------------
(* -E, -S and -c                                                           *)

PreprocessInput == AtInput("preprocess") /\ Step("preprocess", idx + 1) /\ UNCHANGED fs /\ Quiet

PrintTokens ==
    /\ AtEnd("preprocess")
    /\ fs' = Write(fs, IF opt.output = NoPath THEN Stdout ELSE opt.output, File("tokens", inputs))
    /\ Step("printed", idx) /\ Quiet
FinishPreprocess == Conclude("printed", 0)

CompileToAsm == Compile("asm")
WriteAsm ==
    /\ phase = "asm_write"
    /\ fs' = Write(fs, Dest(".s"), File("asm", <<In>>))
    /\ Step("asm", idx + 1) /\ Quiet
FinishAsm == Conclude("asm", 0)

\* Mutant of SkipObject: the index is left alone.
SkipObject_stays == AtInput("compile") /\ IsObject(In) /\ UNCHANGED vars

SkipObject == AtInput("compile") /\ IsObject(In) /\ Step("compile", idx + 1) /\ UNCHANGED fs /\ Quiet
AssembleInput ==
    /\ AtInput("compile") /\ IsAssembly(In)
    /\ Run("as", <<In>>, Dest(".o"), "obj") /\ Step("assembled", idx)
AssembledInput ==
    /\ phase = "assembled"
    /\ IF rc = 0 THEN Step("compile", idx + 1) ELSE Leave(1)
    /\ UNCHANGED fs /\ Quiet
CompileToObject == AtInput("compile") /\ IsC(In) /\ Compile("compile")

\* elf_write_object or macho_write_object; every target has one of them.
WriteObject ==
    /\ phase = "object_write"
    /\ fs' = Write(fs, Dest(".o"), File("obj", <<In>>))
    /\ Step("compile", idx + 1) /\ Quiet
FinishCompile == Conclude("compile", 0)

-----------------------------------------------------------------------------
(* One input                                                               *)

\* An object goes to the linker driver as it is; an assembly file is only
\* assembled, to the name of the executable.
SingleForeign ==
    /\ AtInput("single") /\ ~IsC(In)
    /\ Run(IF IsObject(In) THEN "cc" ELSE "as", <<In>>, OutName,
           IF IsObject(In) THEN "image" ELSE "obj")
    /\ Step("linked", idx)
CompileSingle == AtInput("single") /\ IsC(In) /\ Compile("single")

\* The linker reads the object back from its temporary file.
LinkInternally ==
    /\ phase = "link" /\ Way = "single" /\ Internal
    /\ Run("elf_link", <<Temp(temps)>>, OutName, "image")
    /\ Step("linked", idx)

\* An input, an archive or the output that cannot be opened, is cut short or
\* is not ELF, and a bad archive: the linker calls diagnostics_fatal, and the
\* unlink and remove_tree that follow the call in main are not reached.
LinkDies ==
    /\ phase = "link" /\ Way = "single" /\ Internal
    /\ ran' = Append(ran, [tool |-> "elf_link", ins |-> <<Temp(temps)>>]) /\ rc' = NoReturn
    /\ Fails /\ Leave(1)
    /\ UNCHANGED <<backendVars, fs, temps, listVars>>

-----------------------------------------------------------------------------
(* Several inputs                                                          *)

Listed(p) == temp_objects' = Append(temp_objects, p)
             /\ link_cmd_args' = Append(link_cmd_args, p) /\ UNCHANGED runtime_objs

TakeObject ==
    /\ AtInput("loop") /\ IsObject(In)
    /\ link_cmd_args' = Append(link_cmd_args, In)
    /\ Step("loop", idx + 1)
    /\ UNCHANGED <<backendVars, fs, temps, temp_objects, runtime_objs, ran, rc, faults>>

PrepareAssembly ==
    /\ AtInput("loop") /\ IsAssembly(In)
    /\ Step("o_temp", idx) /\ UNCHANGED fs /\ Quiet

CompileInLoop == AtInput("loop") /\ IsC(In) /\ Compile("loop")

\* The assembly text of a C file, then the object made of it.
WriteAsmTemp ==
    /\ phase = "s_write"
    /\ fs' = Write(fs, Temp(temps), File("asm", <<In>>))
    /\ Step(IF Way = "loop" THEN "o_temp" ELSE IF RuntimeWanted THEN "runtime" ELSE "link", idx)
    /\ Quiet

\* An object that the object writer fills, for the internal linker or for a
\* shared library; the assembly text is not needed for it.
WriteObjectTemp ==
    /\ phase = "o_write" /\ IsC(In)
    /\ (Way = "single" \/ Native)
    /\ LET files == Write(fs, Temp(temps), File("obj", <<In>>))
       IN  fs' = IF Way = "single" THEN files ELSE Without(files, {Temp(temps - 1)})
    /\ IF Way = "single" THEN Step("link", idx) /\ UNCHANGED listVars
       ELSE Step("loop", idx + 1) /\ Listed(Temp(temps))
    /\ UNCHANGED <<backendVars, temps, ran, rc, faults>>

\* An object that a tool fills.
ListObject ==
    /\ phase = "o_write" /\ Way = "loop" /\ ~(IsC(In) /\ Native)
    /\ Listed(Temp(temps)) /\ Step("o_assemble", idx)
    /\ UNCHANGED <<backendVars, fs, temps, ran, rc, faults>>

AssembleObject ==
    /\ phase = "o_assemble"
    /\ IF IsC(In) THEN Run("cc", <<Temp(temps - 1)>>, Temp(temps), "obj")
       ELSE Run("as", <<In>>, Temp(temps), "obj")
    /\ Step("o_done", idx)

\* Mutant of ObjectDone: the object goes with the assembly text.
ObjectDone_dropsObject ==
    /\ phase = "o_done"
    /\ fs' = IF IsC(In) THEN Without(fs, {Temp(temps - 1), Temp(temps)}) ELSE fs
    /\ Step(IF rc = 0 THEN "loop" ELSE "tidy", IF rc = 0 THEN idx + 1 ELSE idx) /\ Quiet

ObjectDone ==
    /\ phase = "o_done"
    /\ fs' = IF IsC(In) THEN Without(fs, {Temp(temps - 1)}) ELSE fs
    /\ Step(IF rc = 0 THEN "loop" ELSE "tidy", IF rc = 0 THEN idx + 1 ELSE idx) /\ Quiet

LoopDone ==
    /\ AtEnd("loop")
    /\ Step(IF RuntimeWanted THEN "runtime" ELSE "link", 1) /\ UNCHANGED fs /\ Quiet

-----------------------------------------------------------------------------
(* compile_freestanding_runtime, the link and the cleanup                  *)

MakeRuntimeDir ==
    /\ phase = "runtime"
    /\ \/ fs' = Write(fs, RtDir, Empty) /\ Step("runtime_file", 1) /\ UNCHANGED faults
       \/ Fails /\ UNCHANGED fs /\ Step("link", 1)
    /\ UNCHANGED <<backendVars, temps, listVars, ran, rc>>

\* A source that is not there is passed over, and so is one that does not
\* compile.
CompileRuntimeFile ==
    /\ phase = "runtime_file" /\ idx <= Len(RuntimeFiles)
    /\ Step("runtime_file", idx + 1)
    /\ \/ UNCHANGED <<fs, listVars, ran, rc, faults>>
       \/ /\ ran' = Append(ran, [tool |-> IF OnElf THEN "b1cc" ELSE "cc", ins |-> << >>])
          /\ rc' = 0 /\ UNCHANGED faults
          /\ fs' = Write(fs, RtObject(idx), File("obj", <<RtObject(idx)>>))
          /\ runtime_objs' = Append(runtime_objs, RtObject(idx))
          /\ UNCHANGED <<temp_objects, link_cmd_args>>
       \/ /\ ran' = Append(ran, [tool |-> IF OnElf THEN "b1cc" ELSE "cc", ins |-> << >>])
          /\ rc' = 1 /\ Fails /\ UNCHANGED <<fs, listVars>>
    /\ UNCHANGED <<backendVars, temps>>

RuntimeDone ==
    /\ phase = "runtime_file" /\ idx > Len(RuntimeFiles)
    /\ Step("link", 1) /\ UNCHANGED fs /\ Quiet

Link ==
    /\ phase = "link" /\ ~(Way = "single" /\ Internal)
    /\ IF Way = "single" THEN Run("cc", <<Temp(temps)>> \o runtime_objs, OutName, "image")
       ELSE Run(IF Native THEN "ld.lld" ELSE "cc", link_cmd_args \o runtime_objs, OutName, "image")
    /\ Step("linked", idx)

\* Every temporary file of this way, and the headers; the directory of the
\* runtime objects stays.
Tidied(files) ==
    Without(files, Range(temp_objects) \cup Range(runtime_objs) \cup {IncDir}
                  \cup IF Way = "single" THEN {Temp(temps)} ELSE {})

CleanUp ==
    /\ phase \in {"linked", "tidy"}
    /\ fs' = Tidied(fs) /\ Leave(rc) /\ Quiet

Exited == phase = "exit" /\ UNCHANGED vars

MainStep ==
    \/ FlagOption \/ OperandOption \/ OperandMissing \/ InputArgument \/ StartUp
    \/ Die \/ Compiled \/ MakeTemp
    \/ PreprocessInput \/ PrintTokens \/ FinishPreprocess
    \/ CompileToAsm \/ WriteAsm \/ FinishAsm
    \/ SkipObject \/ AssembleInput \/ AssembledInput \/ CompileToObject \/ WriteObject
    \/ FinishCompile
    \/ SingleForeign \/ CompileSingle \/ LinkInternally \/ LinkDies
    \/ TakeObject \/ PrepareAssembly \/ CompileInLoop \/ WriteAsmTemp \/ WriteObjectTemp
    \/ ListObject \/ AssembleObject \/ ObjectDone \/ LoopDone
    \/ MakeRuntimeDir \/ CompileRuntimeFile \/ RuntimeDone \/ Link \/ CleanUp

Next == MainStep \/ EmitThreads \/ Exited

\* main runs on, and so does every thread of the backend.
Spec ==
    /\ Init /\ [][Next]_vars
    /\ WF_vars(MainStep)
    /\ WF_vars(phase = "emit" /\ Main /\ UNCHANGED mainVars)
    /\ \A f \in 1 .. MaxFunctions :
          WF_vars(phase = "emit" /\ f \in Funs /\ Emit(f) /\ UNCHANGED mainVars)

-----------------------------------------------------------------------------
(* Properties                                                              *)

LeftOver == {p \in DOMAIN fs : Temporary(p)}

(***************************************************************************)
(* A run that succeeds leaves no temporary file behind, whichever way it   *)
(* took, with one exception: the directory compile_freestanding_runtime    *)
(* made for the runtime objects.  A run whose tool or internal linker came *)
(* back with a failure does the same, unless it was assembling for -c,     *)
(* which returns without the cleanup.  A run that the internal linker ends *)
(* with diagnostics_fatal leaves the object it was to link, and of all the *)
(* files made before it no other but the headers.  Of a run that main ends *)
(* with a fatal error of its own nothing is said.                          *)
(***************************************************************************)
NothingLeftBehind ==
    phase = "exit" =>
        /\ status = 0 \/ (rc = 1 /\ ~opt.compile_only) => LeftOver \subseteq {RtDir}
        /\ rc = NoReturn => /\ Temp(temps) \in LeftOver
                           /\ LeftOver \subseteq {IncDir, RtDir, Temp(temps)}

(***************************************************************************)
(* Every command is given files that are there and have been written: no   *)
(* temporary file is handed to a tool before its contents or after its     *)
(* removal.                                                                *)
(***************************************************************************)
CommandsFindInputs ==
    [][ran' # ran => \A p \in Range(ran'[Len(ran')].ins) :
                        p \in DOMAIN fs /\ fs[p] # Empty]_vars

Holds(p, of) == p \in DOMAIN fs /\ fs[p].of = of

(***************************************************************************)
(* Exit status 0 means that the output is there and is that of the inputs: *)
(* -E writes the tokens of all of them, -S and -c a file for each that is  *)
(* compiled, and a link takes every input once, in the order of the        *)
(* command line, and after them the runtime objects that were compiled.    *)
(* Two inputs of one base name share an output and are left out, as are    *)
(* functions whose thread could not be started.                            *)
(***************************************************************************)
SuccessIsComplete ==
    status = 0 /\ failures = 0 =>
        CASE Way = "preprocess" ->
                Holds(IF opt.output = NoPath THEN Stdout ELSE opt.output, inputs)
          [] Way \in {"asm", "compile"} ->
                \A n \in DOMAIN inputs :
                    LET p == inputs[n]
                        suffix == IF Way = "asm" THEN ".s" ELSE ".o"
                        dest == IF opt.output = NoPath \/ Len(inputs) > 1
                                THEN <<p[1], suffix>> ELSE opt.output
                        alone == \A m \in DOMAIN inputs : inputs[m][1] = p[1] => m = n
                    IN  alone /\ ~(Way = "compile" /\ IsObject(p)) => Holds(dest, <<p>>)
          [] OTHER -> Holds(OutName, inputs \o runtime_objs)

(* The compiler comes to an end, however its threads are scheduled and     *)
(* whatever fails.                                                         *)
Exits == <>(phase = "exit")
=============================================================================
