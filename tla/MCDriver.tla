------------------------------ MODULE MCDriver ------------------------------
(* Command lines and files for Driver.                                     *)
EXTENDS Driver, TLC

O(x) == <<x, "">>
For(t) == <<"--target", t>>
A == <<"a", ".c">>
B == <<"b", ".c">>
S == <<"s", ".S">>
AS == <<"a", ".S">>
Obj == <<"o", ".o">>
Out == <<O("-o"), <<"out", "">> >>

P(n) == <<n, ".c">>

\* a.c and b.c are small; p1 to p4 have up to three functions with contended
\* and uncontended counters, a function with two expansions of one kind, an
\* expansion of each kind; p5 has no function.
MCProgram ==
    A :> << <<"plain">>, <<"clz">> >> @@ B :> << <<"plain">> >>
    @@ P("p1") :> << <<"plain">>, <<"atomic_cas", "atomic_cas">>, <<"plain", "plain">> >>
    @@ P("p2") :> << <<"atomic_cas", "plain">>, <<"atomic_cas">> >>
    @@ P("p3") :> << <<"clz", "clz">>, <<"ctz">> >>
    @@ P("p4") :> << <<"clz">>, <<"clz", "atomic_cas">> >>
    @@ P("p5") :> << >>
MCPrograms == {MCProgram[p] : p \in DOMAIN MCProgram}
MCBuilds == {"pthreads", "serial"}

Inputs == { <<A>>, <<S>>, <<Obj>>, <<B, S>>, <<Obj, B>>, <<S, Obj>>, <<B, A>> }
Links == { << >>, <<O("-shared")>>, <<O("--internal-link")>>, <<O("-ffreestanding")>>,
           <<O("-ffreestanding"), O("-nostdlib")>>, <<O("-fPIC"), O("-fno-pic")>>,
           <<O("--pie"), O("--internal-link")>>, <<O("--internal-link"), O("-shared")>> }

MCCommands ==
    { <<For(t)>> \o l \o i : t \in {"x86_64-b1nix", "x86_64-elf"}, l \in Links, i \in Inputs }
    \cup { l \o i : l \in {<< >>, <<O("-shared")>>, <<O("-ffreestanding")>>}, i \in Inputs }
    \cup { <<O("-c")>> \o Out \o i : i \in Inputs \cup {<<A, AS>>} }
    \cup { <<m>> \o o \o i : m \in {O("-S"), O("-E")}, o \in {Out, << >>}, i \in {<<A>>, <<A, B>>} }
    \cup { <<O("-S"), P(n)>> : n \in {"p1", "p2", "p3", "p4", "p5"} }
    \cup { <<A, O(o)>> : o \in {"-o", "-I"} }
    \cup { <<O("-I"), <<"dir", "">> >>, <<For("sparc"), A>> }
=============================================================================
