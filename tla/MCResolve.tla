----------------------------- MODULE MCResolve -----------------------------
(* Resolve on two inputs and two archives of two members each.             *)
EXTENDS Resolve, TLC

CONSTANTS f, g          \* the symbol names

S(n) == [name |-> n, bind |-> "GLOBAL", def |-> TRUE]
W(n) == [name |-> n, bind |-> "WEAK", def |-> TRUE]
U(n) == [name |-> n, bind |-> "GLOBAL", def |-> FALSE]
WU(n) == [name |-> n, bind |-> "WEAK", def |-> FALSE]
L(n) == [name |-> n, bind |-> "LOCAL", def |-> TRUE]

\* Inputs refer to names and may define them; members define and refer.
InputTables == {<<U(f)>>, <<WU(f), S(g)>>, <<W(f), U(g)>>, <<L(f), U(g), U(f)>>, Bad}
MemberTables == {<<S(f)>>, <<W(f)>>, <<WU(f), S(g)>>, <<W(g), U(f)>>, Bad}

\* The entries ranlib writes for a member, in the order of its symbols.
Entries(t, m) ==
    IF t = Bad THEN << >>
    ELSE LET d == SelectSeq(t, LAMBDA y : y.def /\ y.bind # "LOCAL")
         IN [i \in 1 .. Len(d) |-> <<d[i].name, m>>]

\* An archive's index agrees with its members, is stale (it lists names its
\* members no longer define), or is unreadable.
Accurate(t, a) == Entries(t[<<a, 1>>], 1) \o Entries(t[<<a, 2>>], 2)
Stale == <<<<f, 2>>, <<g, 1>>>>

MCTables ==
    {(<<0, 1>> :> i @@ <<0, 2>> :> j @@ <<1, 1>> :> k
        @@ <<1, 2>> :> l @@ <<2, 1>> :> m @@ <<2, 2>> :> n) :
        i \in InputTables \ {Bad}, j \in InputTables,
        k \in {<<S(f)>>, <<S(f), U(g)>>, <<W(g), U(f)>>}, l \in MemberTables,
        m \in {<<S(f)>>, <<WU(f), S(g)>>}, n \in {<<S(g)>>, Bad}}
MCImages ==
    UNION {{[table |-> t, armap |-> <<Accurate(t, 1), Accurate(t, 2)>>],
            [table |-> t, armap |-> <<Stale, Accurate(t, 2)>>]} : t \in MCTables}
    \cup {[table |-> t, armap |-> <<Accurate(t, 1), Bad>>] :
            t \in {u \in MCTables : u[<<0, 2>>] = <<U(f)>>}}
=============================================================================
