------------------------------ MODULE MCCalls ------------------------------
(***************************************************************************)
(* Signatures for Calls.  Integers and doubles first, up to and past the   *)
(* last register of their kind, then two parameters of any type; every     *)
(* type of result after every few parameters, of either kind of call; long *)
(* lists of integers; and variable arguments.                              *)
(***************************************************************************)
EXTENDS Calls

Long == Scalar(0)
Double == Scalar(8)
Common == {Long, Scalar(4), Double, Struct(8), Struct(16), Struct(24),
           Homogeneous(4, 2), Homogeneous(4, 3), Homogeneous(8, 2), Homogeneous(8, 3),
           Mixed(1, 2), Mixed(2, 1)}
TypesOf(target) == Common \cup IF target = "x86_64" THEN {Scalar(16)} ELSE {}

Times(n, t) == [i \in 1 .. n |-> t]
Sig(target, ps, r, v, ptr) ==
    [target |-> target, params |-> ps, ret |-> r, varargs |-> v, ptr |-> ptr]

Targets == {"x86_64", "arm64"}
UpTo2(S) == {<< >>} \cup {<<a>> : a \in S} \cup {<<a, b>> : a \in S, b \in S}

\* No floats, or all but one of the vector registers, or all of them.
Filled(target) ==
    {Times(m, Double) \o Times(n, Long) \o tail :
        m \in {0, 7, 8}, n \in {0, 4, 5, 6, 7}, tail \in UpTo2(TypesOf(target))}

ByName(target) == {Sig(target, ps, Long, 0, FALSE) : ps \in Filled(target)}
Results(target) ==
    {Sig(target, ps, r, 0, FALSE) :
        ps \in UpTo2({Long, Double, Struct(16), Struct(24)} \cup (TypesOf(target) \cap {Scalar(16)})),
        r \in TypesOf(target)}
Scalars(target) == {t \in TypesOf(target) : t.agg = 0}
ByPointer(target) ==
    {Sig(target, Times(m, Double) \o Times(n, Long), r, 0, TRUE) :
        m \in {0, 2, 9}, n \in {0, 2, 6, 7, 9}, r \in Scalars(target)}
    \cup {Sig(target, ps, r, 0, TRUE) : ps \in UpTo2(Scalars(target)), r \in Scalars(target)}
Many(target) == {Sig(target, Times(n, Long), Long, 0, ptr) : n \in 9 .. 18, ptr \in BOOLEAN}

\* Lists of any length after a few parameters, or more than any register takes.
Variadic(target) ==
    {Sig(target, Times(n, Long), r, v, FALSE) :
        n \in 1 .. 15, v \in 1 .. 15, r \in {Long, Double, Struct(16), Struct(24)}}

MCSignatures ==
    UNION {ByName(target) \cup Results(target) \cup ByPointer(target) \cup Many(target) \cup
           {s \in Variadic(target) : s.varargs < Len(s.params)} : target \in Targets}

=============================================================================
