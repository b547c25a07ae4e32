------------------------------ MODULE MCScopes ------------------------------
(***************************************************************************)
(* Translation units with up to three declarations of one name, in blocks  *)
(* up to three deep of up to two functions; and structures and unions with *)
(* up to three members of every kind, at file scope and in a block, alone  *)
(* and around a structure that either scope defines.                       *)
(***************************************************************************)
EXTENDS Scopes

Unit(kinds, bodies, size, depth, funcs) ==
    [kinds |-> kinds, bodies |-> bodies, size |-> size, depth |-> depth, funcs |-> funcs]

M(ty) == [ty |-> ty, bits |-> NoBits, count |-> 1, anon |-> FALSE]
Bits(ty, w) == [M(ty) EXCEPT !.bits = w]
Many(ty, k) == [M(ty) EXCEPT !.count = k]
Body(ms, u) == [members |-> ms, union |-> u]

NameUnits ==
    {Unit({"var", "auto", "static", "enum"}, None, 3, 2, 2),
     Unit({"static", "constexpr", "for", "enum"}, None, 3, 2, 2),
     Unit({"var", "auto", "extern", "enum"}, None, 3, 3, 2),
     Unit({"typedef", "auto"}, None, 3, 2, 2),
     Unit({"static", "enum", "proto"}, None, 2, 1, 2),
     Unit({"struct"}, [S |-> Body(<<M("long")>>, FALSE)], 3, 3, 2)}

Scalar == {M(ty) : ty \in {"char", "int", "long", "sptr", "float", "double", "ldouble"}}
Packed == {Bits("int", 3), Bits("int", 30), Bits("char", 4), Bits("int", 0)}
Nested == {M("A"), [M("A") EXCEPT !.anon = TRUE]}
Simple == Scalar \cup Packed \cup {Many("char", 3)}
Short == {M("char"), M("long"), M("float"), Bits("int", 3)} \cup Nested

Lists(S, k) == UNION {[1 .. i -> S] : i \in 1 .. k}
Flat == Lists(Simple, 3) \cup {Append(l, Many("int", 0)) : l \in Lists(Simple, 1)}
Deep == {l \in Lists(Short, 3) : MemberTags(Body(l, FALSE)) # {}}
Inner == {Body(<<M("int")>>, FALSE), Body(<<M("char"), M("long")>>, FALSE),
          Body(<<Many("char", 5), M("int")>>, TRUE), Body(<<M("float"), M("float")>>, FALSE),
          Body(<<M("ldouble")>>, FALSE), Body(<<Bits("long", 3), Bits("long", 5)>>, FALSE)}

LayoutUnits ==
    {Unit({"struct"}, [B |-> Body(l, FALSE)], 1, 1, 1) : l \in Flat}
    \cup {Unit({"struct"}, [B |-> Body(l, TRUE)], 1, 1, 1) : l \in Lists(Simple, 2)}
    \cup {Unit({"struct"}, [A |-> a, B |-> Body(l, u)], 2, 1, 1) :
            l \in Deep, a \in Inner, u \in BOOLEAN}

MCUnits == NameUnits \cup LayoutUnits
=============================================================================
