-------------------------------- MODULE Link --------------------------------
(***************************************************************************)
(* The internal linker after resolution, by the kind of link the driver    *)
(* asked for: elf_link_static for an executable at a fixed address,        *)
(* elf_link for a PIE or a shared object.  Both begin with the layout.     *)
(***************************************************************************)
EXTENDS DynLink

vars == <<layoutVars, linkVars, staticVars, dynVars>>

Init == LinkInit /\ StaticInit /\ DynInit

Terminated == pc \in {"done", "failed"} /\ UNCHANGED vars

Next ==
    \/ Lay /\ UNCHANGED <<staticVars, dynVars>>
    \/ StaticStep /\ UNCHANGED dynVars
    \/ DynStep /\ UNCHANGED staticVars
    \/ Terminated

Spec == Init /\ [][Next]_vars
=============================================================================
