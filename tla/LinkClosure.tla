---------------------------- MODULE LinkClosure ----------------------------
(***************************************************************************)
(* What the linker's symbol resolution promises, without any scan order:   *)
(* every explicit input is in the image; an archive member is in the image *)
(* only because an object already there left a name undefined that the     *)
(* archives supply by that member; and resolution stops only when no       *)
(* member is wanted any more.  Resolve implements this specification.      *)
(***************************************************************************)
CONSTANTS
    Names,
    Objects,          \* every object the link could take in
    Inputs,           \* those named on the command line
    None

VARIABLES
    refs, defs,       \* the names an object leaves undefined, and defines
    supply,           \* the member the archives supply for a name
    image,            \* the objects taken in so far
    stage             \* "loading", "pulling", "closed" or "fatal"

files == <<refs, defs, supply>>
absVars == <<refs, defs, supply, image, stage>>

Undefined(S) == (UNION {refs[o] : o \in S}) \ (UNION {defs[o] : o \in S})
Wanted(S) == {supply[n] : n \in Undefined(S)} \ {None}

AbsInit ==
    /\ refs \in [Objects -> SUBSET Names]
    /\ defs \in [Objects -> SUBSET Names]
    /\ supply \in [Names -> Objects \cup {None}]
    /\ image = {}
    /\ stage = "loading"

TakeInput(o) ==
    /\ stage = "loading"
    /\ o \in Inputs \ image
    /\ image' = image \cup {o}
    /\ UNCHANGED <<stage, files>>

StartPulling ==
    /\ stage = "loading" /\ image = Inputs
    /\ stage' = "pulling"
    /\ UNCHANGED <<image, files>>

PullMember(m) ==
    /\ stage = "pulling"
    /\ m \in Wanted(image) \ image
    /\ image' = image \cup {m}
    /\ UNCHANGED <<stage, files>>

Close ==
    /\ stage = "pulling"
    /\ Wanted(image) \subseteq image
    /\ stage' = "closed"
    /\ UNCHANGED <<image, files>>

\* An unreadable or malformed file ends the process.
Abort ==
    /\ stage \in {"loading", "pulling"}
    /\ stage' = "fatal"
    /\ UNCHANGED <<image, files>>

AbsNext ==
    \/ \E o \in Objects : TakeInput(o) \/ PullMember(o)
    \/ StartPulling
    \/ Close
    \/ Abort

AbsSafety == AbsInit /\ [][AbsNext]_absVars
AbsSpec == AbsSafety /\ WF_absVars(AbsNext)
=============================================================================
