--------------------------- MODULE DurableRegistry ---------------------------
(***************************************************************************)
(* What the relay promises of its registry, without files: one stored      *)
(* value, changed in one step or not at all.  A client that was told of a  *)
(* success finds its change after every restart, one that was told of a    *)
(* failure does not, and one that was told nothing may find either.        *)
(***************************************************************************)

CONSTANTS
    Values,     \* contents of a registry
    Empty       \* the registry before anything was stored

VARIABLES
    stored,     \* what a restart finds
    memory,     \* the registry the handlers read
    told,       \* what clients were last told is stored
    phase       \* "down", "idle", or "saving" a change

vars == <<stored, memory, told, phase>>

Init == stored = Empty /\ memory = Empty /\ told = Empty /\ phase = "idle"

\* A handler changes the registry and begins to save it.
Begin ==
    /\ phase = "idle" /\ phase' = "saving"
    /\ memory' \in Values
    /\ UNCHANGED <<stored, told>>

\* The change is stored, all of it.
Commit ==
    /\ phase = "saving"
    /\ stored' = memory
    /\ UNCHANGED <<memory, told, phase>>

\* Success is answered for a change that is stored; storing may be part of the step.
Succeed ==
    /\ phase = "saving" /\ phase' = "idle"
    /\ stored' = memory /\ told' = memory
    /\ UNCHANGED memory

\* Failure is answered for a change that is not, and the handlers see the old registry again.
Fail ==
    /\ phase = "saving" /\ phase' = "idle"
    /\ stored = told /\ memory' = told
    /\ UNCHANGED <<stored, told>>

Die ==
    /\ phase # "down" /\ phase' = "down"
    /\ UNCHANGED <<stored, memory, told>>

Restart ==
    /\ phase = "down" /\ phase' = "idle"
    /\ memory' = stored /\ told' = stored
    /\ UNCHANGED stored

Next == Begin \/ Commit \/ Succeed \/ Fail \/ Die \/ Restart

Spec == Init /\ [][Next]_vars
=============================================================================
