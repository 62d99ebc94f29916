-------------------------- MODULE SharedOwnership --------------------------
(***************************************************************************)
(* What a shared-ownership pointer promises, whatever its implementation:  *)
(* an object is created with one owner, an owner can share it with an      *)
(* empty slot or let it go, and the object is destroyed exactly once,      *)
(* after its last owner let it go and never before.                        *)
(*                                                                         *)
(* Arc.tla is shown to implement this specification.                       *)
(***************************************************************************)
EXTENDS FiniteSets

CONSTANTS
    Slots,      \* places that can hold a pointer
    Objects,    \* objects, each created at most once
    NoObject    \* content of an empty slot

VARIABLES
    owns,       \* owns[s]: the object slot s points to, or NoObject
    phase       \* phase[o]: "unborn", "live" or "freed"

vars == <<owns, phase>>

Owners(o) == {s \in Slots : owns[s] = o}

Init ==
    /\ owns = [s \in Slots |-> NoObject]
    /\ phase = [o \in Objects |-> "unborn"]

Create(s, o) ==
    /\ owns[s] = NoObject
    /\ phase[o] = "unborn"
    /\ owns' = [owns EXCEPT ![s] = o]
    /\ phase' = [phase EXCEPT ![o] = "live"]

\* Only an object somebody owns can be shared.
Share(s, o) ==
    /\ owns[s] = NoObject
    /\ Owners(o) # {}
    /\ owns' = [owns EXCEPT ![s] = o]
    /\ UNCHANGED phase

Release(s) ==
    /\ owns[s] # NoObject
    /\ owns' = [owns EXCEPT ![s] = NoObject]
    /\ UNCHANGED phase

Destroy(o) ==
    /\ phase[o] = "live"
    /\ Owners(o) = {}
    /\ phase' = [phase EXCEPT ![o] = "freed"]
    /\ UNCHANGED owns

Next ==
    \/ \E s \in Slots, o \in Objects : Create(s, o) \/ Share(s, o)
    \/ \E s \in Slots : Release(s)
    \/ \E o \in Objects : Destroy(o)

\* An orphan is not kept for ever.
Spec == Init /\ [][Next]_vars /\ \A o \in Objects : WF_vars(Destroy(o))

Safety == Init /\ [][Next]_vars
============================================================================
