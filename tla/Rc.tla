--------------------------------- MODULE Rc ---------------------------------
(***************************************************************************)
(* Rc<T> of src/templates/rc.hpp, the pointer of one thread, and           *)
(* Option<Rc<T>> of src/templates/option.hpp, which members use so that    *)
(* they may be empty.                                                      *)
(*                                                                         *)
(* Roots are variables of the program, a pair <<o, f>> is the member f of  *)
(* object o.  An object is destroyed inside the destructor of its last Rc, *)
(* and its members are destroyed inside its own destructor, so one ~Rc may *)
(* take a whole structure down before it returns.  operator= runs ~Rc      *)
(* first and reads p_other afterwards: p_other may be the variable itself, *)
(* or live in the structure that has just been taken down (a = a->next).   *)
(***************************************************************************)
EXTENDS Integers, FiniteSets

CONSTANTS
    Roots,      \* Rc variables of the program
    Objects,    \* objects with their headers, each created at most once
    Fields,     \* the Option<Rc<T>> members of an object
    NoObject, NoSlot,
    SizeMax,    \* greatest size_t
    GetsRc      \* TRUE when the program may call get_rc

Members == Objects \X Fields
Slots == Roots \cup Members

ASSUME SentinelAssumption ==
    NoObject \notin Objects /\ NoSlot \notin Slots /\ Roots \cap Members = {}
ASSUME SlotsAssumption == IsFiniteSet(Slots)
\* An Rc takes more than one byte, so a size_t counts all there is room for.
ASSUME SizeAssumption == SizeMax \in Nat \ {0} /\ Cardinality(Slots) <= SizeMax
ASSUME GetsRcAssumption == GetsRc \in BOOLEAN

VARIABLES
    state,      \* state[o]: "unborn", "live", "dying" (inside ~T), "freed"
    ref_count,
    header,     \* header[s]: what s points to, NoObject: out of scope or empty
    pc,         \* what the program executes next
    this,       \* the variable whose destructor runs
    deleting,   \* the object that destructor has to delete, or is inside of
    outer,      \* outer[o]: the object whose destructor deletes o
    target, src,    \* operator=: the variable assigned and p_other
    old,            \* and what target pointed to
    safe,       \* p_other would survive the destruction of target
    tainted     \* get_rc was called

vars == <<state, ref_count, header, pc, this, deleting, outer, target, src, old,
          safe, tainted>>
assignment == <<target, src, old, safe>>

TypeOK ==
    /\ state \in [Objects -> {"unborn", "live", "dying", "freed"}]
    /\ ref_count \in [Objects -> 0..SizeMax]
    /\ header \in [Slots -> Objects \cup {NoObject}]
    /\ pc \in {"idle", "dec", "delete", "members", "copy", "undefined"}
    /\ this \in Slots \cup {NoSlot}
    /\ deleting \in Objects \cup {NoObject}
    /\ outer \in [Objects -> Objects \cup {NoObject}]
    /\ target \in Slots \cup {NoSlot}
    /\ src \in Slots \cup {NoSlot}
    /\ old \in Objects \cup {NoObject}
    /\ safe \in BOOLEAN
    /\ tainted \in BOOLEAN

Refs(o) == {s \in Slots : header[s] = o}

\* A member is there as long as its object.
Exists(s) == s \in Members => state[s[1]] = "live"

\* The objects of S and what their members lead to.
Closed(S) == \A m \in Members : m[1] \in S /\ header[m] # NoObject => header[m] \in S
ReachedFrom(S) == {o \in Objects : \A C \in SUBSET Objects :
                       S \subseteq C /\ Closed(C) => o \in C}
Held(R) == {header[s] : s \in R} \ {NoObject}
Reached == ReachedFrom(Held(Roots))

\* What the program can name: its variables and the members it gets to.
Accessible(s) == s \in Roots \/ (s \in Members /\ s[1] \in Reached)

----------------------------------------------------------------------------
Init ==
    /\ state = [o \in Objects |-> "unborn"]
    /\ ref_count = [o \in Objects |-> 0]
    /\ header = [s \in Slots |-> NoObject]
    /\ pc = "idle" /\ this = NoSlot
    /\ deleting = NoObject /\ outer = [o \in Objects |-> NoObject]
    /\ target = NoSlot /\ src = NoSlot /\ old = NoObject
    /\ safe = TRUE /\ tainted = FALSE

\* Rc(), Rc(args); in an empty Option by its forwarding constructor.
New(s, o) ==
    /\ pc = "idle" /\ Accessible(s) /\ header[s] = NoObject
    /\ state[o] = "unborn"
    /\ state' = [state EXCEPT ![o] = "live"]
    /\ ref_count' = [ref_count EXCEPT ![o] = 1]
    /\ header' = [header EXCEPT ![s] = o]
    /\ UNCHANGED <<pc, this, deleting, outer, assignment, tainted>>

\* Faults: a new reference is not counted; the object is deleted one reference
\* early, or never.
Uncounted(n) == n
LastEarly(n) == n \in {0, 1}
LastNever(n) == FALSE

Incremented(n) == IF n = SizeMax THEN 0 ELSE n + 1
Decremented(n) == IF n = 0 THEN SizeMax ELSE n - 1
Last(n) == n = 0

\* The copy constructor: s, which holds nothing, becomes a reference to o.
Refer(s, o) ==
    /\ ref_count' = [ref_count EXCEPT ![o] = Incremented(@)]
    /\ header' = [header EXCEPT ![s] = o]

Copy(s, p) ==
    /\ pc = "idle" /\ s \in Roots /\ header[s] = NoObject
    /\ Accessible(p) /\ header[p] # NoObject /\ Exists(p)
    /\ IF state[header[p]] = "live"
       THEN Refer(s, header[p]) /\ UNCHANGED pc
       ELSE pc' = "undefined" /\ UNCHANGED <<ref_count, header>>
    /\ UNCHANGED <<state, this, deleting, outer, assignment, tainted>>

\* The object p points to makes an Rc to itself; the count stays as it is.
GetRc(s, p) ==
    /\ GetsRc
    /\ pc = "idle" /\ s \in Roots /\ header[s] = NoObject
    /\ Accessible(p) /\ header[p] # NoObject /\ Exists(p) /\ state[header[p]] = "live"
    /\ header' = [header EXCEPT ![s] = header[p]]
    /\ tainted' = TRUE
    /\ UNCHANGED <<state, ref_count, pc, this, deleting, outer, assignment>>

\* The end of a scope for a variable, `= nullptr` for an Option.
Drop(s) ==
    /\ pc = "idle" /\ Accessible(s) /\ header[s] # NoObject /\ Exists(s)
    /\ pc' = "dec" /\ this' = s
    /\ UNCHANGED <<state, ref_count, header, deleting, outer, assignment, tainted>>

\* The objects that would stay if s let its object go.
ReachedWithout(s) ==
    LET Kept(S) == {o \in Objects : \A C \in SUBSET Objects :
            /\ S \subseteq C
            /\ \A m \in Members \ {s} :
                   m[1] \in C /\ header[m] # NoObject => header[m] \in C
            => o \in C}
    IN Kept(Held(Roots \ {s}))

\* s = p.  An Option has no Rc to destroy when it is empty, none to copy when
\* p is; a variable and what is assigned to it always hold one.
Assign(s, p) ==
    /\ pc = "idle" /\ Accessible(s) /\ Exists(s) /\ Accessible(p) /\ Exists(p)
    /\ s \in Roots => header[s] # NoObject /\ header[p] # NoObject
    /\ pc' = IF header[s] = NoObject THEN "copy" ELSE "dec"
    /\ this' = s /\ target' = s /\ src' = p /\ old' = header[s]
    /\ safe' = (p # s /\ (p \in Roots \/ p[1] \in ReachedWithout(s)))
    /\ UNCHANGED <<state, ref_count, header, deleting, outer, tainted>>

----------------------------------------------------------------------------
(* The steps of ~Rc, and of operator= after it. *)

\* A destructor returns: into the destructor of the object it is a member of,
\* into operator=, or to the program.
Return(inside) ==
    /\ pc' = IF inside # NoObject THEN "members"
             ELSE IF target # NoSlot THEN "copy" ELSE "idle"
    /\ this' = IF inside = NoObject THEN target ELSE NoSlot

\* --header->ref_count == 0
Dec ==
    /\ pc = "dec" /\ state[header[this]] = "live"
    /\ ref_count' = [ref_count EXCEPT ![header[this]] = Decremented(@)]
    /\ header' = [header EXCEPT ![this] = NoObject]
    /\ IF Last(Decremented(ref_count[header[this]]))
       THEN /\ pc' = "delete"
            /\ outer' = [outer EXCEPT ![header[this]] = deleting]
            /\ deleting' = header[this]
            /\ UNCHANGED this
       ELSE Return(deleting) /\ UNCHANGED <<outer, deleting>>
    /\ UNCHANGED <<state, assignment, tainted>>

\* memdelete(header) enters ~RcHeader and there ~T.
Delete ==
    /\ pc = "delete"
    /\ state' = [state EXCEPT ![deleting] = "dying"]
    /\ pc' = "members" /\ this' = NoSlot
    /\ UNCHANGED <<ref_count, header, deleting, outer, assignment, tainted>>

\* ~T destroys its members, in any order its class may declare them in.
DestroyMember(f) ==
    /\ pc = "members" /\ header[<<deleting, f>>] # NoObject
    /\ pc' = "dec" /\ this' = <<deleting, f>>
    /\ UNCHANGED <<state, ref_count, header, deleting, outer, assignment, tainted>>

\* Fault: the destructor does not return to the one that deleted the object.
FreeStays ==
    /\ pc = "members" /\ \A f \in Fields : header[<<deleting, f>>] = NoObject
    /\ state' = [state EXCEPT ![deleting] = "freed"]
    /\ UNCHANGED <<ref_count, header, pc, this, deleting, outer, assignment, tainted>>

\* With no member left the memory is given back.
Free ==
    /\ pc = "members" /\ \A f \in Fields : header[<<deleting, f>>] = NoObject
    /\ state' = [state EXCEPT ![deleting] = "freed"]
    /\ deleting' = outer[deleting]
    /\ Return(outer[deleting])
    /\ UNCHANGED <<ref_count, header, outer, assignment, tainted>>

\* new (this) Rc(p_other): an Rc that was destroyed keeps its bits, an Option does
\* not.  Its union has an initializer, b = false, which the constructor runs
\* before it copies: if p_other is the Option itself and holds something, it
\* overwrites the pointer it is about to copy.
Pointee == IF src = target THEN old ELSE header[src]
Overwritten == src = target /\ target \in Members /\ old # NoObject
CopySource ==
    /\ pc = "copy" /\ Exists(target) /\ Exists(src) /\ ~Overwritten
    /\ \/ Pointee = NoObject /\ UNCHANGED <<ref_count, header>>
       \/ Pointee # NoObject /\ state[Pointee] = "live" /\ Refer(target, Pointee)
    /\ pc' = "idle" /\ this' = NoSlot
    /\ target' = NoSlot /\ src' = NoSlot /\ old' = NoObject /\ safe' = TRUE
    /\ UNCHANGED <<state, deleting, outer, tainted>>

\* Any use of an object that is gone, or of a pointer that was overwritten:
\* nothing is known of the program any more.
TouchFreed ==
    /\ \/ pc = "dec" /\ state[header[this]] # "live"
       \/ /\ pc = "copy"
          /\ \/ ~Exists(target) \/ ~Exists(src) \/ Overwritten
             \/ Pointee # NoObject /\ state[Pointee] # "live"
    /\ pc' = "undefined"
    /\ UNCHANGED <<state, ref_count, header, this, deleting, outer, assignment, tainted>>

----------------------------------------------------------------------------
Start ==
    \/ \E s \in Slots, o \in Objects : New(s, o)
    \/ \E s, p \in Slots : Copy(s, p) \/ GetRc(s, p) \/ Assign(s, p)
    \/ \E s \in Slots : Drop(s)

Step ==
    \/ Dec \/ Delete \/ Free \/ CopySource \/ TouchFreed
    \/ \E f \in Fields : DestroyMember(f)

\* The program may end between two operations, or is lost.
Quiescent == pc \in {"idle", "undefined"} /\ UNCHANGED vars

Next == Start \/ Step \/ Quiescent

Spec == Init /\ [][Next]_vars
\* A destructor or an assignment that was entered is executed.
FairSpec == Spec /\ WF_vars(Step)

----------------------------------------------------------------------------
(* Properties. *)

\* The count of a live object is the number of its Rcs at every step of a
\* destruction that runs through a structure, until get_rc is used.
CountExact ==
    ~tainted => \A o \in Objects :
        state[o] = "live" => ref_count[o] = Cardinality(Refs(o))

\* No Rc is left to an object that is being destroyed or is freed, and a freed
\* object leaves no Rc behind in its members.
NoDangling ==
    ~tainted => \A s \in Slots : header[s] # NoObject =>
        /\ state[header[s]] = "live"
        /\ s \in Members => state[s[1]] \in {"live", "dying"}

\* An assignment uses an object that is gone, or a pointer that was overwritten,
\* only when p_other depends on its target: a = a, or a = a->next where a alone
\* keeps that object (rc.hpp 165-169, option.hpp 23-26 and 50-53).
SourceSurvives == pc = "undefined" => tainted \/ ~safe

\* Between operations an object the program cannot get to any more was kept by
\* a cycle of Rcs, which nothing here breaks.
LeakOnlyByCycles ==
    pc = "idle" /\ ~tainted => \A o \in Objects :
        state[o] = "live" /\ o \notin Reached =>
            \E p \in Objects \ Reached :
                /\ o \in ReachedFrom({p})
                /\ p \in ReachedFrom(Held({p} \X Fields))

\* Destruction comes to an end, whatever the structure.
DestructorsReturn == pc = "dec" ~> pc \in {"idle", "undefined"}

\* While get_rc is not used, no step of Rc is one that shared ownership forbids;
\* a program that a = a has broken need not destroy anything any more.
Ownership == INSTANCE SharedOwnership
    WITH owns <- header,
         phase <- [o \in Objects |-> IF state[o] = "dying" THEN "freed" ELSE state[o]]
ImplementsOwnership == Ownership!Safety
============================================================================
