------------------------------ MODULE RcProofs ------------------------------
(***************************************************************************)
(* Theorems about Rc for any number of variables, objects and members.     *)
(* A cascade of destructors keeps the counts exact because the object that *)
(* is deleted is one that nothing points to; it leaves alone what an       *)
(* assignment needs because an object that is reached without the target   *)
(* is never the last one's.  IInv says so.                                 *)
(***************************************************************************)
EXTENDS Rc, FiniteSetTheorems, TLAPS

Gone(o) == state[o] \in {"dying", "freed"}

\* What the program is doing, whoever took part in the counting.
Control ==
    /\ pc = "idle" => target = NoSlot
    /\ pc = "dec" => this \in Slots /\ header[this] \in Objects
    /\ pc \in {"delete", "members"} => deleting \in Objects
    /\ pc = "copy" => target # NoSlot
    /\ target # NoSlot => src # NoSlot
    /\ target # NoSlot /\ pc # "undefined" =>
          header[target] = NoObject \/ (pc = "dec" /\ this = target)

\* The object that is deleted has no references left; objects whose destructors
\* have been entered stay destroyed.
Doomed ==
    /\ pc = "delete" => state[deleting] = "live" /\ Refs(deleting) = {}
    /\ pc # "delete" /\ deleting \in Objects => Gone(deleting)
    /\ \A o \in Objects : outer[o] \in Objects => Gone(outer[o])

Counts == \A o \in Objects : state[o] = "live" => ref_count[o] = Cardinality(Refs(o))

Points ==
    \A s \in Slots : header[s] # NoObject =>
        /\ state[header[s]] = "live"
        /\ s \in Members => state[s[1]] \in {"live", "dying"}

\* The members that are destroyed belong to an object that is destroyed.
Cascade ==
    pc = "dec" => target = NoSlot \/ this = target \/ (this \in Members /\ Gone(this[1]))

\* What a safe assignment needs does not depend on its target.
Apart(s) == s \in Roots \/ (s \in Members /\ s[1] \in ReachedWithout(target))
Survives ==
    target # NoSlot /\ safe => src # target /\ Apart(src) /\ Apart(target)

\* A live object is somebody's, or is about to be deleted.
Owned == \A o \in Objects : state[o] = "live" => Refs(o) # {} \/ (pc = "delete" /\ deleting = o)

Sharing == Doomed /\ Counts /\ Points /\ Cascade /\ Owned

IInv ==
    /\ TypeOK /\ Control /\ SourceSurvives
    /\ ~tainted => Sharing /\ Survives

----------------------------------------------------------------------------
(* Types. *)

\* A destructor that returns leaves the program counter and this typed.
LEMMA ReturnType ==
    ASSUME TypeOK, NEW inside \in Objects \cup {NoObject}, Return(inside)
    PROVE  /\ pc' \in {"idle", "dec", "delete", "members", "copy", "undefined"}
           /\ this' \in Slots \cup {NoSlot}
BY DEF TypeOK, Return

\* A copy made of a live object leaves counts and pointers typed.
LEMMA ReferType ==
    ASSUME TypeOK, NEW s \in Slots, NEW o \in Objects, Refer(s, o)
    PROVE  /\ ref_count' \in [Objects -> 0..SizeMax]
           /\ header' \in [Slots -> Objects \cup {NoObject}]
BY SizeAssumption DEF TypeOK, Refer, Incremented

\* The types hold at the start.
LEMMA TypeInit == ASSUME Init PROVE TypeOK
<1>1. ref_count \in [Objects -> 0..SizeMax]
  BY SizeAssumption DEF Init
<1> QED BY <1>1 DEF Init, TypeOK

\* Every step keeps the types.
LEMMA TypeStep == ASSUME TypeOK, Control, [Next]_vars PROVE TypeOK'
<1>1. CASE UNCHANGED vars
  BY <1>1 DEF TypeOK, vars
<1>2. ASSUME NEW s \in Slots, NEW o \in Objects, New(s, o) PROVE TypeOK'
  BY <1>2, SizeAssumption DEF TypeOK, New, assignment
<1>3. ASSUME NEW s \in Slots, NEW p \in Slots, Copy(s, p) PROVE TypeOK'
  <2>1. header[p] \in Objects
    BY <1>3 DEF Copy, TypeOK
  <2>2. CASE Refer(s, header[p]) /\ UNCHANGED pc
    <3>1. /\ ref_count' \in [Objects -> 0..SizeMax]
          /\ header' \in [Slots -> Objects \cup {NoObject}]
      BY <2>1, <2>2, ReferType
    <3> QED BY <1>3, <2>2, <3>1 DEF TypeOK, Copy, assignment
  <2>3. CASE pc' = "undefined" /\ UNCHANGED <<ref_count, header>>
    BY <1>3, <2>3 DEF TypeOK, Copy, assignment
  <2> QED BY <1>3, <2>2, <2>3 DEF Copy
<1>4. ASSUME NEW s \in Slots, NEW p \in Slots, GetRc(s, p) PROVE TypeOK'
  BY <1>4 DEF TypeOK, GetRc, assignment
<1>5. ASSUME NEW s \in Slots, Drop(s) PROVE TypeOK'
  BY <1>5 DEF TypeOK, Drop, assignment
<1>6. ASSUME NEW s \in Slots, NEW p \in Slots, Assign(s, p) PROVE TypeOK'
  BY <1>6 DEF TypeOK, Assign
<1>7. CASE Dec
  <2>1. header[this] \in Objects /\ this \in Slots
    BY <1>7 DEF Dec, Control
  <2>2. ref_count' \in [Objects -> 0..SizeMax]
    BY <1>7, <2>1, SizeAssumption DEF Dec, TypeOK, Decremented
  <2>3. header' \in [Slots -> Objects \cup {NoObject}]
    BY <1>7 DEF Dec, TypeOK
  <2>4. CASE Return(deleting) /\ UNCHANGED <<outer, deleting>>
    <3>1. deleting \in Objects \cup {NoObject}
      BY DEF TypeOK
    <3>2. /\ pc' \in {"idle", "dec", "delete", "members", "copy", "undefined"}
          /\ this' \in Slots \cup {NoSlot}
      BY <2>4, <3>1, ReturnType
    <3> QED BY <1>7, <2>2, <2>3, <2>4, <3>2 DEF Dec, TypeOK, assignment
  <2>5. CASE /\ pc' = "delete" /\ UNCHANGED this
             /\ outer' = [outer EXCEPT ![header[this]] = deleting]
             /\ deleting' = header[this]
    BY <1>7, <2>1, <2>2, <2>3, <2>5 DEF Dec, TypeOK, assignment
  <2> QED BY <1>7, <2>4, <2>5 DEF Dec
<1>8. CASE Delete
  BY <1>8 DEF TypeOK, Delete, assignment
<1>9. ASSUME NEW f \in Fields, DestroyMember(f) PROVE TypeOK'
  <2>1. <<deleting, f>> \in Slots
    BY <1>9 DEF DestroyMember, Control, Slots, Members
  <2> QED BY <1>9, <2>1 DEF TypeOK, DestroyMember, assignment
<1>10. CASE Free
  <2>1. outer[deleting] \in Objects \cup {NoObject}
    BY <1>10 DEF Free, Control, TypeOK
  <2>2. /\ pc' \in {"idle", "dec", "delete", "members", "copy", "undefined"}
        /\ this' \in Slots \cup {NoSlot}
    BY <1>10, <2>1, ReturnType DEF Free
  <2> QED BY <1>10, <2>1, <2>2 DEF TypeOK, Free, assignment
<1>11. CASE CopySource
  <2>1. target \in Slots
    BY <1>11 DEF CopySource, Control, TypeOK
  <2>2. Pointee \in Objects \cup {NoObject}
    BY <1>11, <2>1 DEF CopySource, Control, TypeOK, Pointee
  <2>3. /\ ref_count' \in [Objects -> 0..SizeMax]
        /\ header' \in [Slots -> Objects \cup {NoObject}]
    <3>1. CASE UNCHANGED <<ref_count, header>>
      BY <3>1 DEF TypeOK
    <3>2. CASE Pointee # NoObject /\ Refer(target, Pointee)
      BY <2>1, <2>2, <3>2, ReferType
    <3> QED BY <1>11, <3>1, <3>2 DEF CopySource
  <2> QED BY <1>11, <2>3 DEF TypeOK, CopySource
<1>12. CASE TouchFreed
  BY <1>12 DEF TypeOK, TouchFreed, assignment
<1>13. CASE Quiescent
  BY <1>1, <1>13 DEF Quiescent
<1> QED
  BY <1>1, <1>2, <1>3, <1>4, <1>5, <1>6, <1>7, <1>8, <1>9, <1>10, <1>11, <1>12, <1>13
     DEF Next, Start, Step

----------------------------------------------------------------------------
(* Control. *)

\* It holds at the start.
LEMMA ControlInit == ASSUME Init PROVE Control
BY SentinelAssumption DEF Init, Control

\* Every step keeps what the program counter says of the variables.
LEMMA ControlStep == ASSUME TypeOK, Control, [Next]_vars PROVE Control'
<1> USE SentinelAssumption DEF TypeOK, Control
<1>1. CASE UNCHANGED vars
  BY <1>1 DEF vars
<1>2. ASSUME NEW s \in Slots, NEW o \in Objects, New(s, o) PROVE Control'
  BY <1>2 DEF New, assignment
<1>3. ASSUME NEW s \in Slots, NEW p \in Slots, Copy(s, p) PROVE Control'
  BY <1>3 DEF Copy, assignment
<1>4. ASSUME NEW s \in Slots, NEW p \in Slots, GetRc(s, p) PROVE Control'
  BY <1>4 DEF GetRc, assignment
<1>5. ASSUME NEW s \in Slots, Drop(s) PROVE Control'
  BY <1>5 DEF Drop, assignment
<1>6. ASSUME NEW s \in Slots, NEW p \in Slots, Assign(s, p) PROVE Control'
  BY <1>6 DEF Assign
<1>7. CASE Dec
  BY <1>7 DEF Dec, Return, assignment
<1>8. CASE Delete
  BY <1>8 DEF Delete, assignment
<1>9. ASSUME NEW f \in Fields, DestroyMember(f) PROVE Control'
  <2>1. <<deleting, f>> \in Slots
    BY <1>9 DEF DestroyMember, Slots, Members
  <2> QED BY <1>9, <2>1 DEF DestroyMember, assignment
<1>10. CASE Free
  BY <1>10 DEF Free, Return, assignment
<1>11. CASE CopySource
  BY <1>11 DEF CopySource
<1>12. CASE TouchFreed
  BY <1>12 DEF TouchFreed, assignment
<1>13. CASE Quiescent
  BY <1>1, <1>13 DEF Quiescent
<1> QED
  BY <1>1, <1>2, <1>3, <1>4, <1>5, <1>6, <1>7, <1>8, <1>9, <1>10, <1>11, <1>12, <1>13
     DEF Next, Start, Step

----------------------------------------------------------------------------
(* References. *)

\* The references to an object are finitely many, and a size_t counts them.
LEMMA RefsBounded ==
    ASSUME NEW o
    PROVE  /\ IsFiniteSet(Refs(o)) /\ Cardinality(Refs(o)) \in Nat
           /\ Cardinality(Refs(o)) <= SizeMax
<1>1. Refs(o) \in SUBSET Slots
  BY DEF Refs
<1>2. IsFiniteSet(Refs(o)) /\ Cardinality(Refs(o)) <= Cardinality(Slots)
  BY <1>1, SlotsAssumption, FS_Subset
<1>3. Cardinality(Refs(o)) \in Nat /\ Cardinality(Slots) \in Nat
  BY <1>2, SlotsAssumption, FS_CardinalityType
<1> QED BY <1>2, <1>3, SizeAssumption

\* A reference more, to an object that is not referred to by s.
LEMMA RefAdded ==
    ASSUME TypeOK, NEW s \in Slots, NEW o \in Objects, header[s] = NoObject,
           header' = [header EXCEPT ![s] = o]
    PROVE  /\ Refs(o)' = Refs(o) \cup {s}
           /\ Cardinality(Refs(o)') = Cardinality(Refs(o)) + 1
           /\ Cardinality(Refs(o)) < SizeMax
           /\ \A p \in Objects \ {o} : Refs(p)' = Refs(p)
<1>1. Refs(o)' = Refs(o) \cup {s} /\ s \notin Refs(o)
  BY SentinelAssumption DEF TypeOK, Refs
<1>2. \A p \in Objects \ {o} : Refs(p)' = Refs(p)
  BY SentinelAssumption DEF TypeOK, Refs
<1>3. Cardinality(Refs(o) \cup {s}) = Cardinality(Refs(o)) + 1
  BY <1>1, RefsBounded, FS_AddElement
<1>4. Refs(o) \cup {s} \in SUBSET Slots
  BY DEF Refs
<1>5. Cardinality(Refs(o) \cup {s}) <= Cardinality(Slots)
  BY <1>4, SlotsAssumption, FS_Subset
<1>6. Cardinality(Slots) \in Nat
  BY SlotsAssumption, FS_CardinalityType
<1> QED BY <1>1, <1>2, <1>3, <1>5, <1>6, RefsBounded, SizeAssumption

\* A reference less.
LEMMA RefRemoved ==
    ASSUME TypeOK, NEW s \in Slots, NEW o \in Objects, header[s] = o,
           header' = [header EXCEPT ![s] = NoObject]
    PROVE  /\ Refs(o)' = Refs(o) \ {s}
           /\ Cardinality(Refs(o)') = Cardinality(Refs(o)) - 1
           /\ Cardinality(Refs(o)) > 0
           /\ IsFiniteSet(Refs(o)')
           /\ \A p \in Objects \ {o} : Refs(p)' = Refs(p)
<1>1. s \in Refs(o)
  BY DEF Refs
<1>2. Refs(o)' = Refs(o) \ {s}
  BY SentinelAssumption DEF TypeOK, Refs
<1>3. \A p \in Objects \ {o} : Refs(p)' = Refs(p)
  BY SentinelAssumption DEF TypeOK, Refs
<1>4. /\ IsFiniteSet(Refs(o) \ {s})
      /\ Cardinality(Refs(o) \ {s}) = Cardinality(Refs(o)) - 1
  BY <1>1, RefsBounded, FS_RemoveElement
<1>5. Cardinality(Refs(o) \ {s}) \in Nat /\ Cardinality(Refs(o)) \in Nat
  BY <1>4, RefsBounded, FS_CardinalityType
<1> QED BY <1>2, <1>3, <1>4, <1>5

----------------------------------------------------------------------------
(* Reachability. *)

Alive == {o \in Objects : state[o] = "live"}

\* What the program can name is alive.
LEMMA ReachedAlive ==
    ASSUME TypeOK, Points
    PROVE  Reached \subseteq Alive
<1>1. Alive \in SUBSET Objects
  BY DEF Alive
<1>2. Held(Roots) \subseteq Alive
  BY DEF Held, Alive, Points, TypeOK, Slots
<1>3. Closed(Alive)
  BY DEF Closed, Alive, Points, TypeOK, Slots
<1> QED BY <1>1, <1>2, <1>3 DEF Reached, ReachedFrom

\* So is what it can name without s, and this set is closed but for s.
LEMMA ApartAlive ==
    ASSUME TypeOK, Points, NEW s
    PROVE  /\ ReachedWithout(s) \subseteq Alive
           /\ Held(Roots \ {s}) \subseteq ReachedWithout(s)
           /\ \A m \in Members \ {s} : m[1] \in ReachedWithout(s) /\ header[m] # NoObject
                  => header[m] \in ReachedWithout(s)
<1>1. Alive \in SUBSET Objects
  BY DEF Alive
<1>2. Held(Roots \ {s}) \subseteq Alive
  BY DEF Held, Alive, Points, TypeOK, Slots
<1>3. \A m \in Members \ {s} : m[1] \in Alive /\ header[m] # NoObject => header[m] \in Alive
  BY DEF Alive, Points, TypeOK, Slots
<1>4. ReachedWithout(s) \subseteq Alive
  BY <1>1, <1>2, <1>3 DEF ReachedWithout
<1>5. Held(Roots \ {s}) \subseteq Objects
  BY DEF Held, TypeOK, Slots
<1>6. Held(Roots \ {s}) \subseteq ReachedWithout(s)
  BY <1>5 DEF ReachedWithout
<1>7. ASSUME NEW m \in Members \ {s}, m[1] \in ReachedWithout(s), header[m] # NoObject
      PROVE  header[m] \in ReachedWithout(s)
  <2>1. header[m] \in Objects
    BY <1>7 DEF TypeOK, Slots
  <2> QED BY <1>7, <2>1 DEF ReachedWithout
<1> QED BY <1>4, <1>6, <1>7

\* The object of a member that can be named is reached without that member.
LEMMA OwnerApart ==
    ASSUME TypeOK, Points, NEW s \in Slots, Accessible(s)
    PROVE  s \in Roots \/ (s \in Members /\ s[1] \in ReachedWithout(s))
<1> SUFFICES ASSUME s \notin Roots, s[1] \notin ReachedWithout(s) PROVE FALSE
  BY DEF Accessible, Slots
<1>1. s \in Members /\ s[1] \in Reached
  BY DEF Accessible
<1> DEFINE K == ReachedWithout(s)
<1>2. K \in SUBSET Objects
  BY DEF ReachedWithout
<1>3. Roots \ {s} = Roots
  OBVIOUS
<1>4. Held(Roots) \subseteq K
  BY <1>3, ApartAlive
<1>5. Closed(K)
  BY ApartAlive DEF Closed
<1> HIDE DEF K
<1>6. s[1] \in K
  BY <1>1, <1>2, <1>4, <1>5 DEF Reached, ReachedFrom
<1> QED BY <1>6 DEF K

\* The destructors of an assignment take nothing from what is reached without
\* its target: they empty the target and members of destroyed objects.
LEMMA ApartKept ==
    ASSUME TypeOK, Points, target \in Slots, target' = target,
           NEW d, d = target \/ (d \in Members /\ Gone(d[1])),
           header' = [header EXCEPT ![d] = NoObject]
    PROVE  ReachedWithout(target) \subseteq ReachedWithout(target)'
<1> DEFINE K == ReachedWithout(target)
           Kept(C) == C \cap K
<1>1. K \subseteq Alive /\ Held(Roots \ {target}) \subseteq K
      /\ \A m \in Members \ {target} : m[1] \in K /\ header[m] # NoObject => header[m] \in K
  BY ApartAlive
<1>2. \A m \in Members \ {target} : m[1] \in K => header'[m] = header[m]
  BY <1>1 DEF Alive, Gone, TypeOK, Slots
<1>3. \A r \in Roots \ {target} : header'[r] = header[r]
  BY SentinelAssumption DEF TypeOK, Slots
<1>4. Held(Roots \ {target})' = Held(Roots \ {target})
  BY <1>3 DEF Held
<1>5. ASSUME NEW C \in SUBSET Objects, Held(Roots \ {target})' \subseteq C,
             \A m \in Members \ {target} :
                 m[1] \in C /\ header'[m] # NoObject => header'[m] \in C
      PROVE  K \subseteq C
  <2>1. Held(Roots \ {target}) \subseteq Kept(C)
    BY <1>1, <1>4, <1>5
  <2>2. \A m \in Members \ {target} :
            m[1] \in Kept(C) /\ header[m] # NoObject => header[m] \in Kept(C)
    BY <1>1, <1>2, <1>5
  <2>3. Kept(C) \in SUBSET Objects
    OBVIOUS
  <2> HIDE DEF Kept
  <2>4. K \subseteq Kept(C)
    BY <2>1, <2>2, <2>3 DEF K, ReachedWithout
  <2> QED BY <2>4 DEF Kept
<1>6. K \subseteq Objects
  BY DEF ReachedWithout
<1> HIDE DEF K
<1>7. K \subseteq ReachedWithout(target)'
  BY <1>5, <1>6 DEF ReachedWithout
<1> QED BY <1>7 DEF K

----------------------------------------------------------------------------
(* Counting. *)

\* The counts hold at the start, where there is nothing to count.
LEMMA SharingInit == ASSUME Init PROVE Sharing
BY SentinelAssumption DEF Init, Sharing, Doomed, Counts, Points, Cascade, Owned

\* A new object has one reference.
LEMMA NewSharing ==
    ASSUME TypeOK, Sharing, NEW s \in Slots, NEW o \in Objects, New(s, o)
    PROVE  Sharing'
<1>1. state[o] = "unborn" /\ header[s] = NoObject /\ state' = [state EXCEPT ![o] = "live"]
      /\ header' = [header EXCEPT ![s] = o] /\ ref_count' = [ref_count EXCEPT ![o] = 1]
      /\ UNCHANGED <<pc, deleting, outer, this, target>> /\ pc = "idle"
  BY DEF New, assignment
<1>2. Refs(o) = {}
  BY <1>1, SentinelAssumption DEF Refs, Sharing, Points, TypeOK
<1>3. Refs(o)' = {s} /\ \A p \in Objects \ {o} : Refs(p)' = Refs(p)
  <2>1. Refs(o)' = Refs(o) \cup {s} /\ \A p \in Objects \ {o} : Refs(p)' = Refs(p)
    BY <1>1, RefAdded
  <2> QED BY <1>2, <2>1
<1>4. s \in Members => state[s[1]] = "live"
  BY ReachedAlive, SentinelAssumption DEF New, Accessible, Alive, Sharing
<1>5. Points'
  BY <1>1, <1>4 DEF Sharing, Points, TypeOK, Slots, Members
<1>6. Cardinality({s}) = 1
  BY FS_Singleton
<1>7. Counts' /\ Owned'
  BY <1>1, <1>3, <1>6 DEF Sharing, Counts, Owned, TypeOK
<1>8. Doomed' /\ Cascade'
  BY <1>1 DEF Sharing, Doomed, Cascade, Gone, TypeOK
<1> QED BY <1>5, <1>7, <1>8 DEF Sharing

\* A reference to a live object from a slot of a live one is counted.
LEMMA ReferSharing ==
    ASSUME TypeOK, Sharing, NEW s \in Slots, NEW o \in Objects, header[s] = NoObject,
           state[o] = "live", Exists(s), Refer(s, o),
           UNCHANGED <<state, deleting, outer>>, pc # "delete", pc' = "idle"
    PROVE  Sharing'
<1>1. /\ Refs(o)' = Refs(o) \cup {s}
      /\ Cardinality(Refs(o)') = Cardinality(Refs(o)) + 1
      /\ Cardinality(Refs(o)) < SizeMax
      /\ \A p \in Objects \ {o} : Refs(p)' = Refs(p)
  BY RefAdded DEF Refer
<1>2. ref_count[o] = Cardinality(Refs(o))
  BY DEF Sharing, Counts
<1>3. ref_count'[o] = Cardinality(Refs(o)')
  BY <1>1, <1>2 DEF Refer, Incremented, TypeOK
<1>4. Counts' /\ Owned'
  BY <1>1, <1>3 DEF Sharing, Counts, Owned, Refer, TypeOK
<1>5. Points'
  BY DEF Sharing, Points, Refer, TypeOK, Exists
<1>6. Doomed' /\ Cascade'
  BY DEF Sharing, Doomed, Cascade, Gone
<1> QED BY <1>4, <1>5, <1>6 DEF Sharing

\* A destructor takes its reference back; the last one condemns the object.
LEMMA DecSharing ==
    ASSUME TypeOK, Control, Sharing, Dec
    PROVE  Sharing'
<1> DEFINE o == header[this]
<1>1. PICK h \in Objects : h = o
  BY DEF Dec, Control
<1>2. this \in Slots /\ state[h] = "live" /\ pc = "dec" /\ header' = [header EXCEPT ![this] = NoObject]
      /\ ref_count' = [ref_count EXCEPT ![h] = Decremented(@)]
      /\ UNCHANGED <<state, target>>
  BY <1>1 DEF Dec, Control, assignment
<1>3. /\ Refs(h)' = Refs(h) \ {this}
      /\ Cardinality(Refs(h)') = Cardinality(Refs(h)) - 1
      /\ Cardinality(Refs(h)) > 0
      /\ IsFiniteSet(Refs(h)')
      /\ \A p \in Objects \ {h} : Refs(p)' = Refs(p)
  <2>1. header[this] = h
    BY <1>1
  <2> QED BY <1>2, <2>1, RefRemoved
<1>4. ref_count[h] = Cardinality(Refs(h)) /\ Cardinality(Refs(h)) \in Nat
  BY <1>2, RefsBounded DEF Sharing, Counts
<1>5. Decremented(ref_count[h]) = Cardinality(Refs(h)')
  BY <1>3, <1>4 DEF Decremented
<1>6. Counts'
  BY <1>2, <1>3, <1>5 DEF Sharing, Counts, TypeOK
<1>7. Points'
  BY <1>2 DEF Sharing, Points, TypeOK
<1>8. Last(Decremented(ref_count[h])) <=> Refs(h)' = {}
  BY <1>3, <1>5, FS_EmptySet DEF Last
<1>9. CASE Last(Decremented(ref_count[h]))
  <2>1. pc' = "delete" /\ deleting' = h /\ outer' = [outer EXCEPT ![h] = deleting]
    BY <1>1, <1>9 DEF Dec
  <2>2. deleting \in Objects => Gone(deleting)
    BY <1>2 DEF Sharing, Doomed
  <2>3. Doomed'
    BY <1>2, <1>8, <1>9, <2>1, <2>2 DEF Sharing, Doomed, Gone, TypeOK
  <2>4. Cascade' /\ Owned'
    BY <1>2, <1>3, <2>1 DEF Sharing, Cascade, Owned
  <2> QED BY <1>6, <1>7, <2>3, <2>4 DEF Sharing
<1>10. CASE ~Last(Decremented(ref_count[h]))
  <2>1. Return(deleting) /\ UNCHANGED <<outer, deleting>>
    BY <1>1, <1>10 DEF Dec
  <2>2. pc' \in {"members", "copy", "idle"}
    BY <2>1 DEF Return
  <2>3. Doomed' /\ Cascade' /\ Owned'
    BY <1>2, <1>3, <1>8, <1>10, <2>1, <2>2 DEF Sharing, Doomed, Gone, Cascade, Owned
  <2> QED BY <1>6, <1>7, <2>3 DEF Sharing
<1> QED BY <1>9, <1>10

\* Every step that does not use get_rc keeps the counts.
LEMMA SharingStep ==
    ASSUME TypeOK, Control, Sharing, [Next]_vars, tainted' = FALSE
    PROVE  Sharing'
<1>1. ASSUME UNCHANGED <<state, ref_count, header, deleting, outer>>,
             pc # "delete", pc' # "delete", Cascade'
      PROVE  Sharing'
  BY <1>1 DEF Sharing, Doomed, Counts, Points, Owned, Refs, Gone
<1>2. CASE UNCHANGED vars
  BY <1>2 DEF vars, Sharing, Doomed, Counts, Points, Owned, Refs, Gone, Cascade
<1>3. ASSUME NEW s \in Slots, NEW o \in Objects, New(s, o) PROVE Sharing'
  BY <1>3, NewSharing
<1>4. ASSUME NEW s \in Slots, NEW p \in Slots, Copy(s, p) PROVE Sharing'
  <2>1. header[p] \in Objects /\ state[header[p]] = "live"
    BY <1>4 DEF Copy, TypeOK, Sharing, Points
  <2>2. Refer(s, header[p]) /\ UNCHANGED <<pc, state, deleting, outer>> /\ pc = "idle"
        /\ header[s] = NoObject
    BY <1>4, <2>1 DEF Copy
  <2>3. Exists(s)
    BY <1>4, SentinelAssumption DEF Copy, Exists
  <2> QED BY <2>1, <2>2, <2>3, ReferSharing
<1>5. ASSUME NEW s \in Slots, NEW p \in Slots, GetRc(s, p) PROVE Sharing'
  BY <1>5 DEF GetRc
<1>6. ASSUME NEW s \in Slots, Drop(s) PROVE Sharing'
  <2>1. target' = NoSlot
    BY <1>6 DEF Drop, Control, assignment
  <2> QED BY <1>1, <1>6, <2>1 DEF Drop, Cascade
<1>7. ASSUME NEW s \in Slots, NEW p \in Slots, Assign(s, p) PROVE Sharing'
  BY <1>1, <1>7 DEF Assign, Cascade
<1>8. CASE Dec
  BY <1>8, DecSharing
<1>9. CASE Delete
  <2>1. /\ deleting \in Objects /\ Refs(deleting) = {} /\ state[deleting] = "live"
        /\ state' = [state EXCEPT ![deleting] = "dying"] /\ pc = "delete" /\ pc' = "members"
        /\ UNCHANGED <<ref_count, header, deleting, outer>>
    BY <1>9 DEF Delete, Control, Sharing, Doomed
  <2>2. \A o \in Objects : Refs(o)' = Refs(o)
    BY <2>1 DEF Refs
  <2>3. Counts' /\ Owned'
    BY <2>1, <2>2 DEF Sharing, Counts, Owned, TypeOK
  <2>4. Points'
    BY <2>1 DEF Sharing, Points, TypeOK, Refs, Slots, Members
  <2>5. Doomed' /\ Cascade'
    BY <2>1 DEF Sharing, Doomed, Cascade, Gone, TypeOK
  <2> QED BY <2>3, <2>4, <2>5 DEF Sharing
<1>10. ASSUME NEW f \in Fields, DestroyMember(f) PROVE Sharing'
  <2>1. <<deleting, f>> \in Members /\ Gone(deleting)
    BY <1>10 DEF DestroyMember, Control, Sharing, Doomed, Members
  <2>2. Cascade'
    BY <1>10, <2>1 DEF DestroyMember, Cascade, Gone
  <2> QED BY <1>1, <1>10, <2>2 DEF DestroyMember
<1>11. CASE Free
  <2>1. /\ deleting \in Objects /\ Gone(deleting) /\ pc = "members"
        /\ \A f \in Fields : header[<<deleting, f>>] = NoObject
        /\ state' = [state EXCEPT ![deleting] = "freed"] /\ deleting' = outer[deleting]
        /\ UNCHANGED <<ref_count, header, outer>>
    BY <1>11 DEF Free, Control, Sharing, Doomed
  <2>2. pc' \in {"members", "copy", "idle"}
    BY <1>11 DEF Free, Return
  <2>3. \A o \in Objects : Refs(o)' = Refs(o)
    BY <2>1 DEF Refs
  <2>4. Counts' /\ Owned'
    BY <2>1, <2>2, <2>3 DEF Sharing, Counts, Owned, TypeOK
  <2>5. Points'
    <3>1. \A s \in Members : s[1] = deleting => header[s] = NoObject
      BY <2>1 DEF Members
    <3> QED BY <2>1, <3>1 DEF Sharing, Points, TypeOK, Gone, Members
  <2>6. Doomed' /\ Cascade'
    BY <2>1, <2>2 DEF Sharing, Doomed, Cascade, Gone, TypeOK
  <2> QED BY <2>4, <2>5, <2>6 DEF Sharing
<1>12. CASE CopySource
  <2>1. target \in Slots /\ header[target] = NoObject /\ pc = "copy" /\ pc' = "idle"
    BY <1>12 DEF CopySource, Control, TypeOK
  <2>2. CASE UNCHANGED <<ref_count, header>>
    BY <1>1, <1>12, <2>1, <2>2 DEF CopySource, Cascade
  <2>3. CASE Pointee # NoObject /\ state[Pointee] = "live" /\ Refer(target, Pointee)
    <3>1. Pointee \in Objects
      BY <1>12, <2>3 DEF CopySource, Control, TypeOK, Pointee
    <3> QED BY <1>12, <2>1, <2>3, <3>1, ReferSharing DEF CopySource
  <2> QED BY <1>12, <2>2, <2>3 DEF CopySource
<1>13. CASE TouchFreed
  BY <1>1, <1>13 DEF TouchFreed, Cascade
<1>14. CASE Quiescent
  BY <1>2, <1>14 DEF Quiescent
<1> QED
  BY <1>2, <1>3, <1>4, <1>5, <1>6, <1>7, <1>8, <1>9, <1>10, <1>11, <1>12, <1>13, <1>14
     DEF Next, Start, Step

----------------------------------------------------------------------------
(* Assignments. *)

\* Where neither the target nor any reference changes, nothing changes for them.
LEMMA ApartSame ==
    ASSUME UNCHANGED <<header, target>>, NEW s
    PROVE  Apart(s)' <=> Apart(s)
BY DEF Apart, ReachedWithout, Held

\* Every step keeps the source and the target of a safe assignment apart.
LEMMA SurvivesStep ==
    ASSUME TypeOK, Control, Sharing, Survives, [Next]_vars, tainted' = FALSE
    PROVE  Survives'
<1>1. CASE target' = NoSlot
  BY <1>1 DEF Survives
<1>2. CASE UNCHANGED <<header, target, src, safe>>
  <2>1. \A s : Apart(s)' <=> Apart(s)
    BY <1>2, ApartSame
  <2> QED BY <1>2, <2>1 DEF Survives
<1>3. ASSUME NEW s \in Slots, NEW o \in Objects, New(s, o) PROVE Survives'
  BY <1>1, <1>3 DEF New, Control, assignment
<1>4. ASSUME NEW s \in Slots, NEW p \in Slots, Copy(s, p) PROVE Survives'
  BY <1>1, <1>4 DEF Copy, Control, assignment
<1>5. ASSUME NEW s \in Slots, NEW p \in Slots, GetRc(s, p) PROVE Survives'
  BY <1>5 DEF GetRc
<1>6. ASSUME NEW s \in Slots, Drop(s) PROVE Survives'
  BY <1>2, <1>6 DEF Drop, assignment
<1>7. ASSUME NEW s \in Slots, NEW p \in Slots, Assign(s, p) PROVE Survives'
  <2>1. /\ Accessible(s) /\ target' = s /\ src' = p /\ UNCHANGED header
        /\ safe' = (p # s /\ (p \in Roots \/ p[1] \in ReachedWithout(s)))
    BY <1>7 DEF Assign
  <2>2. s \in Roots \/ (s \in Members /\ s[1] \in ReachedWithout(s))
    BY <2>1, OwnerApart DEF Sharing
  <2>3. ReachedWithout(target)' = ReachedWithout(s)
    BY <2>1 DEF ReachedWithout, Held
  <2>4. Apart(s)'
    BY <2>2, <2>3 DEF Apart
  <2>5. safe' => p # s /\ Apart(p)'
    BY <2>1, <2>3 DEF Apart, Slots
  <2> QED BY <2>1, <2>4, <2>5 DEF Survives
<1>8. CASE Dec
  <2>1. header' = [header EXCEPT ![this] = NoObject] /\ UNCHANGED <<target, src, safe>>
    BY <1>8 DEF Dec, assignment
  <2>2. CASE target \in Slots
    <3>1. this = target \/ (this \in Members /\ Gone(this[1]))
      BY <1>8, <2>2, SentinelAssumption DEF Dec, Sharing, Cascade
    <3>2. ReachedWithout(target) \subseteq ReachedWithout(target)'
      BY <2>1, <2>2, <3>1, ApartKept DEF Sharing
    <3>3. \A s : Apart(s) => Apart(s)'
      BY <3>2 DEF Apart
    <3> QED BY <2>1, <3>3 DEF Survives
  <2>3. CASE target = NoSlot
    BY <1>1, <2>1, <2>3
  <2> QED BY <2>2, <2>3 DEF TypeOK
<1>9. CASE Delete
  BY <1>2, <1>9 DEF Delete, assignment
<1>10. ASSUME NEW f \in Fields, DestroyMember(f) PROVE Survives'
  BY <1>2, <1>10 DEF DestroyMember, assignment
<1>11. CASE Free
  BY <1>2, <1>11 DEF Free, assignment
<1>12. CASE CopySource
  BY <1>1, <1>12 DEF CopySource
<1>13. CASE TouchFreed
  BY <1>2, <1>13 DEF TouchFreed, assignment
<1>14. CASE UNCHANGED vars
  BY <1>2, <1>14 DEF vars
<1> QED
  BY <1>3, <1>4, <1>5, <1>6, <1>7, <1>8, <1>9, <1>10, <1>11, <1>12, <1>13, <1>14
     DEF Next, Start, Step, Quiescent

\* No step of a program without get_rc meets a freed object or an overwritten
\* pointer, but when a source is, or went down with, its target.
LEMMA NothingTouched ==
    ASSUME TypeOK, Control, Sharing, Survives, safe, TouchFreed
    PROVE  FALSE
<1>1. CASE pc = "dec" /\ state[header[this]] # "live"
  BY <1>1, SentinelAssumption DEF Control, Sharing, Points
<1>2. CASE pc = "copy"
  <2>1. target # NoSlot /\ src \in Slots /\ target \in Slots
    BY <1>2 DEF Control, TypeOK
  <2>2. src # target /\ Apart(src) /\ Apart(target)
    BY <2>1 DEF Survives
  <2>3. ReachedWithout(target) \subseteq Alive
    BY ApartAlive DEF Sharing
  <2>4. Exists(src) /\ Exists(target)
    BY <2>2, <2>3, SentinelAssumption DEF Exists, Apart, Alive
  <2>5. Pointee # NoObject => state[Pointee] = "live"
    BY <2>1, <2>2 DEF Pointee, Sharing, Points
  <2> QED BY <1>2, <2>2, <2>4, <2>5 DEF TouchFreed, Overwritten
<1> QED BY <1>1, <1>2 DEF TouchFreed

\* So the source of an assignment survives every step.
LEMMA SourceStep == ASSUME IInv, [Next]_vars PROVE SourceSurvives'
<1> SUFFICES ASSUME pc' = "undefined", ~tainted', pc # "undefined" PROVE ~safe'
  BY DEF IInv, SourceSurvives, vars, Next, Start, Step, Quiescent, New, Copy, GetRc, Drop,
         Assign, Dec, Delete, DestroyMember, Free, CopySource, TouchFreed, assignment
<1>1. tainted = FALSE
  BY DEF IInv, TypeOK, vars, Next, Start, Step, Quiescent, New, Copy, GetRc, Drop,
         Assign, Dec, Delete, DestroyMember, Free, CopySource, TouchFreed, assignment
<1>2. Sharing /\ Survives /\ TypeOK /\ Control
  BY <1>1 DEF IInv
<1>3. ASSUME NEW s \in Slots, NEW p \in Slots, Copy(s, p) PROVE FALSE
  BY <1>2, <1>3 DEF Copy, Sharing, Points
<1>4. CASE TouchFreed
  BY <1>2, <1>4, NothingTouched DEF TouchFreed, assignment, TypeOK
<1> QED
  BY <1>3, <1>4 DEF vars, Next, Start, Step, Quiescent, New, GetRc, Drop,
         Assign, Dec, Return, Delete, DestroyMember, Free, CopySource, assignment

----------------------------------------------------------------------------
(* Theorems. *)

\* The invariant holds of every behaviour.
THEOREM Invariance == Spec => []IInv
<1>1. Init => IInv
  <2> SUFFICES ASSUME Init PROVE IInv
    OBVIOUS
  <2>1. SourceSurvives /\ Survives
    BY SentinelAssumption DEF Init, SourceSurvives, Survives
  <2> QED BY <2>1, TypeInit, ControlInit, SharingInit DEF IInv
<1>2. IInv /\ [Next]_vars => IInv'
  <2> SUFFICES ASSUME IInv, [Next]_vars PROVE IInv'
    OBVIOUS
  <2>1. TypeOK' /\ Control'
    BY TypeStep, ControlStep DEF IInv
  <2>2. ASSUME ~tainted' PROVE (Sharing /\ Survives)'
    <3>1. tainted = FALSE /\ tainted' = FALSE
      BY <2>1, <2>2 DEF IInv, TypeOK, vars, Next, Start, Step, Quiescent, New, Copy, GetRc,
         Drop, Assign, Dec, Delete, DestroyMember, Free, CopySource, TouchFreed, assignment
    <3> QED BY <3>1, SharingStep, SurvivesStep DEF IInv
  <2> QED BY <2>1, <2>2, SourceStep DEF IInv
<1> QED BY <1>1, <1>2, PTL DEF Spec

\* Every variable of Rc keeps its type, the count a size_t (rc.hpp 43).
THEOREM TypeCorrect == Spec => []TypeOK
<1>1. IInv => TypeOK
  BY DEF IInv
<1> QED BY <1>1, Invariance, PTL

\* The count of a live object is the number of its Rcs at every step of a
\* cascade of destructors, until get_rc is used (rc.hpp 144-154).
THEOREM CountsAreExact == Spec => []CountExact
<1>1. IInv => CountExact
  BY DEF IInv, Sharing, Counts, CountExact
<1> QED BY <1>1, Invariance, PTL

\* No Rc refers to an object whose destructor was entered, and no freed object
\* leaves an Rc in its members, until get_rc is used (rc.hpp 151-154).
THEOREM NothingDangles == Spec => []NoDangling
<1>1. IInv => NoDangling
  BY DEF IInv, Sharing, Points, NoDangling
<1> QED BY <1>1, Invariance, PTL

\* An assignment whose source does not depend on the target finds both alive
\* after the destruction, whatever that took down (rc.hpp 164-169).
THEOREM SourcesSurvive == Spec => []SourceSurvives
<1>1. IInv => SourceSurvives
  BY DEF IInv
<1> QED BY <1>1, Invariance, PTL

----------------------------------------------------------------------------
(* Leaks. *)

Dying == {o \in Objects : state[o] = "dying"}
\* Every destructor that was entered is the one that runs, or waits for it.
Nested ==
    /\ pc \in {"idle", "copy"} => deleting = NoObject
    /\ deleting \in Objects \cup {NoObject}
    /\ \A C \in SUBSET Objects :
          /\ deleting # NoObject => deleting \in C
          /\ \A o \in C : outer[o] # NoObject => outer[o] \in C
          => Dying \subseteq C

\* No destructor runs at the start.
LEMMA NestedInit == ASSUME Init PROVE Nested
BY DEF Init, Nested, Dying

\* An object is entered where it is deleted and left for the one that deleted it.
LEMMA NestedStep == ASSUME IInv, ~tainted, Nested, [Next]_vars PROVE Nested'
<1>1. TypeOK /\ Control /\ Sharing
  BY DEF IInv
<1>2. CASE UNCHANGED <<deleting, outer, state, pc>>
  BY <1>2 DEF Nested, Dying
<1>3. ASSUME UNCHANGED <<deleting, outer>>, Dying' = Dying,
             pc' \in {"idle", "copy"} => deleting = NoObject
      PROVE  Nested'
  BY <1>3 DEF Nested
<1>4. CASE \E s \in Slots, o \in Objects : New(s, o)
  <2>1. Dying' = Dying
    BY <1>1, <1>4 DEF New, Dying, TypeOK
  <2> QED BY <1>3, <1>4, <2>1 DEF New, Nested
<1>5. CASE \E s, p \in Slots : Copy(s, p) \/ GetRc(s, p) \/ Assign(s, p)
  BY <1>2, <1>3, <1>5 DEF Copy, GetRc, Assign, Nested, Dying
<1>6. CASE \/ \E s \in Slots : Drop(s)
           \/ \E f \in Fields : DestroyMember(f)
           \/ CopySource \/ TouchFreed
  BY <1>3, <1>6 DEF Drop, DestroyMember, CopySource, TouchFreed, Nested, Dying
<1>7. CASE Dec
  <2>1. PICK h \in Objects : h = header[this] /\ state[h] = "live"
    BY <1>1, <1>7 DEF Dec, Control
  <2>2. CASE UNCHANGED <<deleting, outer>> /\ Return(deleting)
    BY <1>3, <1>7, <2>2 DEF Dec, Return, Dying, Nested
  <2>3. CASE pc' = "delete" /\ outer' = [outer EXCEPT ![h] = deleting] /\ deleting' = h
    <3>1. deleting # NoObject => Gone(deleting) /\ deleting # h
      BY <1>1, <1>7, <2>1 DEF Dec, Sharing, Doomed, Gone, TypeOK
    <3>2. \A o \in Objects : outer[o] # h
      BY <1>1, <2>1 DEF Sharing, Doomed, Gone
    <3>3. Dying' = Dying
      BY <1>7 DEF Dec, Dying
    <3>4. ASSUME NEW C \in SUBSET Objects, h \in C,
                 \A o \in C : outer'[o] # NoObject => outer'[o] \in C
          PROVE  Dying \subseteq C
      <4> DEFINE B == C \ {h}
      <4>1. outer'[h] = deleting /\ \A o \in B : outer'[o] = outer[o]
        BY <1>1, <2>3 DEF TypeOK
      <4>2. deleting # NoObject => deleting \in B
        BY <3>1, <3>4, <4>1
      <4>3. \A o \in B : outer[o] # NoObject => outer[o] \in B
        BY <3>2, <3>4, <4>1
      <4>4. B \in SUBSET Objects
        OBVIOUS
      <4> HIDE DEF B
      <4>5. Dying \subseteq B
        BY <4>2, <4>3, <4>4 DEF Nested
      <4> QED BY <4>5 DEF B
    <3> QED BY <2>1, <2>3, <3>3, <3>4, SentinelAssumption DEF Nested
  <2> QED BY <1>7, <2>1, <2>2, <2>3 DEF Dec
<1>8. CASE Delete
  <2>1. deleting \in Objects /\ deleting # NoObject
    BY <1>1, <1>8, SentinelAssumption DEF Delete, Control
  <2>2. Dying' = Dying \cup {deleting}
    BY <1>1, <1>8, <2>1 DEF Delete, Dying, TypeOK
  <2> QED BY <1>8, <2>1, <2>2 DEF Delete, Nested
<1>9. CASE Free
  <2>1. deleting \in Objects
    BY <1>1, <1>9 DEF Free, Control
  <2>2. PICK d \in Objects : d = deleting
    BY <2>1
  <2>3. Dying' = Dying \ {d} /\ deleting' = outer[d] /\ outer' = outer
        /\ outer[d] \in Objects \cup {NoObject} /\ Return(outer[d])
    BY <1>1, <1>9, <2>2 DEF Free, Dying, TypeOK
  <2>4. ASSUME NEW C \in SUBSET Objects, outer[d] # NoObject => outer[d] \in C,
               \A o \in C : outer[o] # NoObject => outer[o] \in C
        PROVE  Dying \ {d} \subseteq C
    <3>1. Dying \subseteq C \cup {d}
      BY <2>2, <2>4 DEF Nested
    <3> QED BY <3>1
  <2> QED BY <2>3, <2>4 DEF Nested, Return
<1>10. CASE Quiescent \/ UNCHANGED vars
  BY <1>2, <1>10 DEF Quiescent, vars
<1> QED BY <1>4, <1>5, <1>6, <1>7, <1>8, <1>9, <1>10 DEF Next, Start, Step

\* What is reached is a closed set.
LEMMA ReachedClosed ==
    ASSUME TypeOK, NEW S \in SUBSET Objects
    PROVE  S \subseteq ReachedFrom(S) /\ Closed(ReachedFrom(S)) /\ ReachedFrom(S) \in SUBSET Objects
<1>1. S \subseteq ReachedFrom(S) /\ ReachedFrom(S) \in SUBSET Objects
  BY DEF ReachedFrom
<1>2. ASSUME NEW m \in Members, m[1] \in ReachedFrom(S), header[m] # NoObject
      PROVE  header[m] \in ReachedFrom(S)
  <2>1. header[m] \in Objects
    BY <1>2 DEF TypeOK, Slots
  <2>2. ASSUME NEW C \in SUBSET Objects, S \subseteq C, Closed(C) PROVE header[m] \in C
    BY <1>2, <2>2 DEF ReachedFrom, Closed
  <2> QED BY <2>1, <2>2 DEF ReachedFrom
<1> QED BY <1>1, <1>2 DEF Closed

\* It is the least one.
LEMMA ReachedLeast ==
    ASSUME NEW S, NEW C \in SUBSET Objects, S \subseteq C, Closed(C)
    PROVE  ReachedFrom(S) \subseteq C
BY DEF ReachedFrom

\* What the members of p hold.
Below(p) == ReachedFrom(Held({p} \X Fields))

\* Between operations a live object that is not reached is held by another one.
LEMMA LeakHeld ==
    ASSUME IInv, ~tainted, Nested, pc = "idle", NEW o \in Objects \ Reached, state[o] = "live"
    PROVE  \E m \in Members : header[m] = o /\ m[1] \in Objects \ Reached /\ state[m[1]] = "live"
<1>1. TypeOK /\ Sharing
  BY DEF IInv
<1>2. PICK m \in Slots : header[m] = o
  BY <1>1 DEF Sharing, Owned, Refs
<1>3. Held(Roots) \in SUBSET Objects
  BY <1>1 DEF Held, TypeOK, Slots
<1>4. Held(Roots) \subseteq Reached /\ Closed(Reached)
  BY <1>1, <1>3, ReachedClosed DEF Reached
<1>5. o # NoObject
  BY SentinelAssumption
<1>6. m \notin Roots
  BY <1>2, <1>4, <1>5 DEF Held
<1>7. m \in Members /\ m[1] \in Objects
  BY <1>6 DEF Slots, Members
<1>8. m[1] \notin Reached
  BY <1>2, <1>4, <1>5, <1>7 DEF Closed
<1>9. Dying = {}
  <2>1. deleting = NoObject
    BY DEF Nested
  <2>2. PICK C \in SUBSET Objects : C = {}
    OBVIOUS
  <2>3. \A p \in C : outer[p] # NoObject => outer[p] \in C
    BY <2>2
  <2>4. Dying \subseteq C
    BY <2>1, <2>3 DEF Nested
  <2> QED BY <2>2, <2>4
<1>10. state[m[1]] = "live"
  BY <1>1, <1>2, <1>5, <1>7, <1>9 DEF Sharing, Points, Dying
<1> QED BY <1>2, <1>7, <1>8, <1>10

\* An object that the program cannot get to any more is kept by a cycle: of the
\* objects that lead to it, one with the fewest that lead to itself (rc.hpp 144-154).
THEOREM CyclesLeak == Spec => []LeakOnlyByCycles
<1>1. Init => (~tainted => Nested)
  BY NestedInit
<1>2. IInv /\ (~tainted => Nested) /\ [Next]_vars => (~tainted => Nested)'
  <2>1. [Next]_vars /\ tainted => tainted'
    BY DEF vars, Next, Start, Step, Quiescent, New, Copy, GetRc, Drop, Assign, Dec, Delete,
         DestroyMember, Free, CopySource, TouchFreed, assignment
  <2> QED BY <2>1, NestedStep
<1>3. IInv /\ (~tainted => Nested) => LeakOnlyByCycles
  <2> SUFFICES ASSUME IInv, Nested, pc = "idle", ~tainted,
                      NEW o \in Objects, state[o] = "live", o \notin Reached
               PROVE  \E p \in Objects \ Reached : o \in ReachedFrom({p}) /\ p \in Below(p)
    BY DEF LeakOnlyByCycles, Below
  <2>1. TypeOK
    BY DEF IInv
  <2> DEFINE L == {p \in Objects \ Reached : state[p] = "live" /\ o \in ReachedFrom({p})}
             Holders(p) == {m \in Members : m[1] \in L /\ p \in Below(m[1])}
             F == {Holders(p) : p \in L}
  <2>2. ASSUME NEW p \in Objects
        PROVE  /\ Below(p) \in SUBSET Objects /\ Closed(Below(p))
               /\ \A m \in Members : m[1] = p /\ header[m] # NoObject => header[m] \in Below(p)
               /\ ReachedFrom({p}) \in SUBSET Objects /\ Closed(ReachedFrom({p}))
               /\ p \in ReachedFrom({p})
    <3>1. Held({p} \X Fields) \in SUBSET Objects /\ {p} \in SUBSET Objects
      BY <2>1 DEF Held, TypeOK, Slots, Members
    <3>2. \A m \in Members : m[1] = p => m \in {p} \X Fields
      BY DEF Members
    <3> QED BY <2>1, <3>1, <3>2, ReachedClosed DEF Below, Held
  <2>3. o \in L
    BY <2>2
  <2>4. ASSUME NEW p \in L
        PROVE  \E q \in L : /\ \E m \in Members : m[1] = q /\ header[m] = p
                            /\ Below(p) \subseteq Below(q) /\ p \in Below(q)
    <3>1. PICK m \in Members : header[m] = p /\ m[1] \in Objects \ Reached /\ state[m[1]] = "live"
      BY LeakHeld
    <3>2. PICK q \in Objects : q = m[1]
      BY <3>1
    <3>3. p # NoObject /\ p \in Below(q) /\ p \in ReachedFrom({q})
      BY <2>2, <3>1, <3>2, SentinelAssumption DEF Closed
    <3>4. ReachedFrom({p}) \subseteq ReachedFrom({q})
      BY <2>2, <3>3, ReachedLeast
    <3>5. Held({p} \X Fields) \subseteq Below(q)
      BY <2>2, <3>3 DEF Closed, Held, Members
    <3>6. Below(p) \subseteq Below(q)
      BY <2>2, <3>5, ReachedLeast DEF Below
    <3> QED BY <3>1, <3>2, <3>3, <3>4, <3>6
  <2>5. F \subseteq FiniteSubsetsOf(Members) /\ F # {}
    <3>1. IsFiniteSet(Members)
      BY SlotsAssumption, FS_Subset DEF Slots
    <3>2. \A p \in L : Holders(p) \in SUBSET Members /\ IsFiniteSet(Holders(p))
      BY <3>1, FS_Subset
    <3> HIDE DEF Holders, L
    <3> QED BY <2>3, <3>2 DEF FiniteSubsetsOf
  <2>6. PICK x \in F : \A y \in F : ~ (<<y, x>> \in StrictSubsetOrdering(Members))
    <3> HIDE DEF F
    <3> QED BY <2>5, FS_StrictSubsetOrderingWellFounded, WFMin
  <2>7. PICK p \in L : x = Holders(p)
    BY <2>6
  <2>8. PICK q \in L : /\ \E m \in Members : m[1] = q /\ header[m] = p
                       /\ Below(p) \subseteq Below(q) /\ p \in Below(q)
    BY <2>4
  <2>9. PICK w \in Members : w[1] = q /\ header[w] = p
    BY <2>8
  <2>10. w \in Holders(p)
    BY <2>8, <2>9
  <2>11. Holders(q) \subseteq Holders(p)
    <3>1. ASSUME NEW m \in Members, m[1] \in L, q \in Below(m[1]) PROVE p \in Below(m[1])
      <4>1. Closed(Below(m[1])) /\ p # NoObject
        BY <2>2, <3>1, SentinelAssumption
      <4> QED BY <2>9, <3>1, <4>1 DEF Closed
    <3> QED BY <3>1
  <2>12. w \in Holders(q)
    <3> SUFFICES ASSUME w \notin Holders(q) PROVE FALSE
      OBVIOUS
    <3>1. Holders(q) \in F
      OBVIOUS
    <3>2. Holders(q) \subseteq Members /\ Holders(p) \subseteq Members
      OBVIOUS
    <3> HIDE DEF Holders, F
    <3>3. <<Holders(q), x>> \in StrictSubsetOrdering(Members)
      BY <2>7, <2>10, <2>11, <3>2 DEF StrictSubsetOrdering
    <3> QED BY <2>6, <3>1, <3>3
  <2>13. q \in Below(q)
    BY <2>9, <2>12
  <2> QED BY <2>13
<1> QED BY <1>1, <1>2, <1>3, Invariance, PTL DEF Spec

----------------------------------------------------------------------------
(* Refinement. *)

\* Every step of Rc is a step of shared ownership, or invisible there.
LEMMA OwnershipStep ==
    ASSUME IInv, ~tainted, ~GetsRc, [Next]_vars
    PROVE  [Ownership!Next]_(Ownership!vars)
<1> USE DEF Ownership!vars
<1>a. TypeOK /\ Control /\ Sharing
  BY DEF IInv
<1>b. \A o : Ownership!Owners(o) = Refs(o)
  BY DEF Ownership!Owners, Refs
<1>1. CASE UNCHANGED <<header, state>>
  BY <1>1
<1>2. ASSUME NEW s \in Slots, NEW o \in Objects, New(s, o)
      PROVE  [Ownership!Next]_(Ownership!vars)
  <2>1. Ownership!Create(s, o)
    BY <1>a, <1>2 DEF New, Ownership!Create, TypeOK
  <2> QED BY <2>1 DEF Ownership!Next
\* Referring to a live object that has a reference is sharing.
<1>3. ASSUME NEW s \in Slots, NEW o \in Objects, header[s] = NoObject, state[o] = "live",
             pc # "delete", Refer(s, o), UNCHANGED state
      PROVE  [Ownership!Next]_(Ownership!vars)
  <2>1. Refs(o) # {}
    BY <1>a, <1>3 DEF Sharing, Owned
  <2>2. Ownership!Share(s, o)
    BY <1>b, <1>3, <2>1 DEF Refer, Ownership!Share
  <2> QED BY <2>2 DEF Ownership!Next
<1>4. ASSUME NEW s \in Slots, NEW p \in Slots, Copy(s, p)
      PROVE  [Ownership!Next]_(Ownership!vars)
  <2>1. CASE UNCHANGED header
    BY <1>1, <1>4, <2>1 DEF Copy
  <2>2. CASE state[header[p]] = "live" /\ Refer(s, header[p])
    <3>1. header[p] \in Objects
      BY <1>a, <1>4 DEF Copy, TypeOK
    <3> QED BY <1>3, <1>4, <2>2, <3>1 DEF Copy
  <2> QED BY <1>4, <2>1, <2>2 DEF Copy
<1>5. CASE Dec
  <2>1. this \in Slots /\ Ownership!Release(this)
    BY <1>a, <1>5, SentinelAssumption DEF Dec, Control, Ownership!Release
  <2> QED BY <2>1 DEF Ownership!Next
<1>6. CASE Delete
  <2>1. deleting \in Objects /\ state[deleting] = "live" /\ Refs(deleting) = {}
    BY <1>a, <1>6 DEF Delete, Control, Sharing, Doomed
  <2>2. PICK o \in Objects : o = deleting
    BY <2>1
  <2>3. Ownership!Destroy(o)
    BY <1>a, <1>b, <1>6, <2>1, <2>2 DEF Delete, Ownership!Destroy, TypeOK
  <2> QED BY <2>3 DEF Ownership!Next
\* An object whose destructor runs is gone already.
<1>7. CASE Free
  <2>1. deleting \in Objects /\ Gone(deleting)
    BY <1>a, <1>7 DEF Free, Control, Sharing, Doomed
  <2> QED BY <1>a, <1>7, <2>1 DEF Free, Gone, TypeOK
<1>8. CASE CopySource
  <2>1. target \in Slots /\ header[target] = NoObject /\ pc = "copy"
    BY <1>a, <1>8 DEF CopySource, Control, TypeOK
  <2>2. CASE UNCHANGED header
    BY <1>1, <1>8, <2>2 DEF CopySource
  <2>3. CASE Pointee # NoObject /\ state[Pointee] = "live" /\ Refer(target, Pointee)
    <3>1. Pointee \in Objects
      BY <1>a, <1>8, <2>3 DEF CopySource, Control, TypeOK, Pointee
    <3> QED BY <1>3, <1>8, <2>1, <2>3, <3>1 DEF CopySource
  <2> QED BY <1>8, <2>2, <2>3 DEF CopySource
<1> QED
  BY <1>1, <1>2, <1>4, <1>5, <1>6, <1>7, <1>8
     DEF Next, Start, Step, Quiescent, vars, GetRc, Drop, Assign, DestroyMember, TouchFreed

\* A program that does not call get_rc uses Rc as shared ownership: objects are
\* destroyed once, after their last owner let them go (rc.hpp 131-178).
THEOREM Refinement == ASSUME ~GetsRc PROVE Spec => ImplementsOwnership
<1>1. Init => ~tainted /\ Ownership!Init
  <2> SUFFICES ASSUME Init PROVE ~tainted /\ Ownership!Init
    OBVIOUS
  <2>1. \A o \in Objects : state[o] = "unborn"
    BY DEF Init
  <2>2. Ownership!Init
    BY <2>1 DEF Init, Ownership!Init
  <2> QED BY <2>2 DEF Init
<1>2. ~tainted /\ [Next]_vars => ~tainted'
  BY DEF vars, Next, Start, Step, Quiescent, New, Copy, GetRc, Drop, Assign, Dec, Delete,
         DestroyMember, Free, CopySource, TouchFreed, assignment
<1>3. IInv /\ ~tainted /\ [Next]_vars => [Ownership!Next]_(Ownership!vars)
  BY OwnershipStep
<1> QED BY <1>1, <1>2, <1>3, Invariance, PTL DEF Spec, ImplementsOwnership, Ownership!Safety
============================================================================
