-------------------------------- MODULE Arc --------------------------------
(***************************************************************************)
(* Arc<T>, ReadGuard<T> and WriteGuard<T> of src/templates/rc.hpp: an      *)
(* intrusive count next to the object, in a heap block (the header) with   *)
(* its own mutex and reader-writer lock.  The count is changed inside the  *)
(* mutex by a load and a store, so each change is two steps here.          *)
(*                                                                         *)
(* A variable (local, member, temporary) that can hold an Arc or a guard   *)
(* is a member of Vars.  Several threads construct, copy, assign and       *)
(* destroy their variables; a variable is never destroyed or assigned      *)
(* while another thread uses it, which is what C++ asks of any object.     *)
(*                                                                         *)
(* Three things the code does break the count; they are modelled, and      *)
(* what they have touched is remembered so that the properties can say     *)
(* what the code keeps apart from them:                                    *)
(*   - get_arc builds an Arc without counting it          (tainted),       *)
(*   - a = a destroys the variable and copies from it     (tainted),       *)
(*   - every destructor that frees the header unlocks the mutex of the     *)
(*     freed header once more, which is undefined: nothing happens, or     *)
(*     the mutex of a header that now lives at that address is released    *)
(*     under the thread that holds it                     (stray_hit).     *)
(***************************************************************************)
EXTENDS Integers, FiniteSets

CONSTANTS
    Threads,
    Vars,           \* Arc and guard variables
    Headers,        \* ArcHeader allocations, each made at most once
    Addrs,          \* heap addresses: a freed one can be allocated again
    NoThread, NoVar, NoHeader,
    SizeMax,        \* greatest size_t
    SelfAssign,     \* TRUE when the program may execute a = a
    GetsArc,        \* TRUE when the program may call get_arc
    StrayOutcomes,  \* outcomes of unlocking a mutex another thread holds
    WriteUnlocks    \* outcomes of write_unlock() on a lock held shared

ASSUME SentinelAssumption ==
    NoThread \notin Threads /\ NoVar \notin Vars /\ NoHeader \notin Headers
ASSUME VarsAssumption == IsFiniteSet(Vars)
\* An Arc takes more than one byte, so a size_t counts all there is room for.
ASSUME SizeAssumption == SizeMax \in Nat \ {0} /\ Cardinality(Vars) <= SizeMax
ASSUME OutcomeAssumption ==
    /\ SelfAssign \in BOOLEAN /\ GetsArc \in BOOLEAN
    /\ StrayOutcomes \in (SUBSET {"ignored", "released"}) \ {{}}
    /\ WriteUnlocks \in (SUBSET {"one", "all"}) \ {{}}

VARIABLES
    state,      \* state[h]: "unborn", "live" or "freed"
    addr,       \* addr[h]: where h is, or was
    ref_count, mtx, rwlock,     \* the fields of a header
    header,     \* header[v]: the header field of variable v, NoHeader: no object
    kind,       \* kind[v]: the class of v
    pc,         \* what a thread executes next
    self,       \* self[t]: `this` of the constructor or destructor t runs
    src,        \* src[t]: its p_other, NoVar when there is none
    hdr,        \* hdr[t]: the header it works on
    tmp,        \* tmp[t]: the count it loaded
    tainted,    \* headers that met get_arc or a = a
    stray_hit   \* a trailing unlock released somebody's mutex

heap  == <<state, addr, ref_count, mtx, rwlock>>
local == <<self, src, hdr, tmp>>
ghost == <<tainted, stray_hit>>
vars  == <<heap, header, kind, pc, local, ghost>>

Kinds == {"arc", "read", "write"}
Critical == {"inc_store", "dec_store"}
Incs == {"inc_lock", "inc_store"}
Decs == {"rw_lock", "rw_unlock", "dec_lock", "dec_store"}
Pcs == {"idle", "delete", "stray", "undefined"} \cup Incs \cup Decs

\* The count stays a size_t, and a thread refers to variables and headers only.
TypeOK ==
    /\ state \in [Headers -> {"unborn", "live", "freed"}]
    /\ addr \in [Headers -> Addrs]
    /\ ref_count \in [Headers -> 0..SizeMax]
    /\ mtx \in [Headers -> Threads \cup {NoThread}]
    /\ rwlock \in [Headers -> Int]
    /\ header \in [Vars -> Headers \cup {NoHeader}]
    /\ kind \in [Vars -> Kinds]
    /\ pc \in [Threads -> Pcs]
    /\ self \in [Threads -> Vars \cup {NoVar}]
    /\ src \in [Threads -> Vars \cup {NoVar}]
    /\ hdr \in [Threads -> Headers \cup {NoHeader}]
    /\ tmp \in [Threads -> 0..SizeMax]
    /\ tainted \subseteq Headers
    /\ stray_hit \in BOOLEAN

Refs(h) == {v \in Vars : header[v] = h}
Live(h) == h \in Headers /\ state[h] = "live"

----------------------------------------------------------------------------
(* What a well-behaved client may start. *)

\* No running operation writes v (it may be read by several).
Readable(v) == header[v] # NoHeader /\ \A t \in Threads : self[t] # v
\* No running operation uses v at all.
Unused(v) == \A t \in Threads : self[t] # v /\ src[t] # v

Init ==
    /\ state = [h \in Headers |-> "unborn"]
    /\ addr \in [Headers -> Addrs]
    /\ ref_count = [h \in Headers |-> 0]
    /\ mtx = [h \in Headers |-> NoThread]
    /\ rwlock = [h \in Headers |-> 0]
    /\ header = [v \in Vars |-> NoHeader]
    /\ kind = [v \in Vars |-> "arc"]
    /\ pc = [t \in Threads |-> "idle"]
    /\ self = [t \in Threads |-> NoVar]
    /\ src = [t \in Threads |-> NoVar]
    /\ hdr = [t \in Threads |-> NoHeader]
    /\ tmp = [t \in Threads |-> 0]
    /\ tainted = {}
    /\ stray_hit = FALSE

\* Arc(), Arc(args): nobody else can see the header yet, so one step.
New(t, v, h, a) ==
    /\ pc[t] = "idle" /\ header[v] = NoHeader /\ Unused(v)
    /\ state[h] = "unborn"
    /\ \A g \in Headers : state[g] = "live" => addr[g] # a
    /\ state' = [state EXCEPT ![h] = "live"]
    /\ addr' = [addr EXCEPT ![h] = a]
    /\ ref_count' = [ref_count EXCEPT ![h] = 1]
    /\ header' = [header EXCEPT ![v] = h]
    /\ kind' = [kind EXCEPT ![v] = "arc"]
    /\ UNCHANGED <<mtx, rwlock, pc, local, ghost>>

\* Thread t enters an operation on variable v of header h, with p_other = s.
\* tmp is 0 whenever t is outside the mutex: the value is not used there.
Enter(t, at, v, s, h) ==
    /\ pc' = [pc EXCEPT ![t] = at]
    /\ self' = [self EXCEPT ![t] = v]
    /\ src' = [src EXCEPT ![t] = s]
    /\ hdr' = [hdr EXCEPT ![t] = h]
    /\ tmp' = [tmp EXCEPT ![t] = 0]

\* It stays in that operation and goes on at `at`.
Proceed(t, at) == Enter(t, at, self[t], src[t], hdr[t])

Leave(t) == Enter(t, "idle", NoVar, NoVar, NoHeader)

\* The copy constructor, s.read() and s.write(): one body up to the lock.
Copy(t, v, s, k) ==
    /\ pc[t] = "idle" /\ header[v] = NoHeader /\ Unused(v)
    /\ Readable(s) /\ kind[s] = "arc"
    /\ kind' = [kind EXCEPT ![v] = k]
    /\ Enter(t, "inc_lock", v, s, header[s])
    /\ UNCHANGED <<heap, header, ghost>>

\* The object s points to makes an Arc to itself; the count stays as it is.
GetArc(t, v, s) ==
    /\ GetsArc
    /\ pc[t] = "idle" /\ header[v] = NoHeader /\ Unused(v)
    /\ Readable(s)
    /\ header' = [header EXCEPT ![v] = header[s]]
    /\ kind' = [kind EXCEPT ![v] = "arc"]
    /\ tainted' = tainted \cup {header[s]}
    /\ UNCHANGED <<heap, pc, local, stray_hit>>

\* ~Arc(), ~ReadGuard(), ~WriteGuard(): a guard gives its rwlock back first.
Drop(t, v) ==
    /\ pc[t] = "idle" /\ header[v] # NoHeader /\ Unused(v)
    /\ Enter(t, IF kind[v] = "arc" THEN "dec_lock" ELSE "rw_unlock",
             v, NoVar, header[v])
    /\ UNCHANGED <<heap, header, kind, ghost>>

\* v = s: this->~Arc(), then new (this) Arc(p_other), with no test for v = s.
Assign(t, v, s) ==
    /\ pc[t] = "idle" /\ header[v] # NoHeader /\ Unused(v) /\ kind[v] = "arc"
    /\ Readable(s) /\ kind[s] = "arc"
    /\ v = s => SelfAssign
    /\ Enter(t, "dec_lock", v, s, header[v])
    /\ tainted' = IF v = s THEN tainted \cup {header[v]} ELSE tainted
    /\ UNCHANGED <<heap, header, kind, stray_hit>>

----------------------------------------------------------------------------
(* The steps of a running operation. *)

\* Fault: a new reference is not counted.
Uncounted(n) == n

\* size_t arithmetic.
Incremented(n) == IF n = SizeMax THEN 0 ELSE n + 1
Decremented(n) == IF n = 0 THEN SizeMax ELSE n - 1

\* Fault: the count is loaded outside the mutex.
LoadUnlocked(t, at) ==
    /\ mtx' = [mtx EXCEPT ![hdr[t]] = t]
    /\ tmp' = [tmp EXCEPT ![t] = ref_count[hdr[t]]]
    /\ pc' = [pc EXCEPT ![t] = at]

\* mtx.lock() and the load of ref_count.
Lock(t, at) ==
    /\ mtx[hdr[t]] = NoThread
    /\ mtx' = [mtx EXCEPT ![hdr[t]] = t]
    /\ tmp' = [tmp EXCEPT ![t] = ref_count[hdr[t]]]
    /\ pc' = [pc EXCEPT ![t] = at]

\* mtx.unlock() of header h by thread t, who may not be the one that holds it.
Unlock(t, h, outcome) ==
    mtx' = IF mtx[h] = t \/ outcome = "released"
           THEN [mtx EXCEPT ![h] = NoThread] ELSE mtx

IncLock(t) ==
    /\ pc[t] = "inc_lock" /\ Live(hdr[t])
    /\ Lock(t, "inc_store")
    /\ UNCHANGED <<state, addr, ref_count, rwlock, header, kind, self, src, hdr, ghost>>

IncStore(t) ==
    /\ pc[t] = "inc_store" /\ Live(hdr[t])
    /\ ref_count' = [ref_count EXCEPT ![hdr[t]] = Incremented(tmp[t])]
    /\ \E o \in StrayOutcomes : Unlock(t, hdr[t], o)
    /\ header' = [header EXCEPT ![self[t]] = hdr[t]]
    /\ IF kind[self[t]] = "arc"
       THEN Leave(t)
       ELSE Proceed(t, "rw_lock")
    /\ UNCHANGED <<state, addr, rwlock, kind, ghost>>

\* Fault: a guard wants the lock for itself, also from its own thread.
RwLockAlone(t) ==
    /\ pc[t] = "rw_lock" /\ Live(hdr[t])
    /\ rwlock[hdr[t]] = 0
    /\ rwlock' = [rwlock EXCEPT ![hdr[t]] = @ + 1]
    /\ Leave(t)
    /\ UNCHANGED <<state, addr, ref_count, mtx, header, kind, ghost>>

\* Both guards call read_lock(); a negative rwlock is not available.
RwLock(t) ==
    /\ pc[t] = "rw_lock" /\ Live(hdr[t])
    /\ rwlock[hdr[t]] >= 0
    /\ rwlock' = [rwlock EXCEPT ![hdr[t]] = @ + 1]
    /\ Leave(t)
    /\ UNCHANGED <<state, addr, ref_count, mtx, header, kind, ghost>>

\* A shared release: one holder fewer; with none left the lock is corrupt.
ReadUnlock(h) == [rwlock EXCEPT ![h] = IF @ > 0 THEN @ - 1 ELSE -1]

\* Fault: the destructor of a guard keeps the lock.
RwNotUnlocked(t) ==
    /\ pc[t] = "rw_unlock" /\ Live(hdr[t])
    /\ Proceed(t, "dec_lock")
    /\ UNCHANGED <<heap, header, kind, ghost>>

\* ~WriteGuard() calls write_unlock() although its lock is held shared: a
\* library lets one holder go ("one") or takes the lock for free ("all").
RwUnlock(t) ==
    /\ pc[t] = "rw_unlock" /\ Live(hdr[t])
    /\ \/ /\ kind[self[t]] = "read" \/ "one" \in WriteUnlocks
          /\ rwlock' = ReadUnlock(hdr[t])
       \/ /\ kind[self[t]] = "write" /\ "all" \in WriteUnlocks
          /\ rwlock' = [rwlock EXCEPT ![hdr[t]] = 0]
    /\ Proceed(t, "dec_lock")
    /\ UNCHANGED <<state, addr, ref_count, mtx, header, kind, ghost>>

DecLock(t) ==
    /\ pc[t] = "dec_lock" /\ Live(hdr[t])
    /\ Lock(t, "dec_store")
    /\ UNCHANGED <<state, addr, ref_count, rwlock, header, kind, self, src, hdr, ghost>>

\* The end of a destructor: the operation is over, or operator= goes on and
\* copies from p_other; a = a still finds the header it has just let go.
Return(t) ==
    IF src[t] = NoVar THEN Leave(t)
    ELSE Enter(t, "inc_lock", self[t], src[t],
               IF src[t] = self[t] THEN hdr[t] ELSE header[src[t]])

\* What the destructor does under the mutex, with the counts at which it deletes.
DecStoreAt(t, lastCounts) ==
    /\ pc[t] = "dec_store" /\ Live(hdr[t])
    /\ ref_count' = [ref_count EXCEPT ![hdr[t]] = Decremented(tmp[t])]
    /\ \E o \in StrayOutcomes : Unlock(t, hdr[t], o)
    /\ header' = [header EXCEPT ![self[t]] = NoHeader]
    /\ IF Decremented(tmp[t]) \in lastCounts
       THEN Proceed(t, "delete")
       ELSE Return(t)
    /\ UNCHANGED <<state, addr, rwlock, kind, ghost>>
\* Faults: the header is deleted one reference early; it is never deleted.
DecStoreEarly(t) == DecStoreAt(t, {0, 1})
DecStoreLeaks(t) == DecStoreAt(t, {})

DecStore(t) ==
    /\ pc[t] = "dec_store" /\ Live(hdr[t])
    /\ ref_count' = [ref_count EXCEPT ![hdr[t]] = Decremented(tmp[t])]
    /\ \E o \in StrayOutcomes : Unlock(t, hdr[t], o)
    /\ header' = [header EXCEPT ![self[t]] = NoHeader]
    /\ IF Decremented(tmp[t]) = 0
       THEN Proceed(t, "delete")
       ELSE Return(t)
    /\ UNCHANGED <<state, addr, rwlock, kind, ghost>>

\* memdelete(header) runs ~ArcHeader, which destroys the object.
Delete(t) ==
    /\ pc[t] = "delete" /\ Live(hdr[t])
    /\ state' = [state EXCEPT ![hdr[t]] = "freed"]
    /\ Proceed(t, "stray")
    /\ UNCHANGED <<addr, ref_count, mtx, rwlock, header, kind, ghost>>

\* A live header whose mutex somebody holds, at the address of header h.
Reused(h, g) == state[g] = "live" /\ addr[g] = addr[h] /\ mtx[g] # NoThread

\* The header->mtx.unlock() after memdelete(header).
Stray(t) ==
    /\ pc[t] = "stray"
    /\ \/ /\ "ignored" \in StrayOutcomes \/ \A g \in Headers : ~Reused(hdr[t], g)
          /\ UNCHANGED <<mtx, stray_hit>>
       \/ /\ "released" \in StrayOutcomes
          /\ \E g \in Headers : Reused(hdr[t], g) /\ Unlock(t, g, "released")
          /\ stray_hit' = TRUE
    /\ Return(t)
    /\ UNCHANGED <<state, addr, ref_count, rwlock, header, kind, tainted>>

\* Any other use of a freed header: nothing is known of the thread any more.
TouchFreed(t) ==
    /\ pc[t] \in Incs \cup Decs \cup {"delete"} /\ ~Live(hdr[t])
    /\ pc' = [pc EXCEPT ![t] = "undefined"]
    /\ UNCHANGED <<heap, header, kind, local, ghost>>

----------------------------------------------------------------------------

Start(t) ==
    \/ \E v \in Vars, h \in Headers, a \in Addrs : New(t, v, h, a)
    \/ \E v, s \in Vars, k \in Kinds : Copy(t, v, s, k)
    \/ \E v, s \in Vars : GetArc(t, v, s)
    \/ \E v \in Vars : Drop(t, v)
    \/ \E v, s \in Vars : Assign(t, v, s)

Step(t) ==
    \/ IncLock(t) \/ IncStore(t) \/ RwLock(t) \/ RwUnlock(t)
    \/ DecLock(t) \/ DecStore(t) \/ Delete(t) \/ Stray(t) \/ TouchFreed(t)

\* Every thread is between operations, or lost: the program may end here.
Quiescent ==
    /\ \A t \in Threads : pc[t] \in {"idle", "undefined"}
    /\ UNCHANGED vars

Next == (\E t \in Threads : Start(t) \/ Step(t)) \/ Quiescent

Spec == Init /\ [][Next]_vars
\* A thread inside an operation is scheduled again; a client need not start one.
FairSpec == Spec /\ \A t \in Threads : WF_vars(Step(t))

----------------------------------------------------------------------------
(* Properties. *)

\* The count of a live header is the number of Arcs and guards on it, at every
\* step of every interleaving, unless get_arc, a = a or a trailing unlock that
\* hit a mutex in use (rc.hpp 222-229) interfered.
CountExact ==
    ~stray_hit => \A h \in Headers \ tainted :
        state[h] = "live" => ref_count[h] = Cardinality(Refs(h))

\* No Arc or guard points to a header that is freed (or not allocated yet).
NoDangling ==
    ~stray_hit => \A v \in Vars :
        header[v] \notin tainted \cup {NoHeader} => Live(header[v])

\* A thread meets a freed header in lock, count, rwlock or memdelete only when
\* one of the three hazards happened before.
FreedOnlyWhenTainted ==
    (\E t \in Threads : pc[t] = "undefined") => stray_hit \/ tainted # {}

\* A guard keeps its header's rwlock held: the holders are the guards that
\* exist, whichever destructor they have, when write_unlock lets one go.
HoldersAreGuards ==
    ~stray_hit => \A h \in Headers \ tainted :
        state[h] = "live" => rwlock[h] = Cardinality(
            {v \in Refs(h) : kind[v] # "arc" /\ \A t \in Threads :
                self[t] = v => pc[t] \notin Critical \cup {"rw_lock", "dec_lock"}})

\* operator-> never waits for ever for the reader-writer lock.
GuardGranted ==
    \A t \in Threads : (pc[t] = "rw_lock") ~> (pc[t] # "rw_lock")

\* The counting algorithm implements shared ownership of the objects.
Ownership == INSTANCE SharedOwnership
    WITH Slots <- Vars, Objects <- Headers, NoObject <- NoHeader,
         owns <- header, phase <- state
ImplementsOwnership == Ownership!Spec
============================================================================
