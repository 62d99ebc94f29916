----------------------------- MODULE ArcProofs -----------------------------
(***************************************************************************)
(* Theorems about Arc for any number of threads, variables, headers and    *)
(* addresses.  The counts are exact because a thread inside the mutex of a *)
(* header has loaded the current count, and because every thread that is   *)
(* about to change the count still has a variable that keeps the header    *)
(* alive; IInv says so.                                                    *)
(***************************************************************************)
EXTENDS Arc, FiniteSetTheorems, TLAPS

\* Headers for which the counting is claimed.
Sound(h) == h \in Headers /\ h \notin tainted

\* What a thread works on.
Frame(t) ==
    /\ pc[t] = "idle" => self[t] = NoVar /\ src[t] = NoVar
    /\ pc[t] \notin {"idle", "undefined"} => self[t] \in Vars /\ hdr[t] \in Headers
    /\ src[t] # NoVar => self[t] # NoVar
    /\ src[t] \in Vars /\ src[t] = self[t] => hdr[t] \in tainted
    /\ src[t] \in Vars /\ src[t] # self[t] => header[src[t]] \in Headers
    /\ pc[t] \in Decs => header[self[t]] = hdr[t]
    /\ pc[t] \in Incs =>
        /\ header[self[t]] = NoHeader
        /\ src[t] \in Vars
        /\ src[t] # self[t] => header[src[t]] = hdr[t]
    /\ pc[t] \in {"delete", "stray"} => header[self[t]] = NoHeader

\* A variable is written by one thread, and read by no other meanwhile.
Exclusive ==
    \A t, u \in Threads : t # u /\ self[t] # NoVar =>
        self[t] # self[u] /\ self[t] # src[u]

\* The thread in the mutex of a header holds it and has loaded its count.
Mutex ==
    \A t \in Threads : pc[t] \in Critical /\ Sound(hdr[t]) =>
        mtx[hdr[t]] = t /\ tmp[t] = ref_count[hdr[t]]

\* A header with references is live, and its count is their number.
Count ==
    \A h \in Headers : Sound(h) =>
        IF state[h] = "live" THEN ref_count[h] = Cardinality(Refs(h)) ELSE Refs(h) = {}

\* One thread deletes a header, a live one that has no references.
Doomed ==
    \A t \in Threads : pc[t] = "delete" /\ Sound(hdr[t]) =>
        /\ state[hdr[t]] = "live" /\ Refs(hdr[t]) = {}
        /\ \A u \in Threads \ {t} : pc[u] = "delete" => hdr[u] # hdr[t]

Client == Exclusive /\ \A t \in Threads : Frame(t)
Sharing == ~stray_hit => Mutex /\ Count /\ Doomed
IInv == TypeOK /\ Client /\ Sharing /\ FreedOnlyWhenTainted

----------------------------------------------------------------------------
(* Types. *)

\* What TypeOK says of the program counters and of a thread's locals.
LocalOK ==
    /\ pc \in [Threads -> Pcs]
    /\ self \in [Threads -> Vars \cup {NoVar}]
    /\ src \in [Threads -> Vars \cup {NoVar}]
    /\ hdr \in [Threads -> Headers \cup {NoHeader}]
    /\ tmp \in [Threads -> 0..SizeMax]

\* Entering, staying in and leaving an operation keep the locals typed.
LEMMA EnterType ==
    ASSUME LocalOK, NEW t \in Threads, NEW at \in Pcs,
           NEW v \in Vars \cup {NoVar}, NEW s \in Vars \cup {NoVar},
           NEW h \in Headers \cup {NoHeader}, Enter(t, at, v, s, h)
    PROVE  LocalOK'
BY SizeAssumption DEF LocalOK, Enter

\* So does a step to another point of the operation.
LEMMA ProceedType ==
    ASSUME LocalOK, NEW t \in Threads, NEW at \in Pcs, Proceed(t, at)
    PROVE  LocalOK'
<1>1. self[t] \in Vars \cup {NoVar} /\ src[t] \in Vars \cup {NoVar}
      /\ hdr[t] \in Headers \cup {NoHeader}
  BY DEF LocalOK
<1> QED BY <1>1, EnterType DEF Proceed

\* So does the end of an operation.
LEMMA LeaveType ==
    ASSUME LocalOK, NEW t \in Threads, Leave(t)
    PROVE  LocalOK'
<1>1. "idle" \in Pcs
  BY DEF Pcs
<1> QED BY <1>1, EnterType DEF Leave

\* So does the end of a destructor, whether operator= goes on or not.
LEMMA ReturnType ==
    ASSUME LocalOK, header \in [Vars -> Headers \cup {NoHeader}],
           NEW t \in Threads, Return(t)
    PROVE  LocalOK'
<1>1. CASE src[t] = NoVar
  BY <1>1, LeaveType DEF Return
<1>2. CASE src[t] # NoVar
  <2> DEFINE h == IF src[t] = self[t] THEN hdr[t] ELSE header[src[t]]
  <2>1. "inc_lock" \in Pcs
    BY DEF Pcs, Incs
  <2>2. self[t] \in Vars \cup {NoVar} /\ src[t] \in Vars
    BY <1>2 DEF LocalOK
  <2>3. h \in Headers \cup {NoHeader}
    BY <2>2 DEF LocalOK
  <2>4. Enter(t, "inc_lock", self[t], src[t], h)
    BY <1>2 DEF Return
  <2> HIDE DEF h
  <2> QED BY <2>1, <2>2, <2>3, <2>4, EnterType
<1> QED BY <1>1, <1>2

\* The mutex of h has no owner or an owner among the threads after an unlock.
LEMMA UnlockType ==
    ASSUME mtx \in [Headers -> Threads \cup {NoThread}],
           NEW t, NEW h, NEW o, Unlock(t, h, o)
    PROVE  mtx' \in [Headers -> Threads \cup {NoThread}]
BY DEF Unlock

\* The types hold at the start.
LEMMA TypeInit == ASSUME Init PROVE TypeOK
<1>1. "idle" \in Pcs /\ "arc" \in Kinds /\ 0 \in 0..SizeMax
  BY SizeAssumption DEF Pcs, Kinds
<1>2. pc \in [Threads -> Pcs] /\ kind \in [Vars -> Kinds]
  BY <1>1 DEF Init
<1>3. ref_count \in [Headers -> 0..SizeMax] /\ tmp \in [Threads -> 0..SizeMax]
  BY <1>1 DEF Init
<1>4. rwlock \in [Headers -> Int]
  BY DEF Init
<1> QED BY <1>2, <1>3, <1>4 DEF Init, TypeOK

\* Every step keeps the types.
LEMMA TypeStep == ASSUME TypeOK, [Next]_vars PROVE TypeOK'
<1>a. LocalOK
  BY DEF TypeOK, LocalOK
<1>1. CASE UNCHANGED vars
  BY <1>1 DEF TypeOK, vars, heap, local, ghost
<1>2. ASSUME NEW t \in Threads, Start(t) PROVE TypeOK'
  <2>1. ASSUME NEW v \in Vars, NEW h \in Headers, NEW a \in Addrs, New(t, v, h, a)
        PROVE  TypeOK'
    BY <2>1, SizeAssumption DEF TypeOK, New, local, ghost, Kinds
  <2>2. ASSUME NEW v \in Vars, NEW s \in Vars, NEW k \in Kinds, Copy(t, v, s, k)
        PROVE  TypeOK'
    <3>1. header[s] \in Headers /\ "inc_lock" \in Pcs
      BY <2>2 DEF Copy, Readable, TypeOK, Pcs, Incs
    <3>2. LocalOK'
      BY <1>a, <2>2, <3>1, EnterType DEF Copy
    <3> QED BY <2>2, <3>2 DEF Copy, TypeOK, LocalOK, heap, ghost
  <2>3. ASSUME NEW v \in Vars, NEW s \in Vars, GetArc(t, v, s)
        PROVE  TypeOK'
    BY <2>3 DEF TypeOK, GetArc, heap, local, Readable, Kinds
  <2>4. ASSUME NEW v \in Vars, Drop(t, v)
        PROVE  TypeOK'
    <3> DEFINE at == IF kind[v] = "arc" THEN "dec_lock" ELSE "rw_unlock"
    <3>1. header[v] \in Headers /\ at \in Pcs
      BY <2>4 DEF Drop, TypeOK, Pcs, Decs
    <3>2. Enter(t, at, v, NoVar, header[v])
      BY <2>4 DEF Drop
    <3> HIDE DEF at
    <3>3. LocalOK'
      BY <1>a, <3>1, <3>2, EnterType
    <3> QED BY <2>4, <3>3 DEF Drop, TypeOK, LocalOK, heap, ghost
  <2>5. ASSUME NEW v \in Vars, NEW s \in Vars, Assign(t, v, s)
        PROVE  TypeOK'
    <3>1. header[v] \in Headers /\ "dec_lock" \in Pcs
      BY <2>5 DEF Assign, TypeOK, Pcs, Decs
    <3>2. LocalOK'
      BY <1>a, <2>5, <3>1, EnterType DEF Assign
    <3> QED BY <2>5, <3>1, <3>2 DEF Assign, TypeOK, LocalOK, heap
  <2> QED BY <1>2, <2>1, <2>2, <2>3, <2>4, <2>5 DEF Start
<1>3. ASSUME NEW t \in Threads, Step(t) PROVE TypeOK'
  <2>1. CASE IncLock(t)
    BY <2>1 DEF TypeOK, IncLock, Lock, Live, ghost, Pcs, Incs
  <2>2. CASE IncStore(t)
    <3>1. LocalOK'
      <4>1. CASE kind[self[t]] = "arc"
        BY <1>a, <2>2, <4>1, LeaveType DEF IncStore
      <4>2. CASE kind[self[t]] # "arc"
        <5>1. "rw_lock" \in Pcs
          BY DEF Pcs, Decs
        <5> QED BY <1>a, <2>2, <4>2, <5>1, ProceedType DEF IncStore
      <4> QED BY <4>1, <4>2
    <3>2. mtx' \in [Headers -> Threads \cup {NoThread}]
      BY <2>2, UnlockType DEF IncStore, TypeOK
    <3>3. Incremented(tmp[t]) \in 0..SizeMax
      BY SizeAssumption DEF TypeOK, Incremented
    <3> QED BY <2>2, <3>1, <3>2, <3>3 DEF IncStore, TypeOK, LocalOK, Live, ghost
  <2>3. CASE RwLock(t)
    BY <1>a, <2>3, LeaveType DEF RwLock, TypeOK, LocalOK, Live, ghost
  <2>4. CASE RwUnlock(t)
    <3>1. "dec_lock" \in Pcs
      BY DEF Pcs, Decs
    <3>2. LocalOK'
      BY <1>a, <2>4, <3>1, ProceedType DEF RwUnlock
    <3>3. rwlock' \in [Headers -> Int]
      BY <2>4 DEF RwUnlock, ReadUnlock, TypeOK, Live
    <3> QED BY <2>4, <3>2, <3>3 DEF RwUnlock, TypeOK, LocalOK, ghost
  <2>5. CASE DecLock(t)
    BY <2>5 DEF TypeOK, DecLock, Lock, Live, ghost, Pcs, Decs
  <2>6. CASE DecStore(t)
    <3>1. LocalOK'
      <4>1. CASE Decremented(tmp[t]) # 0
        BY <1>a, <2>6, <4>1, ReturnType DEF DecStore, TypeOK
      <4>2. CASE Decremented(tmp[t]) = 0
        <5>1. "delete" \in Pcs
          BY DEF Pcs
        <5> QED BY <1>a, <2>6, <4>2, <5>1, ProceedType DEF DecStore
      <4> QED BY <4>1, <4>2
    <3>2. mtx' \in [Headers -> Threads \cup {NoThread}]
      BY <2>6, UnlockType DEF DecStore, TypeOK
    <3>3. Decremented(tmp[t]) \in 0..SizeMax
      BY SizeAssumption DEF TypeOK, Decremented
    <3> QED BY <2>6, <3>1, <3>2, <3>3 DEF DecStore, TypeOK, LocalOK, Live, ghost
  <2>7. CASE Delete(t)
    <3>1. "stray" \in Pcs
      BY DEF Pcs
    <3> QED BY <1>a, <2>7, <3>1, ProceedType DEF Delete, TypeOK, LocalOK, Live, ghost
  <2>8. CASE Stray(t)
    <3>1. LocalOK'
      BY <1>a, <2>8, ReturnType DEF Stray, TypeOK
    <3>2. mtx' \in [Headers -> Threads \cup {NoThread}] /\ stray_hit' \in BOOLEAN
      BY <2>8, UnlockType DEF Stray, TypeOK
    <3> QED BY <2>8, <3>1, <3>2 DEF Stray, TypeOK, LocalOK
  <2>9. CASE TouchFreed(t)
    BY <2>9 DEF TypeOK, TouchFreed, heap, local, ghost, Pcs
  <2> QED BY <1>3, <2>1, <2>2, <2>3, <2>4, <2>5, <2>6, <2>7, <2>8, <2>9 DEF Step
<1> QED BY <1>1, <1>2, <1>3 DEF Next, Quiescent

\* Every variable of the model keeps its type: no step loads or stores a value
\* outside the fields of rc.hpp (a count stays within size_t).
THEOREM TypeCorrect == Spec => []TypeOK
<1>1. Init => TypeOK
  BY TypeInit
<1>2. TypeOK /\ [Next]_vars => TypeOK'
  BY TypeStep
<1> QED BY <1>1, <1>2, PTL DEF Spec

----------------------------------------------------------------------------
(* Variables: who may use which, and what they hold meanwhile. *)

\* The locals of the other threads are their own.
LEMMA EnterOthers ==
    ASSUME LocalOK, NEW t \in Threads, NEW at, NEW v, NEW s, NEW h,
           Enter(t, at, v, s, h)
    PROVE  /\ pc'[t] = at /\ self'[t] = v /\ src'[t] = s /\ hdr'[t] = h
           /\ \A u \in Threads \ {t} :
                /\ pc'[u] = pc[u] /\ self'[u] = self[u] /\ src'[u] = src[u]
                /\ hdr'[u] = hdr[u] /\ tmp'[u] = tmp[u]
BY DEF LocalOK, Enter

\* A frame does not change when its variables and its thread's locals do not.
LEMMA FrameKept ==
    ASSUME NEW u \in Threads, Frame(u),
           pc'[u] = pc[u], self'[u] = self[u], src'[u] = src[u], hdr'[u] = hdr[u],
           self[u] \in Vars => header'[self[u]] = header[self[u]],
           src[u] \in Vars => header'[src[u]] = header[src[u]],
           tainted \subseteq tainted'
    PROVE  Frame(u)'
<1>1. CASE pc[u] \in {"idle", "undefined"}
  BY <1>1 DEF Frame, Incs, Decs
<1>2. CASE pc[u] \notin {"idle", "undefined"}
  BY <1>2 DEF Frame
<1> QED BY <1>1, <1>2

\* Starting an operation on unused variables keeps them exclusive.
LEMMA ExclusiveEnter ==
    ASSUME LocalOK, Exclusive, NEW t \in Threads, NEW at, NEW v \in Vars,
           NEW s \in Vars \cup {NoVar}, NEW h, Enter(t, at, v, s, h),
           self[t] = NoVar, src[t] = NoVar, Unused(v),
           s \in Vars => \A u \in Threads : self[u] # s
    PROVE  Exclusive'
<1>1. NoVar \notin Vars
  BY SentinelAssumption
<1> QED BY <1>1, EnterOthers DEF Exclusive, Unused, LocalOK

\* Going on with the same variables, or leaving, does too.
LEMMA ExclusiveStay ==
    ASSUME LocalOK, Exclusive, NEW t \in Threads, NEW at, NEW h,
           Enter(t, at, self[t], src[t], h) \/ Enter(t, at, NoVar, NoVar, h)
    PROVE  Exclusive'
<1>1. CASE Enter(t, at, self[t], src[t], h)
  BY <1>1, EnterOthers DEF Exclusive
<1>2. CASE Enter(t, at, NoVar, NoVar, h)
  BY <1>2, EnterOthers DEF Exclusive
<1> QED BY <1>1, <1>2

\* The three ways a destructor or constructor goes on, by their effect.
LEMMA ReturnEffect ==
    ASSUME NEW t \in Threads, Return(t)
    PROVE  \/ src[t] = NoVar /\ Enter(t, "idle", NoVar, NoVar, NoHeader)
           \/ /\ src[t] # NoVar
              /\ Enter(t, "inc_lock", self[t], src[t],
                       IF src[t] = self[t] THEN hdr[t] ELSE header[src[t]])
BY DEF Return, Leave

\* Starting an operation, and making an object, keeps the client rules.
LEMMA ClientStart ==
    ASSUME TypeOK, Client, NEW t \in Threads, Start(t)
    PROVE  Client'
<1>a. LocalOK /\ NoVar \notin Vars /\ NoHeader \notin Headers
  BY SentinelAssumption DEF TypeOK, LocalOK
<1>b. pc[t] = "idle" => self[t] = NoVar /\ src[t] = NoVar
  BY DEF Client, Frame
<1>c. \A u \in Threads : Frame(u) /\ self[u] \in Vars \cup {NoVar} /\ src[u] \in Vars \cup {NoVar}
  BY DEF Client, TypeOK
<1>1. ASSUME NEW v \in Vars, NEW h \in Headers, NEW a \in Addrs, New(t, v, h, a)
      PROVE  Client'
  <2>1. \A w \in Vars \ {v} : header'[w] = header[w]
    BY <1>1 DEF New, TypeOK
  <2>2. UNCHANGED <<pc, self, src, hdr, tainted>> /\ Unused(v)
    BY <1>1 DEF New, local, ghost
  <2>3. ASSUME NEW u \in Threads PROVE Frame(u)'
    BY <1>a, <1>c, <2>1, <2>2, FrameKept DEF Unused
  <2> QED BY <2>2, <2>3 DEF Client, Exclusive
<1>2. ASSUME NEW v \in Vars, NEW s \in Vars, NEW k \in Kinds, Copy(t, v, s, k)
      PROVE  Client'
  <2>1. Enter(t, "inc_lock", v, s, header[s]) /\ UNCHANGED <<header, tainted>>
    BY <1>2 DEF Copy, ghost
  <2>2. header[v] = NoHeader /\ header[s] \in Headers
    BY <1>2 DEF Copy, Readable, TypeOK
  <2>3. Frame(t)'
    BY <1>a, <2>1, <2>2, EnterOthers DEF Frame, Incs, Decs
  <2>4. ASSUME NEW u \in Threads \ {t} PROVE Frame(u)'
    BY <1>a, <1>c, <2>1, FrameKept, EnterOthers
  <2>5. Exclusive'
    BY <1>2, <1>a, <1>b, <2>1, ExclusiveEnter DEF Copy, Readable, Client
  <2> QED BY <2>3, <2>4, <2>5 DEF Client
<1>3. ASSUME NEW v \in Vars, NEW s \in Vars, GetArc(t, v, s)
      PROVE  Client'
  <2>1. \A w \in Vars \ {v} : header'[w] = header[w]
    BY <1>3 DEF GetArc, TypeOK
  <2>2. UNCHANGED <<pc, self, src, hdr>> /\ tainted \subseteq tainted' /\ Unused(v)
    BY <1>3 DEF GetArc, local
  <2>3. ASSUME NEW u \in Threads PROVE Frame(u)'
    BY <1>a, <1>c, <2>1, <2>2, FrameKept DEF Unused
  <2> QED BY <2>2, <2>3 DEF Client, Exclusive
<1>4. ASSUME NEW v \in Vars, Drop(t, v)
      PROVE  Client'
  <2> DEFINE at == IF kind[v] = "arc" THEN "dec_lock" ELSE "rw_unlock"
  <2>1. Enter(t, at, v, NoVar, header[v]) /\ UNCHANGED <<header, tainted>>
    BY <1>4 DEF Drop, ghost
  <2>2. header[v] \in Headers /\ at \in {"dec_lock", "rw_unlock"}
    BY <1>4 DEF Drop, TypeOK
  <2> HIDE DEF at
  <2>3. Frame(t)'
    BY <1>a, <2>1, <2>2, EnterOthers DEF Frame, Incs, Decs
  <2>4. ASSUME NEW u \in Threads \ {t} PROVE Frame(u)'
    BY <1>a, <1>c, <2>1, FrameKept, EnterOthers
  <2>5. Unused(v) /\ pc[t] = "idle"
    BY <1>4 DEF Drop
  <2>6. Exclusive'
    BY <1>a, <1>b, <2>1, <2>5, ExclusiveEnter DEF Client
  <2> QED BY <2>3, <2>4, <2>6 DEF Client
<1>5. ASSUME NEW v \in Vars, NEW s \in Vars, Assign(t, v, s)
      PROVE  Client'
  <2>1. /\ Enter(t, "dec_lock", v, s, header[v]) /\ UNCHANGED header
        /\ tainted' = IF v = s THEN tainted \cup {header[v]} ELSE tainted
    BY <1>5 DEF Assign
  <2>2. header[v] \in Headers /\ header[s] \in Headers
    BY <1>5 DEF Assign, Readable, TypeOK
  <2>3. Frame(t)'
    BY <1>a, <2>1, <2>2, EnterOthers DEF Frame, Incs, Decs
  <2>4. ASSUME NEW u \in Threads \ {t} PROVE Frame(u)'
    BY <1>a, <1>c, <2>1, FrameKept, EnterOthers
  <2>5. Exclusive'
    BY <1>5, <1>a, <1>b, <2>1, ExclusiveEnter DEF Assign, Readable, Client
  <2> QED BY <2>3, <2>4, <2>5 DEF Client
<1> QED BY <1>1, <1>2, <1>3, <1>4, <1>5 DEF Start

\* A step of t that writes no variable but self[t] and no locals but its own
\* keeps the frames of the others.
LEMMA OtherFrames ==
    ASSUME LocalOK, Client, NEW t \in Threads, tainted \subseteq tainted',
           \A w \in Vars : w # self[t] => header'[w] = header[w],
           \A u \in Threads \ {t} :
              pc'[u] = pc[u] /\ self'[u] = self[u] /\ src'[u] = src[u] /\ hdr'[u] = hdr[u]
    PROVE  \A u \in Threads \ {t} : Frame(u)'
<1> SUFFICES ASSUME NEW u \in Threads \ {t} PROVE Frame(u)'
  OBVIOUS
<1>1. NoVar \notin Vars
  BY SentinelAssumption
<1>2. self[u] \in Vars => self[u] # self[t]
  BY <1>1 DEF Client, Exclusive
<1>3. src[u] \in Vars => src[u] # self[t]
  BY <1>1 DEF Client, Exclusive, LocalOK
<1> QED BY <1>2, <1>3, FrameKept DEF Client

\* Every step of a running operation keeps the client rules.
LEMMA ClientStep ==
    ASSUME TypeOK, Client, NEW t \in Threads, Step(t)
    PROVE  Client'
<1>a. LocalOK /\ NoVar \notin Vars /\ NoHeader \notin Headers
  BY SentinelAssumption DEF TypeOK, LocalOK
<1>b. Frame(t) /\ Exclusive /\ self[t] \in Vars \cup {NoVar} /\ src[t] \in Vars \cup {NoVar}
  BY DEF Client, TypeOK
<1>1. ASSUME NEW from, NEW at, pc[t] = from, Lock(t, at),
             <<from, at>> \in {<<"inc_lock", "inc_store">>, <<"dec_lock", "dec_store">>},
             UNCHANGED <<self, src, hdr, header, tainted>>
      PROVE  Client'
  <2>1. /\ pc'[t] = at
        /\ \A u \in Threads \ {t} : pc'[u] = pc[u]
    BY <1>1 DEF Lock, TypeOK
  <2>2. Frame(t)'
    BY <1>1, <1>b, <2>1 DEF Frame, Incs, Decs
  <2>3. \A u \in Threads \ {t} : Frame(u)'
    BY <1>1, <1>a, <2>1, OtherFrames
  <2> QED BY <1>1, <1>b, <2>2, <2>3 DEF Client, Exclusive
<1>2. CASE IncLock(t)
  BY <1>1, <1>2 DEF IncLock, ghost
<1>3. CASE DecLock(t)
  BY <1>1, <1>3 DEF DecLock, ghost
<1>4. ASSUME NEW at, NEW h, UNCHANGED tainted,
             Enter(t, at, self[t], src[t], h) \/ Enter(t, at, NoVar, NoVar, h),
             \A w \in Vars : w # self[t] => header'[w] = header[w],
             Frame(t)'
      PROVE  Client'
  <2>1. \A u \in Threads \ {t} :
          pc'[u] = pc[u] /\ self'[u] = self[u] /\ src'[u] = src[u] /\ hdr'[u] = hdr[u]
    BY <1>4, <1>a, EnterOthers
  <2>2. \A u \in Threads \ {t} : Frame(u)'
    BY <1>4, <1>a, <2>1, OtherFrames
  <2>3. Exclusive'
    BY <1>4, <1>a, <1>b, ExclusiveStay
  <2> QED BY <1>4, <2>2, <2>3 DEF Client
<1>5. ASSUME Enter(t, "idle", NoVar, NoVar, NoHeader) PROVE Frame(t)'
  BY <1>5, <1>a, EnterOthers DEF Frame, Incs, Decs
<1>6. CASE IncStore(t)
  <2>1. /\ self[t] \in Vars /\ hdr[t] \in Headers /\ src[t] \in Vars
        /\ src[t] = self[t] => hdr[t] \in tainted
        /\ src[t] # self[t] => header[src[t]] = hdr[t]
    BY <1>6, <1>b DEF IncStore, Frame, Incs, Decs
  <2>2. /\ header'[self[t]] = hdr[t] /\ UNCHANGED tainted
        /\ \A w \in Vars : w # self[t] => header'[w] = header[w]
    BY <1>6, <2>1 DEF IncStore, TypeOK, ghost
  <2>3. CASE kind[self[t]] = "arc"
    <3>1. Enter(t, "idle", NoVar, NoVar, NoHeader)
      BY <1>6, <2>3 DEF IncStore, Leave
    <3> QED BY <1>4, <1>5, <2>2, <3>1
  <2>4. CASE kind[self[t]] # "arc"
    <3>1. Enter(t, "rw_lock", self[t], src[t], hdr[t])
      BY <1>6, <2>4 DEF IncStore, Proceed
    <3>2. Frame(t)'
      BY <1>a, <2>1, <2>2, <3>1, EnterOthers DEF Frame, Incs, Decs
    <3> QED BY <1>4, <2>2, <3>1, <3>2
  <2> QED BY <2>3, <2>4
<1>7. CASE RwLock(t)
  BY <1>4, <1>5, <1>7 DEF RwLock, Leave, ghost
<1>8. CASE RwUnlock(t)
  <2>1. Enter(t, "dec_lock", self[t], src[t], hdr[t]) /\ UNCHANGED <<header, tainted>>
    BY <1>8 DEF RwUnlock, Proceed, ghost
  <2>2. Frame(t)'
    BY <1>8, <1>a, <1>b, <2>1, EnterOthers DEF RwUnlock, Frame, Incs, Decs
  <2> QED BY <1>4, <2>1, <2>2
<1>9. ASSUME pc[t] \in Decs \cup {"stray"}, Return(t), UNCHANGED tainted,
             header'[self[t]] = NoHeader,
             \A w \in Vars : w # self[t] => header'[w] = header[w]
      PROVE  Client'
  <2>1. self[t] \in Vars /\ hdr[t] \in Headers
    BY <1>9, <1>b DEF Frame, Decs
  <2>2. CASE src[t] = NoVar
    BY <1>4, <1>5, <1>9, <2>2, ReturnEffect
  <2>3. CASE src[t] # NoVar
    <3> DEFINE h == IF src[t] = self[t] THEN hdr[t] ELSE header[src[t]]
    <3>1. Enter(t, "inc_lock", self[t], src[t], h)
      BY <1>9, <2>3, ReturnEffect
    <3>2. /\ src[t] \in Vars
          /\ src[t] = self[t] => h \in tainted
          /\ src[t] # self[t] => header'[src[t]] = h
          /\ h \in Headers
      BY <1>9, <1>b, <2>1, <2>3 DEF Frame
    <3> HIDE DEF h
    <3>3. Frame(t)'
      BY <1>9, <1>a, <2>1, <3>1, <3>2, EnterOthers DEF Frame, Incs, Decs
    <3> QED BY <1>4, <1>9, <3>1, <3>3
  <2> QED BY <2>2, <2>3
<1>10. CASE DecStore(t)
  <2>1. self[t] \in Vars /\ hdr[t] \in Headers
    BY <1>10, <1>b DEF DecStore, Frame
  <2>2. /\ header'[self[t]] = NoHeader /\ UNCHANGED tainted
        /\ \A w \in Vars : w # self[t] => header'[w] = header[w]
    BY <1>10, <2>1 DEF DecStore, TypeOK, ghost
  <2>3. CASE Decremented(tmp[t]) = 0
    <3>1. Enter(t, "delete", self[t], src[t], hdr[t])
      BY <1>10, <2>3 DEF DecStore, Proceed
    <3>2. Frame(t)'
      BY <1>a, <1>b, <2>1, <2>2, <3>1, EnterOthers DEF Frame, Incs, Decs
    <3> QED BY <1>4, <2>2, <3>1, <3>2
  <2>4. CASE Decremented(tmp[t]) # 0
    BY <1>9, <1>10, <2>2, <2>4 DEF DecStore, Decs
  <2> QED BY <2>3, <2>4
<1>11. CASE Delete(t)
  <2>1. Enter(t, "stray", self[t], src[t], hdr[t]) /\ UNCHANGED <<header, tainted>>
    BY <1>11 DEF Delete, Proceed, ghost
  <2>2. Frame(t)'
    BY <1>11, <1>a, <1>b, <2>1, EnterOthers DEF Delete, Frame, Incs, Decs
  <2> QED BY <1>4, <2>1, <2>2
<1>12. CASE Stray(t)
  <2>1. header[self[t]] = NoHeader
    BY <1>12, <1>b DEF Stray, Frame
  <2> QED BY <1>9, <1>12, <2>1 DEF Stray
<1>13. CASE TouchFreed(t)
  <2>1. /\ pc'[t] = "undefined" /\ UNCHANGED <<self, src, hdr, header, tainted>>
        /\ \A u \in Threads \ {t} : pc'[u] = pc[u]
    BY <1>13 DEF TouchFreed, TypeOK, local, ghost
  <2>2. Frame(t)'
    BY <1>b, <2>1 DEF Frame, Incs, Decs
  <2>3. \A u \in Threads \ {t} : Frame(u)'
    BY <1>a, <2>1, OtherFrames
  <2> QED BY <1>b, <2>1, <2>2, <2>3 DEF Client, Exclusive
<1> QED BY <1>2, <1>3, <1>6, <1>7, <1>8, <1>10, <1>11, <1>12, <1>13 DEF Step

----------------------------------------------------------------------------
(* Counting references. *)

\* The references to a header are finitely many, no more than the variables.
LEMMA RefsCountable ==
    ASSUME NEW h
    PROVE  /\ IsFiniteSet(Refs(h))
           /\ Cardinality(Refs(h)) \in Nat /\ Cardinality(Refs(h)) <= SizeMax
<1>1. Refs(h) \subseteq Vars
  BY DEF Refs
<1>2. IsFiniteSet(Refs(h)) /\ Cardinality(Refs(h)) <= Cardinality(Vars)
  BY <1>1, VarsAssumption, FS_Subset
<1>3. Cardinality(Refs(h)) \in Nat /\ Cardinality(Vars) \in Nat
  BY <1>2, VarsAssumption, FS_CardinalityType
<1> QED BY <1>2, <1>3, SizeAssumption

\* A variable starts to refer to h: one reference more, and room for it.
LEMMA RefAdded ==
    ASSUME header \in [Vars -> Headers \cup {NoHeader}],
           NEW v \in Vars, NEW h \in Headers, header[v] = NoHeader,
           header' = [header EXCEPT ![v] = h]
    PROVE  /\ Refs(h)' = Refs(h) \cup {v} /\ v \notin Refs(h)
           /\ Cardinality(Refs(h)') = Cardinality(Refs(h)) + 1
           /\ Cardinality(Refs(h)) < SizeMax
           /\ \A g \in Headers \ {h} : Refs(g)' = Refs(g)
<1>1. Refs(h)' = Refs(h) \cup {v} /\ v \notin Refs(h)
  BY SentinelAssumption DEF Refs
<1>2. \A g \in Headers \ {h} : Refs(g)' = Refs(g)
  BY SentinelAssumption DEF Refs
<1>3. Cardinality(Refs(h)') = Cardinality(Refs(h)) + 1
  BY <1>1, RefsCountable, FS_AddElement
<1>4. Refs(h)' \subseteq Vars
  BY DEF Refs
<1>5. Cardinality(Refs(h)') <= Cardinality(Vars)
  BY <1>4, VarsAssumption, FS_Subset
<1>6. Cardinality(Refs(h)) \in Nat /\ Cardinality(Vars) \in Nat
  BY RefsCountable, VarsAssumption, FS_CardinalityType
<1> QED BY <1>1, <1>2, <1>3, <1>5, <1>6, SizeAssumption

\* A variable stops referring to h: one reference less.
LEMMA RefRemoved ==
    ASSUME header \in [Vars -> Headers \cup {NoHeader}],
           NEW v \in Vars, NEW h \in Headers, header[v] = h,
           header' = [header EXCEPT ![v] = NoHeader]
    PROVE  /\ v \in Refs(h) /\ Refs(h)' = Refs(h) \ {v}
           /\ Cardinality(Refs(h)') = Cardinality(Refs(h)) - 1
           /\ Cardinality(Refs(h)) \in 1..SizeMax
           /\ Cardinality(Refs(h)) = 1 => Refs(h)' = {}
           /\ \A g \in Headers \ {h} : Refs(g)' = Refs(g)
<1>1. v \in Refs(h) /\ Refs(h)' = Refs(h) \ {v}
  BY SentinelAssumption DEF Refs
<1>2. \A g \in Headers \ {h} : Refs(g)' = Refs(g)
  BY SentinelAssumption DEF Refs
<1>3. IsFiniteSet(Refs(h)) /\ Cardinality(Refs(h)) \in Nat /\ Cardinality(Refs(h)) <= SizeMax
  BY RefsCountable
<1>4. IsFiniteSet(Refs(h)') /\ Cardinality(Refs(h)') = Cardinality(Refs(h)) - 1
  BY <1>1, <1>3, FS_RemoveElement
<1>5. Cardinality(Refs(h)') \in Nat
  BY <1>4, FS_CardinalityType
<1>6. Cardinality(Refs(h)') = 0 => Refs(h)' = {}
  BY <1>4, FS_EmptySet
<1> QED BY <1>1, <1>2, <1>3, <1>4, <1>5, <1>6, SizeAssumption

----------------------------------------------------------------------------
(* The counts, the mutexes and the headers about to be deleted. *)

Counting == Mutex /\ Count /\ Doomed

\* A thread on its way to change the count of h refers to h, or will delete it.
LEMMA WorkerRefers ==
    ASSUME TypeOK, Client, NEW t \in Threads, Sound(hdr[t]),
           pc[t] \in Incs \cup Decs
    PROVE  Refs(hdr[t]) # {}
<1>1. self[t] \in Vars /\ hdr[t] \in Headers
  BY DEF Client, Frame, Incs, Decs
<1>2. CASE pc[t] \in Decs
  BY <1>1, <1>2 DEF Client, Frame, Refs
<1>3. CASE pc[t] \in Incs
  <2>1. src[t] \in Vars /\ src[t] # self[t]
    BY <1>3 DEF Client, Frame, Sound
  <2> QED BY <1>3, <2>1 DEF Client, Frame, Refs
<1> QED BY <1>2, <1>3

\* Steps that change no count, no mutex, no reference to a sound header, and
\* take no thread into a mutex or to a deletion.
LEMMA CountingQuiet ==
    ASSUME Counting, UNCHANGED <<state, ref_count, mtx>>, tainted \subseteq tainted',
           \A h \in Headers : h \notin tainted' => Refs(h)' = Refs(h),
           \A u \in Threads : pc'[u] \in Critical \cup {"delete"} =>
              pc'[u] = pc[u] /\ hdr'[u] = hdr[u] /\ tmp'[u] = tmp[u]
    PROVE  Counting'
<1>1. \A h : Sound(h)' => Sound(h) /\ Refs(h)' = Refs(h)
  BY DEF Sound
<1>2. Mutex'
  BY <1>1 DEF Counting, Mutex
<1>3. Count'
  BY <1>1 DEF Counting, Count
<1>4. ASSUME NEW t \in Threads, NEW g, g = hdr'[t], pc'[t] = "delete", Sound(g)'
      PROVE  /\ state'[g] = "live" /\ Refs(g)' = {}
             /\ \A u \in Threads \ {t} : pc'[u] = "delete" => hdr'[u] # g
  <2>1. pc[t] = "delete" /\ hdr[t] = g
    BY <1>4
  <2>2. Sound(g) /\ Refs(g)' = Refs(g)
    BY <1>1, <1>4
  <2>3. /\ state[g] = "live" /\ Refs(g) = {}
        /\ \A u \in Threads \ {t} : pc[u] = "delete" => hdr[u] # g
    BY <2>1, <2>2 DEF Counting, Doomed
  <2> QED BY <2>2, <2>3
<1>5. Doomed'
  BY <1>4 DEF Doomed, Sound, Refs
<1> QED BY <1>2, <1>3, <1>5 DEF Counting

\* Starting an operation keeps the counts exact.
LEMMA CountingStart ==
    ASSUME TypeOK, Client, Counting, NEW t \in Threads, Start(t)
    PROVE  Counting'
<1>a. LocalOK
  BY DEF TypeOK, LocalOK
<1>1. ASSUME NEW v \in Vars, NEW h \in Headers, NEW a \in Addrs, New(t, v, h, a)
      PROVE  Counting'
  <2>1. /\ header[v] = NoHeader /\ state[h] = "unborn"
        /\ header' = [header EXCEPT ![v] = h]
        /\ UNCHANGED <<mtx, pc, hdr, tmp, tainted>>
        /\ state'[h] = "live" /\ ref_count'[h] = 1
        /\ \A g \in Headers \ {h} : state'[g] = state[g] /\ ref_count'[g] = ref_count[g]
    BY <1>1 DEF New, local, ghost, TypeOK
  <2>2. /\ Refs(h)' = Refs(h) \cup {v}
        /\ \A g \in Headers \ {h} : Refs(g)' = Refs(g)
    BY <2>1, RefAdded DEF TypeOK
  <2>3. Sound(h) => Refs(h) = {}
    BY <2>1 DEF Counting, Count
  <2>4. \A u \in Threads : Sound(hdr[u]) /\ pc[u] \in Critical \cup {"delete"} => hdr[u] # h
    <3> SUFFICES ASSUME NEW u \in Threads, Sound(hdr[u]),
                        pc[u] \in Critical \cup {"delete"}, hdr[u] = h
                 PROVE  FALSE
      OBVIOUS
    <3>1. CASE pc[u] = "delete"
      BY <2>1, <3>1 DEF Counting, Doomed
    <3>2. CASE pc[u] \in Critical
      BY <2>3, <3>2, WorkerRefers DEF Critical, Incs, Decs
    <3> QED BY <3>1, <3>2
  <2>5. \A g : Sound(g)' <=> Sound(g)
    BY <2>1 DEF Sound
  <2>6. Sound(h) => Cardinality(Refs(h)') = 1
    BY <2>2, <2>3, FS_Singleton
  <2>7. Mutex'
    BY <2>1, <2>4, <2>5 DEF Counting, Mutex, Sound
  <2>8. Count'
    BY <2>1, <2>2, <2>5, <2>6 DEF Counting, Count
  <2>9. Doomed'
    <3> SUFFICES ASSUME NEW u \in Threads, pc[u] = "delete", Sound(hdr[u])
                 PROVE  /\ state'[hdr[u]] = "live" /\ Refs(hdr[u])' = {}
                        /\ \A w \in Threads \ {u} : pc[w] = "delete" => hdr[w] # hdr[u]
      BY <2>1, <2>5 DEF Doomed, Sound
    <3>1. hdr[u] \in Headers \ {h}
      BY <2>4 DEF Sound
    <3> QED BY <2>1, <2>2, <3>1 DEF Counting, Doomed
  <2> QED BY <2>7, <2>8, <2>9 DEF Counting
<1>2. ASSUME NEW at \in {"inc_lock", "dec_lock", "rw_unlock"}, NEW v, NEW s, NEW h,
             Enter(t, at, v, s, h),
             UNCHANGED <<state, ref_count, mtx, header>>, tainted \subseteq tainted'
      PROVE  Counting'
  <2>1. \A u \in Threads : pc'[u] \in Critical \cup {"delete"} =>
          pc'[u] = pc[u] /\ hdr'[u] = hdr[u] /\ tmp'[u] = tmp[u]
    BY <1>2, <1>a, EnterOthers DEF Critical
  <2>2. \A g \in Headers : Refs(g)' = Refs(g)
    BY <1>2 DEF Refs
  <2> QED BY <1>2, <2>1, <2>2, CountingQuiet
<1>3. ASSUME NEW v \in Vars, NEW s \in Vars, NEW k \in Kinds, Copy(t, v, s, k)
      PROVE  Counting'
  BY <1>2, <1>3 DEF Copy, heap, ghost
<1>4. ASSUME NEW v \in Vars, NEW s \in Vars, GetArc(t, v, s)
      PROVE  Counting'
  <2>1. /\ header' = [header EXCEPT ![v] = header[s]]
        /\ header[v] = NoHeader
        /\ tainted' = tainted \cup {header[s]}
        /\ UNCHANGED <<state, ref_count, mtx, pc, hdr, tmp>>
    BY <1>4 DEF GetArc, heap, local
  <2>2. \A h \in Headers : h \notin tainted' => Refs(h)' = Refs(h)
    BY <2>1, SentinelAssumption DEF Refs, TypeOK
  <2> QED BY <2>1, <2>2, CountingQuiet
<1>5. ASSUME NEW v \in Vars, Drop(t, v)
      PROVE  Counting'
  BY <1>2, <1>5 DEF Drop, heap, ghost
<1>6. ASSUME NEW v \in Vars, NEW s \in Vars, Assign(t, v, s)
      PROVE  Counting'
  BY <1>2, <1>6 DEF Assign, heap
<1> QED BY <1>1, <1>3, <1>4, <1>5, <1>6 DEF Start

\* A thread that takes the mutex of h loads the current count of h.
LEMMA CountingLock ==
    ASSUME TypeOK, Client, Counting, NEW t \in Threads, NEW at \in Critical,
           Live(hdr[t]), Lock(t, at),
           UNCHANGED <<state, ref_count, header, hdr, tainted>>
    PROVE  Counting'
<1>1. /\ pc'[t] = at /\ tmp'[t] = ref_count[hdr[t]] /\ mtx'[hdr[t]] = t
      /\ mtx[hdr[t]] = NoThread
      /\ \A h \in Headers \ {hdr[t]} : mtx'[h] = mtx[h]
      /\ \A u \in Threads \ {t} : pc'[u] = pc[u] /\ tmp'[u] = tmp[u]
  BY DEF Lock, Live, TypeOK
<1>2. Mutex'
  <2> SUFFICES ASSUME NEW u \in Threads, pc'[u] \in Critical, Sound(hdr[u])
               PROVE  mtx'[hdr[u]] = u /\ tmp'[u] = ref_count[hdr[u]]
    BY DEF Mutex, Sound
  <2>1. CASE u = t
    BY <1>1, <2>1
  <2>2. CASE u # t
    <3>1. mtx[hdr[u]] = u /\ tmp[u] = ref_count[hdr[u]]
      BY <1>1, <2>2 DEF Counting, Mutex
    <3>2. hdr[u] # hdr[t]
      BY <1>1, <3>1, SentinelAssumption
    <3> QED BY <1>1, <2>2, <3>1, <3>2 DEF Sound
  <2> QED BY <2>1, <2>2
<1>3. Count'
  BY DEF Counting, Count, Sound, Refs
<1>4. Doomed'
  <2>1. at # "delete"
    BY DEF Critical
  <2> QED BY <1>1, <2>1 DEF Counting, Doomed, Sound, Refs
<1> QED BY <1>2, <1>3, <1>4 DEF Counting

\* A thread inside the mutex of h stores n, changes the references of h
\* accordingly and lets the mutex go.
LEMMA CountingStore ==
    ASSUME TypeOK, Client, Counting, NEW t \in Threads, NEW h \in Headers, NEW n,
           pc[t] \in Critical, hdr[t] = h, state[h] = "live",
           \E o : Unlock(t, h, o),
           ref_count' = [ref_count EXCEPT ![h] = n],
           Sound(h) => n = Cardinality(Refs(h)'),
           \A g \in Headers \ {h} : Refs(g)' = Refs(g),
           UNCHANGED <<state, tainted>>,
           pc'[t] \notin Critical,
           pc'[t] = "delete" => hdr'[t] = h /\ (Sound(h) => Refs(h)' = {}),
           \A u \in Threads \ {t} : pc'[u] = pc[u] /\ hdr'[u] = hdr[u] /\ tmp'[u] = tmp[u]
    PROVE  Counting'
<1>1. Sound(h) => mtx[h] = t
  BY DEF Counting, Mutex
<1>2. \A g \in Headers \ {h} : mtx'[g] = mtx[g] /\ ref_count'[g] = ref_count[g]
  BY DEF Unlock, TypeOK
<1>3. ref_count'[h] = n
  BY DEF TypeOK
<1>4. \A g : Sound(g)' <=> Sound(g)
  BY DEF Sound
<1>5. Sound(h) => \A u \in Threads \ {t} : pc[u] \in Critical => hdr[u] # h
  BY <1>1 DEF Counting, Mutex
<1>6. Sound(h) => Refs(h) # {}
  BY WorkerRefers DEF Critical, Incs, Decs
<1>7. Sound(h) => \A u \in Threads : pc[u] = "delete" => hdr[u] # h
  BY <1>6 DEF Counting, Doomed
<1>8. Mutex'
  <2> SUFFICES ASSUME NEW u \in Threads, NEW g, g = hdr'[u], pc'[u] \in Critical, Sound(g)
               PROVE  mtx'[g] = u /\ tmp'[u] = ref_count'[g]
    BY <1>4 DEF Mutex, Sound
  <2>1. u # t /\ g = hdr[u] /\ g # h /\ g \in Headers
    BY <1>5 DEF Sound
  <2> QED BY <1>2, <2>1 DEF Counting, Mutex
<1>9. Count'
  BY <1>2, <1>3, <1>4 DEF Counting, Count
<1>10. ASSUME NEW u \in Threads, NEW g, g = hdr'[u], pc'[u] = "delete", Sound(g)
       PROVE  /\ state[g] = "live" /\ Refs(g)' = {}
              /\ \A w \in Threads \ {u} : pc'[w] = "delete" => hdr'[w] # g
  <2>1. CASE u = t
    BY <1>10, <1>7, <2>1
  <2>2. CASE u # t
    <3>1. pc[u] = "delete" /\ hdr[u] = g /\ g # h /\ g \in Headers
      BY <1>10, <1>7, <2>2 DEF Sound
    <3>2. state[g] = "live" /\ Refs(g) = {}
      BY <1>10, <3>1 DEF Counting, Doomed
    <3>3. \A w \in Threads \ {u} : pc[w] = "delete" => hdr[w] # g
      BY <1>10, <3>1 DEF Counting, Doomed
    <3> QED BY <3>1, <3>2, <3>3
  <2> QED BY <2>1, <2>2
<1>11. Doomed'
  BY <1>10, <1>4 DEF Doomed, Sound, Refs
<1> QED BY <1>8, <1>9, <1>11 DEF Counting

\* Every step keeps the counts exact.
LEMMA CountingStep ==
    ASSUME TypeOK, Client, Counting, NEW t \in Threads, Step(t), ~stray_hit'
    PROVE  Counting'
<1>a. LocalOK
  BY DEF TypeOK, LocalOK
<1>b. Frame(t)
  BY DEF Client
<1>1. CASE IncLock(t)
  <2>1. "inc_store" \in Critical
    BY DEF Critical
  <2> QED BY <1>1, <2>1, CountingLock DEF IncLock, ghost
<1>2. CASE DecLock(t)
  <2>1. "dec_store" \in Critical
    BY DEF Critical
  <2> QED BY <1>2, <2>1, CountingLock DEF DecLock, ghost
<1>3. CASE IncStore(t)
  <2>0. PICK h \in Headers : h = hdr[t]
    BY <1>3 DEF IncStore, Live
  <2> DEFINE n == Incremented(tmp[t])
  <2>1. /\ self[t] \in Vars /\ h \in Headers /\ header[self[t]] = NoHeader
        /\ state[h] = "live" /\ pc[t] \in Critical
    BY <1>3, <1>b, <2>0 DEF IncStore, Live, Frame, Incs, Critical
  <2>2. header' = [header EXCEPT ![self[t]] = h]
    BY <1>3, <2>0 DEF IncStore
  <2>3. /\ Cardinality(Refs(h)') = Cardinality(Refs(h)) + 1
        /\ Cardinality(Refs(h)) < SizeMax
        /\ \A g \in Headers \ {h} : Refs(g)' = Refs(g)
    BY <2>1, <2>2, RefAdded DEF TypeOK
  <2>4. Sound(h) => tmp[t] = Cardinality(Refs(h))
    BY <2>0, <2>1 DEF Counting, Mutex, Count
  <2>5. Sound(h) => n = Cardinality(Refs(h)')
    BY <2>3, <2>4, RefsCountable, SizeAssumption DEF Incremented
  <2>6. \/ Enter(t, "idle", NoVar, NoVar, NoHeader)
        \/ Enter(t, "rw_lock", self[t], src[t], hdr[t])
    BY <1>3 DEF IncStore, Leave, Proceed
  <2>7. pc'[t] \in {"idle", "rw_lock"} /\ \A u \in Threads \ {t} :
          pc'[u] = pc[u] /\ hdr'[u] = hdr[u] /\ tmp'[u] = tmp[u]
    BY <2>6, <1>a, EnterOthers
  <2>8. /\ ref_count' = [ref_count EXCEPT ![h] = n] /\ UNCHANGED <<state, tainted>>
        /\ \E o : Unlock(t, h, o)
    BY <1>3, <2>0 DEF IncStore, ghost
  <2>9. pc'[t] \notin Critical /\ pc'[t] # "delete"
    BY <2>7 DEF Critical
  <2> HIDE DEF n
  <2> QED BY <2>0, <2>1, <2>3, <2>5, <2>7, <2>8, <2>9, CountingStore
<1>4. CASE DecStore(t)
  <2>0. PICK h \in Headers : h = hdr[t]
    BY <1>4 DEF DecStore, Live
  <2> DEFINE n == Decremented(tmp[t])
  <2>1. /\ self[t] \in Vars /\ h \in Headers /\ header[self[t]] = h
        /\ state[h] = "live" /\ pc[t] \in Critical
    BY <1>4, <1>b, <2>0 DEF DecStore, Live, Frame, Decs, Critical
  <2>2. header' = [header EXCEPT ![self[t]] = NoHeader]
    BY <1>4, <2>0 DEF DecStore
  <2>3. /\ Cardinality(Refs(h)') = Cardinality(Refs(h)) - 1
        /\ Cardinality(Refs(h)) \in 1..SizeMax
        /\ Cardinality(Refs(h)) = 1 => Refs(h)' = {}
        /\ \A g \in Headers \ {h} : Refs(g)' = Refs(g)
    BY <2>1, <2>2, RefRemoved DEF TypeOK
  <2>4. Sound(h) => tmp[t] = Cardinality(Refs(h))
    BY <2>0, <2>1 DEF Counting, Mutex, Count
  <2>5. Sound(h) => n = Cardinality(Refs(h)') /\ (n = 0 => Refs(h)' = {})
    BY <2>3, <2>4, SizeAssumption DEF Decremented
  <2>6. IF n = 0 THEN Enter(t, "delete", self[t], src[t], hdr[t]) ELSE Return(t)
    BY <1>4 DEF DecStore, Proceed
  <2>7. /\ pc'[t] \in {"idle", "inc_lock", "delete"}
        /\ pc'[t] = "delete" => n = 0 /\ hdr'[t] = h
        /\ \A u \in Threads \ {t} :
             pc'[u] = pc[u] /\ hdr'[u] = hdr[u] /\ tmp'[u] = tmp[u]
    <3>1. CASE n = 0
      <4>1. Enter(t, "delete", self[t], src[t], hdr[t])
        BY <2>6, <3>1
      <4> QED BY <1>a, <2>0, <3>1, <4>1, EnterOthers
    <3>2. CASE n # 0
      <4>1. Return(t)
        BY <2>6, <3>2
      <4> QED BY <1>a, <4>1, ReturnEffect, EnterOthers
    <3> QED BY <3>1, <3>2
  <2>8. /\ ref_count' = [ref_count EXCEPT ![h] = n] /\ UNCHANGED <<state, tainted>>
        /\ \E o : Unlock(t, h, o)
    BY <1>4, <2>0 DEF DecStore, ghost
  <2>9. pc'[t] \notin Critical /\ (pc'[t] = "delete" => hdr'[t] = h /\ (Sound(h) => Refs(h)' = {}))
    BY <2>5, <2>7 DEF Critical
  <2> HIDE DEF n
  <2> QED BY <2>0, <2>1, <2>3, <2>5, <2>7, <2>8, <2>9, CountingStore
<1>5. ASSUME UNCHANGED <<state, ref_count, mtx, header, tainted>>,
             pc'[t] \notin Critical \cup {"delete"},
             \A u \in Threads \ {t} :
                pc'[u] = pc[u] /\ hdr'[u] = hdr[u] /\ tmp'[u] = tmp[u]
      PROVE  Counting'
  <2>1. \A g \in Headers : Refs(g)' = Refs(g)
    BY <1>5 DEF Refs
  <2> QED BY <1>5, <2>1, CountingQuiet
<1>6. CASE RwLock(t)
  <2>1. Enter(t, "idle", NoVar, NoVar, NoHeader)
        /\ UNCHANGED <<state, ref_count, mtx, header, tainted>>
    BY <1>6 DEF RwLock, Leave, ghost
  <2> QED BY <1>5, <1>a, <2>1, EnterOthers DEF Critical
<1>7. CASE RwUnlock(t)
  <2>1. Enter(t, "dec_lock", self[t], src[t], hdr[t])
        /\ UNCHANGED <<state, ref_count, mtx, header, tainted>>
    BY <1>7 DEF RwUnlock, Proceed, ghost
  <2> QED BY <1>5, <1>a, <2>1, EnterOthers DEF Critical
<1>8. CASE Delete(t)
  <2> DEFINE h == hdr[t]
  <2>1. /\ Enter(t, "stray", self[t], src[t], h)
        /\ UNCHANGED <<ref_count, mtx, header, tainted>>
        /\ state' = [state EXCEPT ![h] = "freed"]
        /\ pc[t] = "delete" /\ h \in Headers
    BY <1>8 DEF Delete, Proceed, Live, ghost
  <2>2. /\ pc'[t] = "stray"
        /\ \A u \in Threads \ {t} : pc'[u] = pc[u] /\ hdr'[u] = hdr[u] /\ tmp'[u] = tmp[u]
    BY <1>a, <2>1, EnterOthers
  <2>3. state'[h] = "freed" /\ \A g \in Headers \ {h} : state'[g] = state[g]
    BY <2>1 DEF TypeOK
  <2>4. \A g : (Sound(g)' <=> Sound(g)) /\ Refs(g)' = Refs(g)
    BY <2>1 DEF Sound, Refs
  <2>5. Sound(h) => Refs(h) = {}
    BY <2>1 DEF Counting, Doomed
  <2>6. Sound(h) => \A u \in Threads \ {t} : pc[u] = "delete" => hdr[u] # h
    BY <2>1 DEF Counting, Doomed
  <2>7. Mutex'
    BY <2>1, <2>2, <2>4 DEF Counting, Mutex, Critical, Sound
  <2>8. Count'
    BY <2>1, <2>3, <2>4, <2>5 DEF Counting, Count
  <2>9. ASSUME NEW u \in Threads, NEW g, g = hdr'[u], pc'[u] = "delete", Sound(g)
        PROVE  /\ state'[g] = "live" /\ Refs(g) = {}
               /\ \A w \in Threads \ {u} : pc'[w] = "delete" => hdr'[w] # g
    <3>1. u # t /\ pc[u] = "delete" /\ hdr[u] = g /\ g \in Headers
      BY <2>9, <2>2 DEF Sound
    <3>2. g # h
      BY <3>1, <2>6, <2>9
    <3>3. /\ state[g] = "live" /\ Refs(g) = {}
          /\ \A w \in Threads \ {u} : pc[w] = "delete" => hdr[w] # g
      BY <3>1, <2>9 DEF Counting, Doomed
    <3> QED BY <2>2, <2>3, <3>1, <3>2, <3>3
  <2>10. Doomed'
    BY <2>9, <2>4 DEF Doomed, Sound, Refs
  <2> QED BY <2>7, <2>8, <2>10 DEF Counting
<1>9. CASE Stray(t)
  <2>1. UNCHANGED <<state, ref_count, mtx, header, tainted>> /\ Return(t)
    BY <1>9 DEF Stray
  <2>2. /\ pc'[t] \in {"idle", "inc_lock"}
        /\ \A u \in Threads \ {t} :
             pc'[u] = pc[u] /\ hdr'[u] = hdr[u] /\ tmp'[u] = tmp[u]
    BY <1>a, <2>1, ReturnEffect, EnterOthers
  <2> QED BY <1>5, <2>1, <2>2 DEF Critical
<1>10. CASE TouchFreed(t)
  <2>1. /\ pc'[t] = "undefined" /\ UNCHANGED <<hdr, tmp>>
        /\ UNCHANGED <<state, ref_count, mtx, header, tainted>>
        /\ \A u \in Threads \ {t} : pc'[u] = pc[u]
    BY <1>10 DEF TouchFreed, TypeOK, heap, local, ghost
  <2> QED BY <1>5, <2>1 DEF Critical
<1> QED BY <1>1, <1>2, <1>3, <1>4, <1>6, <1>7, <1>8, <1>9, <1>10 DEF Step

----------------------------------------------------------------------------
(* The theorems. *)

\* As long as nothing has interfered, no thread meets a freed header.
LEMMA FreedStep ==
    ASSUME TypeOK, Client, ~stray_hit => Counting, FreedOnlyWhenTainted,
           NEW t \in Threads, Start(t) \/ Step(t)
    PROVE  FreedOnlyWhenTainted'
<1> SUFFICES ASSUME ~stray_hit', tainted' = {}, NEW u \in Threads, pc'[u] = "undefined"
             PROVE  FALSE
  BY DEF FreedOnlyWhenTainted
<1>a. LocalOK
  BY DEF TypeOK, LocalOK
<1>1. ~stray_hit /\ tainted = {}
  BY DEF Start, New, Copy, GetArc, Drop, Assign, Step, IncLock, IncStore, RwLock,
         RwUnlock, DecLock, DecStore, Delete, Stray, TouchFreed, ghost
<1>2. pc[u] # "undefined"
  BY <1>1 DEF FreedOnlyWhenTainted
<1>3. ASSUME NEW at, pc' = [pc EXCEPT ![t] = at], at # "undefined" PROVE FALSE
  BY <1>2, <1>3 DEF TypeOK
<1>4. CASE Start(t)
  <2>1. \/ UNCHANGED pc \/ pc' = [pc EXCEPT ![t] = "inc_lock"]
        \/ pc' = [pc EXCEPT ![t] = "rw_unlock"] \/ pc' = [pc EXCEPT ![t] = "dec_lock"]
    BY <1>4 DEF Start, New, Copy, GetArc, Drop, Assign, Enter, local
  <2> QED BY <1>2, <1>3, <2>1
<1>5. CASE Step(t) /\ ~TouchFreed(t)
  <2>1. CASE IncLock(t) \/ DecLock(t)
    BY <1>3, <2>1 DEF IncLock, DecLock, Lock
  <2>2. CASE IncStore(t) \/ RwLock(t)
    BY <1>3, <2>2 DEF IncStore, RwLock, Leave, Proceed, Enter
  <2>3. CASE RwUnlock(t) \/ Delete(t)
    BY <1>3, <2>3 DEF RwUnlock, Delete, Proceed, Enter
  <2>4. CASE DecStore(t) \/ Stray(t)
    BY <1>3, <2>4 DEF DecStore, Stray, Return, Leave, Proceed, Enter
  <2> QED BY <1>5, <2>1, <2>2, <2>3, <2>4 DEF Step
<1>6. CASE TouchFreed(t)
  <2> DEFINE h == hdr[t]
  <2>1. h \in Headers /\ Sound(h) /\ state[h] # "live"
    BY <1>1, <1>6 DEF TouchFreed, Client, Frame, Incs, Decs, Sound, Live
  <2>2. Refs(h) = {}
    BY <1>1, <2>1 DEF Counting, Count
  <2>3. pc[t] = "delete"
    BY <1>6, <2>1, <2>2, WorkerRefers DEF TouchFreed
  <2> QED BY <1>1, <2>1, <2>3 DEF Counting, Doomed
<1> QED BY <1>4, <1>5, <1>6

\* The inductive invariant.
THEOREM Invariance == Spec => []IInv
<1>1. Init => IInv
  <2> SUFFICES ASSUME Init PROVE IInv
    OBVIOUS
  <2>1. TypeOK
    BY TypeInit
  <2>2. Client
    BY SentinelAssumption DEF Init, Client, Exclusive, Frame, Incs, Decs
  <2>3. Sharing
    BY SentinelAssumption
    DEF Init, Sharing, Mutex, Count, Doomed, Critical, Refs
  <2>4. FreedOnlyWhenTainted
    BY DEF Init, FreedOnlyWhenTainted
  <2> QED BY <2>1, <2>2, <2>3, <2>4 DEF IInv
<1>2. IInv /\ [Next]_vars => IInv'
  <2> SUFFICES ASSUME IInv, [Next]_vars PROVE IInv'
    OBVIOUS
  <2> USE DEF IInv
  <2>1. TypeOK'
    BY TypeStep
  <2>2. ASSUME UNCHANGED vars PROVE IInv'
    <3>1. UNCHANGED <<state, ref_count, mtx, header, pc, self, src, hdr, tmp, tainted, stray_hit>>
      BY <2>2 DEF vars, heap, local, ghost
    <3>2. Client'
      BY <3>1 DEF Client, Exclusive, Frame
    <3>3. Sharing'
      BY <3>1 DEF Sharing, Mutex, Count, Doomed, Sound, Refs
    <3>4. FreedOnlyWhenTainted'
      BY <3>1 DEF FreedOnlyWhenTainted
    <3> QED BY <2>1, <3>2, <3>3, <3>4
  <2>3. ASSUME NEW t \in Threads, Start(t) \/ Step(t) PROVE IInv'
    <3>1. Client'
      BY <2>3, ClientStart, ClientStep
    <3>2. ~stray_hit' => ~stray_hit
      BY <2>3 DEF Start, New, Copy, GetArc, Drop, Assign, Step, IncLock, IncStore, RwLock,
                  RwUnlock, DecLock, DecStore, Delete, Stray, TouchFreed, ghost
    <3>3. ~stray_hit => Counting
      BY DEF Sharing, Counting
    <3>4. ~stray_hit' => Counting'
      BY <2>3, <3>2, <3>3, CountingStart, CountingStep
    <3>5. FreedOnlyWhenTainted'
      BY <2>3, <3>3, FreedStep
    <3> QED BY <2>1, <3>1, <3>4, <3>5 DEF Sharing, Counting
  <2> QED BY <2>2, <2>3 DEF Next, Quiescent
<1> QED BY <1>1, <1>2, PTL DEF Spec

\* The count of every live header equals the number of Arcs and guards on it.
THEOREM CountsAreExact == Spec => []CountExact
<1>1. IInv => CountExact
  BY DEF IInv, Sharing, Count, Sound, CountExact
<1> QED BY <1>1, Invariance, PTL

\* No Arc and no guard points to a freed header.
THEOREM NothingDangles == Spec => []NoDangling
<1>1. IInv => NoDangling
  <2> SUFFICES ASSUME IInv, ~stray_hit, NEW v \in Vars,
                      header[v] \notin tainted \cup {NoHeader}
               PROVE  Live(header[v])
    BY DEF NoDangling
  <2>1. Sound(header[v]) /\ v \in Refs(header[v])
    BY DEF IInv, TypeOK, Sound, Refs
  <2> QED BY <2>1 DEF IInv, Sharing, Count, Sound, Live
<1> QED BY <1>1, Invariance, PTL

\* A freed header is used only after get_arc, a = a or a stray unlock.
THEOREM FreedHeadersUntouched == Spec => []FreedOnlyWhenTainted
<1>1. IInv => FreedOnlyWhenTainted
  BY DEF IInv
<1> QED BY <1>1, Invariance, PTL

----------------------------------------------------------------------------
(* Refinement. *)

\* The program uses neither get_arc nor a = a, and unlocking a mutex somebody
\* else holds has no effect.
Contract == ~SelfAssign /\ ~GetsArc /\ "released" \notin StrayOutcomes
Untouched == tainted = {} /\ ~stray_hit

\* Under the contract nothing becomes tainted and no trailing unlock hits.
LEMMA UntouchedStep ==
    ASSUME Contract, Untouched, [Next]_vars
    PROVE  Untouched'
<1>1. CASE UNCHANGED vars
  BY <1>1 DEF Untouched, vars, ghost
<1>2. ASSUME NEW t \in Threads, Start(t) PROVE Untouched'
  BY <1>2 DEF Contract, Untouched, Start, New, Copy, GetArc, Drop, Assign, ghost
<1>3. ASSUME NEW t \in Threads, Step(t) PROVE Untouched'
  BY <1>3 DEF Contract, Untouched, Step, IncLock, IncStore, RwLock, RwUnlock,
              DecLock, DecStore, Delete, Stray, TouchFreed, ghost
<1> QED BY <1>1, <1>2, <1>3 DEF Next, Quiescent

\* Every step of Arc is a step of shared ownership, or invisible there.
LEMMA OwnershipStep ==
    ASSUME IInv, Untouched, Contract, [Next]_vars
    PROVE  [Ownership!Next]_(Ownership!vars)
<1> USE DEF Ownership!vars
<1>a. TypeOK /\ Client /\ Counting /\ tainted = {}
  BY DEF IInv, Sharing, Counting, Untouched
<1>b. \A h : Ownership!Owners(h) = Refs(h)
  BY DEF Ownership!Owners, Refs
<1>1. CASE UNCHANGED vars
  BY <1>1 DEF vars, heap
<1>2. ASSUME NEW t \in Threads, Start(t) PROVE [Ownership!Next]_(Ownership!vars)
  <2>1. ASSUME NEW v \in Vars, NEW h \in Headers, NEW a \in Addrs, New(t, v, h, a)
        PROVE  Ownership!Create(v, h)
    BY <2>1 DEF New, Ownership!Create
  <2>2. (\A v \in Vars, h \in Headers, a \in Addrs : ~New(t, v, h, a))
          => UNCHANGED <<header, state>>
    BY <1>2 DEF Start, Copy, GetArc, Drop, Assign, heap, Contract
  <2> QED BY <2>1, <2>2 DEF Ownership!Next
<1>3. ASSUME NEW t \in Threads, Step(t) PROVE [Ownership!Next]_(Ownership!vars)
  <2>1. CASE IncStore(t)
    <3>1. self[t] \in Vars /\ hdr[t] \in Headers /\ header[self[t]] = NoHeader
      BY <2>1, <1>a DEF IncStore, Client, Frame, Incs
    <3>2. Ownership!Owners(hdr[t]) # {}
      BY <2>1, <1>a, <1>b, <3>1, WorkerRefers DEF IncStore, Incs, Sound
    <3>3. Ownership!Share(self[t], hdr[t])
      BY <2>1, <3>1, <3>2 DEF IncStore, Ownership!Share
    <3> QED BY <3>1, <3>3 DEF Ownership!Next
  <2>2. CASE DecStore(t)
    <3>1. self[t] \in Vars /\ header[self[t]] # NoHeader
      BY <2>2, <1>a, SentinelAssumption DEF DecStore, Client, Frame, Decs
    <3>2. Ownership!Release(self[t])
      BY <2>2, <3>1 DEF DecStore, Ownership!Release
    <3> QED BY <3>1, <3>2 DEF Ownership!Next
  <2>3. CASE Delete(t)
    <3>1. hdr[t] \in Headers /\ state[hdr[t]] = "live" /\ pc[t] = "delete"
      BY <2>3 DEF Delete, Live
    <3>2. Ownership!Owners(hdr[t]) = {}
      BY <1>a, <1>b, <3>1 DEF Counting, Doomed, Sound
    <3>3. Ownership!Destroy(hdr[t])
      BY <2>3, <3>1, <3>2 DEF Delete, Ownership!Destroy
    <3> QED BY <3>1, <3>3 DEF Ownership!Next
  <2>4. CASE ~IncStore(t) /\ ~DecStore(t) /\ ~Delete(t)
    BY <1>3, <2>4 DEF Step, IncLock, RwLock, RwUnlock, DecLock, Stray, TouchFreed, heap
  <2> QED BY <2>1, <2>2, <2>3, <2>4
<1> QED BY <1>1, <1>2, <1>3 DEF Next, Quiescent

\* The locked load-and-store counting of rc.hpp is shared ownership: an object
\* is shared only by an owner and destroyed once, after its last owner is gone.
THEOREM Refinement == ASSUME Contract PROVE Spec => Ownership!Safety
<1>1. Init => Untouched /\ Ownership!Init
  BY DEF Init, Untouched, Ownership!Init
<1>2. Untouched /\ [Next]_vars => Untouched'
  BY UntouchedStep
<1>3. IInv /\ Untouched /\ [Next]_vars => [Ownership!Next]_(Ownership!vars)
  BY OwnershipStep
<1> QED BY <1>1, <1>2, <1>3, Invariance, PTL DEF Spec, Ownership!Safety

----------------------------------------------------------------------------
(* The guards: the reader-writer lock of a header is held as often as     *)
(* there are guards, by the invariant that the variables a thread works on *)
(* are its own.                                                            *)

\* The guards that HoldersAreGuards counts.
Waiting == Critical \cup {"rw_lock", "dec_lock"}
Holds(v) == kind[v] # "arc" /\ \A t \in Threads : self[t] = v => pc[t] \notin Waiting
Holders(h) == {v \in Refs(h) : Holds(v)}

\* Locking and unlocking is done by guards; a new header is unlocked.
Locking == \A t \in Threads : pc[t] \in {"rw_lock", "rw_unlock"} => kind[self[t]] # "arc"
Unlocked == \A h \in Headers : state[h] = "unborn" => rwlock[h] = 0
GInv == Locking /\ Unlocked /\ HoldersAreGuards

\* A step of t that writes no variable but x, and works on x alone.
Touches(t, x) ==
    /\ \A u \in Threads \ {t} : self'[u] = self[u] /\ pc'[u] = pc[u]
    /\ self[t] \in {x, NoVar} /\ self'[t] \in {x, NoVar}
    /\ \A v \in Vars \ {x} : kind'[v] = kind[v] /\ header'[v] = header[v]

----------------------------------------------------------------------------
(* Guards that come and go. *)

\* HoldersAreGuards by the name of its set.
LEMMA GuardsCounted ==
    HoldersAreGuards <=>
        (~stray_hit => \A h \in Headers \ tainted :
            state[h] = "live" => rwlock[h] = Cardinality(Holders(h)))
BY DEF HoldersAreGuards, Holders, Holds, Waiting

\* The guards of a header are finitely many.
LEMMA HoldersFinite ==
    ASSUME NEW h
    PROVE  IsFiniteSet(Holders(h)) /\ Cardinality(Holders(h)) \in Nat
<1>1. Holders(h) \subseteq Vars
  BY DEF Holders, Refs
<1> QED BY <1>1, VarsAssumption, FS_Subset, FS_CardinalityType

\* Every guard but x holds what it held.
LEMMA OthersHold ==
    ASSUME NEW t \in Threads, NEW x \in Vars, Touches(t, x), NEW h
    PROVE  Holders(h)' \ {x} = Holders(h) \ {x}
<1>1. ASSUME NEW v \in Vars \ {x} PROVE Holds(v)' <=> Holds(v)
  <2>1. self[t] # v /\ self'[t] # v
    BY SentinelAssumption DEF Touches
  <2>2. \A u \in Threads : self'[u] = v => self[u] = v /\ pc'[u] = pc[u]
    BY <2>1 DEF Touches
  <2>3. \A u \in Threads : self[u] = v => self'[u] = v /\ pc'[u] = pc[u]
    BY <2>1 DEF Touches
  <2>4. kind'[v] = kind[v]
    BY DEF Touches
  <2> QED BY <2>2, <2>3, <2>4 DEF Holds, Waiting
<1>2. \A v \in Vars \ {x} : v \in Refs(h)' <=> v \in Refs(h)
  BY DEF Touches, Refs
<1>3. \A v \in Vars \ {x} : v \in Holders(h)' <=> v \in Holders(h)
  BY <1>1, <1>2 DEF Holders
<1>4. Holders(h) \subseteq Vars /\ Holders(h)' \subseteq Vars
  BY DEF Holders, Refs
<1> QED BY <1>3, <1>4

\* All guards do if x is none before and after, or one of h before and after.
LEMMA AllHold ==
    ASSUME NEW t \in Threads, NEW x \in Vars, Touches(t, x), NEW h,
           x \in Holders(h)' <=> x \in Holders(h)
    PROVE  Holders(h)' = Holders(h)
BY OthersHold

\* A guard gets its lock, or gives it back.
LEMMA HolderChanges ==
    ASSUME NEW t \in Threads, NEW x \in Vars, Touches(t, x), NEW h
    PROVE  /\ x \in Holders(h)' /\ x \notin Holders(h)
                  => Cardinality(Holders(h)') = Cardinality(Holders(h)) + 1
           /\ x \notin Holders(h)' /\ x \in Holders(h)
                  => /\ Cardinality(Holders(h)') = Cardinality(Holders(h)) - 1
                     /\ Cardinality(Holders(h)) > 0
<1>1. Holders(h)' \ {x} = Holders(h) \ {x}
  BY OthersHold
<1>2. IsFiniteSet(Holders(h)) /\ Cardinality(Holders(h)) \in Nat
  BY HoldersFinite
<1>3. ASSUME x \in Holders(h)', x \notin Holders(h)
      PROVE  Cardinality(Holders(h)') = Cardinality(Holders(h)) + 1
  <2>1. Holders(h)' = Holders(h) \cup {x}
    BY <1>1, <1>3
  <2> QED BY <1>2, <1>3, <2>1, FS_AddElement
<1>4. ASSUME x \notin Holders(h)', x \in Holders(h)
      PROVE  /\ Cardinality(Holders(h)') = Cardinality(Holders(h)) - 1
             /\ Cardinality(Holders(h)) > 0
  <2>1. Holders(h)' = Holders(h) \ {x}
    BY <1>1, <1>4
  <2>2. Cardinality(Holders(h)) # 0
    BY <1>2, <1>4, FS_EmptySet
  <2>3. Cardinality(Holders(h) \ {x}) = Cardinality(Holders(h)) - 1
    BY <1>2, <1>4, FS_RemoveElement
  <2> QED BY <1>2, <2>1, <2>2, <2>3
<1> QED BY <1>3, <1>4

----------------------------------------------------------------------------
(* The lock of one header. *)

Locked(h) == state[h] = "live" => rwlock[h] = Cardinality(Holders(h))

\* Nothing changes for h when x is none of its guards before and after.
LEMMA LockedKept ==
    ASSUME NEW t \in Threads, NEW x \in Vars, Touches(t, x), NEW h, Locked(h),
           x \in Holders(h)' <=> x \in Holders(h),
           state'[h] = "live" => state[h] = "live", rwlock'[h] = rwlock[h]
    PROVE  Locked(h)'
<1>1. Holders(h)' = Holders(h)
  BY AllHold
<1> QED BY <1>1 DEF Locked

\* Starting an operation changes no lock.
LEMMA LockedStart ==
    ASSUME IInv, GInv, NEW t \in Threads, Start(t), ~stray_hit',
           NEW h \in Headers \ tainted'
    PROVE  Locked(h)'
<1>a. ~stray_hit /\ tainted \subseteq tainted'
  BY DEF Start, New, Copy, GetArc, Drop, Assign, ghost
<1>b. Locked(h)
  BY <1>a, GuardsCounted DEF GInv, Locked
<1>c. pc[t] = "idle" /\ self[t] = NoVar
  BY DEF Start, New, Copy, GetArc, Drop, Assign, IInv, Client, Frame
<1>d. LocalOK /\ NoVar \notin Vars /\ NoHeader \notin Headers
  BY SentinelAssumption DEF IInv, TypeOK, LocalOK
<1>1. ASSUME NEW v \in Vars, NEW g \in Headers, NEW a \in Addrs, New(t, v, g, a)
      PROVE  Locked(h)'
  <2>1. Touches(t, v)
    BY <1>1, <1>c DEF New, Touches, local, IInv, TypeOK
  <2>2. v \notin Holders(h)
    BY <1>1, <1>d DEF New, Holders, Refs
  <2>3. v \notin Holders(h)'
    BY <1>1 DEF New, Holders, Holds, IInv, TypeOK
  <2>4. rwlock'[h] = rwlock[h]
    BY <1>1 DEF New
  <2>5. CASE h # g
    <3>1. state'[h] = state[h]
      BY <1>1, <2>5 DEF New, IInv, TypeOK
    <3> QED BY <1>b, <2>1, <2>2, <2>3, <2>4, <3>1, LockedKept
  <2>6. CASE h = g
    <3>1. state[h] = "unborn" /\ rwlock[h] = 0
      BY <1>1, <2>6 DEF New, GInv, Unlocked
    <3>2. Refs(h) = {}
      BY <1>a, <3>1 DEF IInv, Sharing, Count, Sound
    <3>3. Holders(h) = {}
      BY <3>2 DEF Holders
    <3>4. Holders(h)' = {}
      BY <2>1, <2>2, <2>3, <3>3, AllHold
    <3> QED BY <2>4, <3>1, <3>4, FS_EmptySet DEF Locked
  <2> QED BY <2>5, <2>6
<1>2. ASSUME NEW v \in Vars, NEW s \in Vars, NEW k \in Kinds, Copy(t, v, s, k)
      PROVE  Locked(h)'
  <2>1. Enter(t, "inc_lock", v, s, header[s])
    BY <1>2 DEF Copy
  <2>2. Touches(t, v)
    BY <1>2, <1>c, <1>d, <2>1, EnterOthers DEF Copy, Touches, IInv, TypeOK
  <2>3. v \notin Holders(h) /\ v \notin Holders(h)'
    BY <1>2, <1>d DEF Copy, Holders, Refs
  <2>4. UNCHANGED <<state, rwlock>>
    BY <1>2 DEF Copy, heap
  <2> QED BY <1>b, <2>2, <2>3, <2>4, LockedKept
<1>3. ASSUME NEW v \in Vars, NEW s \in Vars, GetArc(t, v, s) PROVE Locked(h)'
  <2>1. Touches(t, v)
    BY <1>3, <1>c DEF GetArc, Touches, local, IInv, TypeOK
  <2>2. v \notin Holders(h)
    BY <1>3, <1>d DEF GetArc, Holders, Refs
  <2>3. v \notin Holders(h)'
    BY <1>3 DEF GetArc, Holders, Holds, IInv, TypeOK
  <2>4. UNCHANGED <<state, rwlock>>
    BY <1>3 DEF GetArc, heap
  <2> QED BY <1>b, <2>1, <2>2, <2>3, <2>4, LockedKept
<1>4. ASSUME NEW v \in Vars, Drop(t, v) PROVE Locked(h)'
  <2>1. Enter(t, IF kind[v] = "arc" THEN "dec_lock" ELSE "rw_unlock", v, NoVar, header[v])
        /\ UNCHANGED <<state, rwlock, header, kind>> /\ Unused(v)
    BY <1>4 DEF Drop, heap
  <2>2. Touches(t, v)
    BY <1>c, <1>d, <2>1, EnterOthers DEF Touches
  <2>3. Holds(v)' <=> Holds(v)
    <3>1. CASE kind[v] = "arc"
      BY <2>1, <3>1 DEF Holds
    <3>2. CASE kind[v] # "arc"
      <4>1. pc'[t] = "rw_unlock" /\ \A u \in Threads \ {t} : self'[u] # v
        BY <1>d, <2>1, <3>2, EnterOthers DEF Unused
      <4>2. \A u \in Threads : self[u] # v
        BY <2>1 DEF Unused
      <4> QED BY <2>1, <3>2, <4>1, <4>2 DEF Holds, Waiting, Critical
    <3> QED BY <3>1, <3>2
  <2>4. v \in Holders(h)' <=> v \in Holders(h)
    BY <2>1, <2>3 DEF Holders, Refs
  <2> QED BY <1>b, <2>1, <2>2, <2>4, LockedKept
<1>5. ASSUME NEW v \in Vars, NEW s \in Vars, Assign(t, v, s) PROVE Locked(h)'
  <2>1. Enter(t, "dec_lock", v, s, header[v]) /\ kind[v] = "arc"
        /\ UNCHANGED <<state, rwlock, header, kind>>
    BY <1>5 DEF Assign, heap
  <2>2. Touches(t, v)
    BY <1>c, <1>d, <2>1, EnterOthers DEF Touches
  <2>3. v \notin Holders(h) /\ v \notin Holders(h)'
    BY <2>1 DEF Holders, Holds
  <2> QED BY <1>b, <2>1, <2>2, <2>3, LockedKept
<1> QED BY <1>1, <1>2, <1>3, <1>4, <1>5 DEF Start

\* A step of an operation: only the two that lock and unlock do, one guard each.
LEMMA LockedStep ==
    ASSUME IInv, GInv, WriteUnlocks = {"one"}, NEW t \in Threads, Step(t), ~stray_hit',
           NEW h \in Headers \ tainted'
    PROVE  Locked(h)'
<1>a. ~stray_hit /\ tainted' = tainted
  BY DEF Step, IncLock, IncStore, RwLock, RwUnlock, DecLock, DecStore, Delete, Stray,
         TouchFreed, ghost
<1>b. Locked(h)
  BY <1>a, GuardsCounted DEF GInv, Locked
<1>c. pc[t] \in Incs \cup Decs \cup {"delete", "stray"}
  BY DEF Step, IncLock, IncStore, RwLock, RwUnlock, DecLock, DecStore, Delete, Stray,
         TouchFreed, Incs, Decs
<1>d. LocalOK /\ NoVar \notin Vars /\ NoHeader \notin Headers
  BY SentinelAssumption DEF IInv, TypeOK, LocalOK
<1>e. Frame(t) /\ self[t] \in Vars /\ hdr[t] \in Headers
  BY <1>c DEF IInv, Client, Frame, Incs, Decs
<1>f. \A u \in Threads \ {t} : self[u] # self[t]
  BY <1>d, <1>e DEF IInv, Client, Exclusive
<1> DEFINE x == self[t]
\* Locking a mutex, inside the operation.
<1>1. CASE IncLock(t) \/ DecLock(t)
  <2>1. /\ \A u \in Threads \ {t} : pc'[u] = pc[u]
        /\ UNCHANGED <<self, state, rwlock, header, kind>>
    BY <1>1 DEF IncLock, DecLock, Lock, IInv, TypeOK
  <2>2. Touches(t, x)
    BY <2>1 DEF Touches
  <2>3. x \notin Holders(h) /\ x \notin Holders(h)'
    <3>1. CASE IncLock(t)
      <4>1. header[x] = NoHeader
        BY <1>e, <3>1 DEF IncLock, Frame, Incs
      <4> QED BY <1>d, <2>1, <4>1 DEF Holders, Refs
    <3>2. CASE DecLock(t)
      <4>1. pc[t] = "dec_lock" /\ pc'[t] = "dec_store"
        BY <3>2 DEF DecLock, Lock, IInv, TypeOK
      <4> QED BY <2>1, <4>1 DEF Holders, Holds, Waiting, Critical
    <3> QED BY <1>1, <3>1, <3>2
  <2> QED BY <1>b, <1>e, <2>1, <2>2, <2>3, LockedKept
<1>2. CASE IncStore(t)
  <2>1. UNCHANGED <<state, rwlock, kind>> /\ header' = [header EXCEPT ![x] = hdr[t]]
    BY <1>2 DEF IncStore
  <2>2. IF kind[x] = "arc" THEN Enter(t, "idle", NoVar, NoVar, NoHeader)
        ELSE Enter(t, "rw_lock", x, src[t], hdr[t])
    BY <1>2 DEF IncStore, Leave, Proceed
  <2>3. Touches(t, x)
    BY <1>d, <2>1, <2>2, EnterOthers DEF Touches, IInv, TypeOK
  <2>4. x \notin Holders(h)
    <3>1. header[x] = NoHeader
      BY <1>2, <1>e DEF IncStore, Frame, Incs
    <3> QED BY <1>d, <3>1 DEF Holders, Refs
  <2>5. x \notin Holders(h)'
    <3>1. CASE kind[x] = "arc"
      BY <2>1, <3>1 DEF Holders, Holds
    <3>2. CASE kind[x] # "arc"
      <4>1. self'[t] = x /\ pc'[t] = "rw_lock"
        BY <1>d, <2>2, <3>2, EnterOthers
      <4> HIDE DEF x
      <4> QED BY <4>1 DEF Holders, Holds, Waiting
    <3> QED BY <3>1, <3>2
  <2> QED BY <1>b, <1>e, <2>1, <2>3, <2>4, <2>5, LockedKept
\* x becomes a guard of its header.
<1>3. CASE RwLock(t)
  <2>1. /\ UNCHANGED <<state, header, kind>> /\ pc[t] = "rw_lock"
        /\ rwlock' = [rwlock EXCEPT ![hdr[t]] = @ + 1]
        /\ Enter(t, "idle", NoVar, NoVar, NoHeader)
    BY <1>3 DEF RwLock, Leave
  <2>2. Touches(t, x)
    BY <1>d, <2>1, EnterOthers DEF Touches
  <2>3. header[x] = hdr[t] /\ kind[x] # "arc"
    BY <1>e, <2>1 DEF Frame, Decs, GInv, Locking
  <2>4. x \notin Holders(h)
    BY <2>1 DEF Holders, Holds, Waiting
  <2>5. CASE h # hdr[t]
    <3>1. x \notin Holders(h)'
      BY <2>1, <2>3, <2>5 DEF Holders, Refs
    <3>2. rwlock'[h] = rwlock[h]
      BY <2>1, <2>5 DEF IInv, TypeOK
    <3> QED BY <1>b, <1>e, <2>1, <2>2, <2>4, <3>1, <3>2, LockedKept
  <2>6. CASE h = hdr[t]
    <3>1. \A u \in Threads : self'[u] # x
      BY <1>d, <1>e, <1>f, <2>1, EnterOthers
    <3>2. x \in Holders(h)'
      BY <1>e, <2>1, <2>3, <2>6, <3>1 DEF Holders, Holds, Refs
    <3>3. Cardinality(Holders(h)') = Cardinality(Holders(h)) + 1
      BY <1>e, <2>2, <2>4, <3>2, HolderChanges
    <3>4. rwlock'[h] = rwlock[h] + 1 /\ state'[h] = state[h]
      BY <2>1, <2>6 DEF IInv, TypeOK
    <3> QED BY <1>b, <3>3, <3>4 DEF Locked
  <2> QED BY <2>5, <2>6
\* x gives its lock back, a lock that is held.
<1>4. CASE RwUnlock(t)
  <2>1. /\ UNCHANGED <<state, header, kind>> /\ pc[t] = "rw_unlock"
        /\ rwlock' = ReadUnlock(hdr[t])
        /\ Enter(t, "dec_lock", x, src[t], hdr[t]) /\ state[hdr[t]] = "live"
    BY <1>4 DEF RwUnlock, Proceed, Live
  <2>2. Touches(t, x)
    BY <1>d, <2>1, EnterOthers DEF Touches
  <2>3. header[x] = hdr[t] /\ kind[x] # "arc"
    BY <1>e, <2>1 DEF Frame, Decs, GInv, Locking
  <2>4. x \notin Holders(h)'
    <3>1. self'[t] = x /\ pc'[t] = "dec_lock"
      BY <1>d, <2>1, EnterOthers
    <3> HIDE DEF x
    <3> QED BY <3>1 DEF Holders, Holds, Waiting
  <2>5. CASE h # hdr[t]
    <3>1. x \notin Holders(h)
      BY <2>3, <2>5 DEF Holders, Refs
    <3>2. rwlock'[h] = rwlock[h]
      BY <2>1, <2>5 DEF IInv, TypeOK, ReadUnlock
    <3> QED BY <1>b, <1>e, <2>1, <2>2, <2>4, <3>1, <3>2, LockedKept
  <2>6. CASE h = hdr[t]
    <3>1. x \in Holders(h)
      BY <1>e, <1>f, <2>1, <2>3, <2>6 DEF Holders, Holds, Refs, Waiting, Critical
    <3>2. /\ Cardinality(Holders(h)') = Cardinality(Holders(h)) - 1
          /\ Cardinality(Holders(h)) > 0
      BY <1>e, <2>2, <2>4, <3>1, HolderChanges
    <3>3. rwlock[h] = Cardinality(Holders(h))
      BY <1>b, <2>1, <2>6 DEF Locked
    <3>4. rwlock'[h] = rwlock[h] - 1
      BY <2>1, <2>6, <3>2, <3>3 DEF IInv, TypeOK, ReadUnlock
    <3> QED BY <3>2, <3>3, <3>4 DEF Locked
  <2> QED BY <2>5, <2>6
<1>5. CASE DecStore(t)
  <2>1. UNCHANGED <<state, rwlock, kind>> /\ header' = [header EXCEPT ![x] = NoHeader]
        /\ pc[t] = "dec_store" /\ (Proceed(t, "delete") \/ Return(t))
    BY <1>5 DEF DecStore
  <2>2. \E at, s, g : Enter(t, at, x, s, g) \/ Enter(t, at, NoVar, s, g)
    BY <2>1, ReturnEffect DEF Proceed
  <2>3. Touches(t, x)
    BY <1>d, <2>1, <2>2, EnterOthers DEF Touches, IInv, TypeOK
  <2>4. x \notin Holders(h)
    BY <2>1 DEF Holders, Holds, Waiting, Critical
  <2>5. x \notin Holders(h)'
    BY <1>d, <1>e, <2>1 DEF Holders, Refs, IInv, TypeOK
  <2> QED BY <1>b, <1>e, <2>1, <2>3, <2>4, <2>5, LockedKept
<1>6. CASE Delete(t) \/ Stray(t)
  <2>1. UNCHANGED <<rwlock, header, kind>> /\ pc[t] \in {"delete", "stray"}
        /\ (Proceed(t, "stray") \/ Return(t))
        /\ (state'[h] = "live" => state[h] = "live")
    BY <1>6 DEF Delete, Stray, IInv, TypeOK
  <2>2. \E at, s, g : Enter(t, at, x, s, g) \/ Enter(t, at, NoVar, s, g)
    BY <2>1, ReturnEffect DEF Proceed
  <2>3. Touches(t, x)
    BY <1>d, <2>1, <2>2, EnterOthers DEF Touches
  <2>4. header[x] = NoHeader
    BY <1>e, <2>1 DEF Frame
  <2>5. x \notin Holders(h) /\ x \notin Holders(h)'
    BY <1>d, <2>1, <2>4 DEF Holders, Refs
  <2> QED BY <1>b, <1>e, <2>1, <2>3, <2>5, LockedKept
\* A thread that is lost was at work on a header that is gone.
<1>7. CASE TouchFreed(t)
  <2>1. /\ UNCHANGED <<state, rwlock, header, kind, self>> /\ ~Live(hdr[t])
        /\ pc[t] \in Incs \cup Decs \cup {"delete"}
        /\ \A u \in Threads \ {t} : pc'[u] = pc[u]
    BY <1>7 DEF TouchFreed, heap, local, IInv, TypeOK
  <2>2. CASE state[h] # "live"
    BY <2>1, <2>2 DEF Locked
  <2>3. CASE state[h] = "live"
    <3>1. Touches(t, x)
      BY <2>1 DEF Touches
    <3>2. header[x] # h
      BY <1>d, <1>e, <2>1, <2>3 DEF Frame, Live
    <3>3. x \notin Holders(h) /\ x \notin Holders(h)'
      BY <2>1, <3>2 DEF Holders, Refs
    <3> QED BY <1>b, <1>e, <2>1, <3>1, <3>3, LockedKept
  <2> QED BY <2>2, <2>3
<1> QED BY <1>1, <1>2, <1>3, <1>4, <1>5, <1>6, <1>7 DEF Step

----------------------------------------------------------------------------
(* The invariant. *)

\* A thread stays what it locks as, and new headers stay unlocked.
LEMMA LockingStep ==
    ASSUME IInv, Locking, Unlocked, NEW t \in Threads, Start(t) \/ Step(t)
    PROVE  Locking' /\ Unlocked'
<1>a. LocalOK /\ NoVar \notin Vars
  BY SentinelAssumption DEF IInv, TypeOK, LocalOK
<1>b. /\ pc[t] = "idle" => self[t] = NoVar
      /\ pc[t] \notin {"idle", "undefined"} => self[t] \in Vars
  BY DEF IInv, Client, Frame
<1>c. \A u \in Threads : pc[u] \in {"rw_lock", "rw_unlock"} => self[u] \in Vars
  BY DEF IInv, Client, Frame
<1>1. ASSUME NEW v \in Vars, Unused(v), \A w \in Vars \ {v} : kind'[w] = kind[w],
             \A u \in Threads \ {t} : self'[u] = self[u] /\ pc'[u] = pc[u],
             pc'[t] \in {"rw_lock", "rw_unlock"} => kind'[self'[t]] # "arc"
      PROVE  Locking'
  BY <1>1, <1>c DEF Locking, Unused
<1>2. ASSUME UNCHANGED kind,
             \A u \in Threads \ {t} : self'[u] = self[u] /\ pc'[u] = pc[u],
             pc'[t] \in {"rw_lock", "rw_unlock"} => kind[self'[t]] # "arc"
      PROVE  Locking'
  BY <1>2 DEF Locking
<1>3. ASSUME UNCHANGED <<state, rwlock>> PROVE Unlocked'
  BY <1>3 DEF Unlocked
<1>4. ASSUME NEW v \in Vars, NEW g \in Headers, NEW a \in Addrs, New(t, v, g, a)
      PROVE  Locking' /\ Unlocked'
  <2>1. Locking'
    BY <1>4, <1>1 DEF New, local, IInv, TypeOK
  <2>2. Unlocked'
    BY <1>4 DEF New, Unlocked, IInv, TypeOK
  <2> QED BY <2>1, <2>2
<1>5. ASSUME NEW v \in Vars, NEW s \in Vars, NEW k \in Kinds, Copy(t, v, s, k)
      PROVE  Locking' /\ Unlocked'
  <2>1. Enter(t, "inc_lock", v, s, header[s]) /\ Unused(v) /\ UNCHANGED <<state, rwlock>>
    BY <1>5 DEF Copy, heap
  <2>2. \A w \in Vars \ {v} : kind'[w] = kind[w]
    BY <1>5 DEF Copy, IInv, TypeOK
  <2> QED BY <1>a, <1>1, <1>3, <2>1, <2>2, EnterOthers
<1>6. ASSUME NEW v \in Vars, NEW s \in Vars, GetArc(t, v, s)
      PROVE  Locking' /\ Unlocked'
  <2>1. Unused(v) /\ UNCHANGED <<state, rwlock, pc, self>> /\ pc[t] = "idle"
    BY <1>6 DEF GetArc, heap, local
  <2>2. \A w \in Vars \ {v} : kind'[w] = kind[w]
    BY <1>6 DEF GetArc, IInv, TypeOK
  <2> QED BY <1>1, <1>3, <2>1, <2>2
<1>7. ASSUME NEW v \in Vars, Drop(t, v) PROVE Locking' /\ Unlocked'
  <2>1. Enter(t, IF kind[v] = "arc" THEN "dec_lock" ELSE "rw_unlock", v, NoVar, header[v])
        /\ UNCHANGED <<state, rwlock, kind>>
    BY <1>7 DEF Drop, heap
  <2>2. CASE kind[v] = "arc"
    BY <1>a, <1>2, <1>3, <2>1, <2>2, EnterOthers
  <2>3. CASE kind[v] # "arc"
    BY <1>a, <1>2, <1>3, <2>1, <2>3, EnterOthers
  <2> QED BY <2>2, <2>3
<1>8. ASSUME NEW v \in Vars, NEW s \in Vars, Assign(t, v, s) PROVE Locking' /\ Unlocked'
  <2>1. Enter(t, "dec_lock", v, s, header[v]) /\ UNCHANGED <<state, rwlock, kind>>
    BY <1>8 DEF Assign, heap
  <2> QED BY <1>a, <1>2, <1>3, <2>1, EnterOthers
<1>9. CASE IncLock(t) \/ DecLock(t) \/ TouchFreed(t)
  <2>1. UNCHANGED <<state, rwlock, kind, self>>
        /\ pc'[t] \in {"inc_store", "dec_store", "undefined"}
        /\ \A u \in Threads \ {t} : pc'[u] = pc[u]
    BY <1>9 DEF IncLock, DecLock, Lock, TouchFreed, heap, local, IInv, TypeOK
  <2> QED BY <1>2, <1>3, <2>1
<1>10. CASE IncStore(t)
  <2>1. UNCHANGED <<state, rwlock, kind>>
        /\ IF kind[self[t]] = "arc" THEN Enter(t, "idle", NoVar, NoVar, NoHeader)
           ELSE Enter(t, "rw_lock", self[t], src[t], hdr[t])
    BY <1>10 DEF IncStore, Leave, Proceed
  <2>2. CASE kind[self[t]] = "arc"
    BY <1>a, <1>2, <1>3, <2>1, <2>2, EnterOthers
  <2>3. CASE kind[self[t]] # "arc"
    BY <1>a, <1>2, <1>3, <2>1, <2>3, EnterOthers
  <2> QED BY <2>2, <2>3
<1>11. CASE RwLock(t) \/ RwUnlock(t)
  <2>1. UNCHANGED <<state, kind>> /\ Live(hdr[t])
        /\ (Leave(t) \/ Proceed(t, "dec_lock"))
        /\ \A g \in Headers \ {hdr[t]} : rwlock'[g] = rwlock[g]
    BY <1>11 DEF RwLock, RwUnlock, ReadUnlock, IInv, TypeOK
  <2>2. \E at \in {"idle", "dec_lock"} : \E v, s, g : Enter(t, at, v, s, g)
    BY <2>1 DEF Leave, Proceed
  <2>3. Locking'
    BY <1>a, <1>2, <2>1, <2>2, EnterOthers
  <2>4. Unlocked'
    BY <2>1 DEF Unlocked, Live
  <2> QED BY <2>3, <2>4
<1>12. CASE DecStore(t) \/ Delete(t) \/ Stray(t)
  <2>1. UNCHANGED <<rwlock, kind>>
        /\ (Proceed(t, "delete") \/ Proceed(t, "stray") \/ Return(t))
        /\ \A g \in Headers : state'[g] = "unborn" => state[g] = "unborn"
    BY <1>12 DEF DecStore, Delete, Stray, IInv, TypeOK
  <2>2. \E at \in {"idle", "delete", "stray", "inc_lock"} : \E v, s, g : Enter(t, at, v, s, g)
    BY <2>1, ReturnEffect DEF Proceed
  <2>3. Locking'
    BY <1>a, <1>2, <2>1, <2>2, EnterOthers
  <2>4. Unlocked'
    BY <2>1 DEF Unlocked
  <2> QED BY <2>3, <2>4
<1> QED BY <1>4, <1>5, <1>6, <1>7, <1>8, <1>9, <1>10, <1>11, <1>12 DEF Start, Step

\* The reader-writer lock of a header is held by the guards that exist, for any
\* number of threads and guards, where write_unlock releases one holder.
THEOREM GuardsHold == ASSUME WriteUnlocks = {"one"} PROVE Spec => []HoldersAreGuards
<1>1. Init => GInv
  <2> SUFFICES ASSUME Init PROVE GInv
    OBVIOUS
  <2>1. Locking /\ Unlocked
    BY DEF Init, Locking, Unlocked
  <2>2. HoldersAreGuards
    BY DEF Init, HoldersAreGuards
  <2> QED BY <2>1, <2>2 DEF GInv
<1>2. IInv /\ GInv /\ [Next]_vars => GInv'
  <2> SUFFICES ASSUME IInv, GInv, [Next]_vars PROVE GInv'
    OBVIOUS
  <2>1. CASE UNCHANGED vars
    <3>1. UNCHANGED <<state, rwlock, header, kind, pc, self, tainted, stray_hit>>
      BY <2>1 DEF vars, heap, local, ghost
    <3>2. \A h \in Headers : Refs(h)' = Refs(h)
      BY <3>1 DEF Refs
    <3> QED BY <3>1, <3>2 DEF GInv, Locking, Unlocked, HoldersAreGuards
  <2>2. ASSUME NEW t \in Threads, Start(t) \/ Step(t) PROVE GInv'
    <3>1. Locking' /\ Unlocked'
      BY <2>2, LockingStep DEF GInv
    <3>2. ~stray_hit' => \A h \in Headers \ tainted' : Locked(h)'
      BY <2>2, LockedStart, LockedStep
    <3>3. HoldersAreGuards'
      BY <3>2 DEF HoldersAreGuards, Locked, Holders, Holds, Waiting
    <3> QED BY <3>1, <3>3 DEF GInv
  <2> QED BY <2>1, <2>2 DEF Next, Quiescent
<1>3. GInv => HoldersAreGuards
  BY DEF GInv
<1> QED BY <1>1, <1>2, <1>3, Invariance, PTL DEF Spec
============================================================================
