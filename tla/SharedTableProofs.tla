-------------------------- MODULE SharedTableProofs --------------------------
(***************************************************************************)
(* Theorems about SharedTable for any threads, keys and values.            *)
(*                                                                         *)
(* Locked says who is inside the lock.  Running ties an operation to the   *)
(* steps that it comes to.  Aimed is about the table until clear(): its    *)
(* entries have the keys 1, 2, ..., and no thread is about to set a key    *)
(* beyond the next one.  This needs what a thread has read before it gave  *)
(* the lock back to hold when it writes: the table only grows, so a key    *)
(* that was there, or was the next one, still is.                          *)
(*                                                                         *)
(* Tracked is about an operation while no other thread has changed the     *)
(* table: Follows says, for every step of it, what it has read and written *)
(* so far of the table it began with.  The table is a map as in            *)
(* LuaTableProofs, whose lemmas about the operators are used here.         *)
(*                                                                         *)
(* Typed is about the values: what a thread keeps was stored by somebody,  *)
(* a loop has the value it sets next, and a reference that is not stale    *)
(* finds its entry, because no call but clear() takes a key out.           *)
(***************************************************************************)
EXTENDS SharedTable, TLAPS

Sequential(s) == s \in Seq({s[i] : i \in DOMAIN s})

\* The keys of a table are 1, 2, ... in this order.
IsArray(s) ==
    /\ s = [entries |-> s.entries, frozen |-> s.frozen]
    /\ Sequential(s.entries)
    /\ \A i \in 1..Len(s.entries) : s.entries[i] = [key |-> i, value |-> s.entries[i].value]

Nested == {"len_has", "pairs_next"}
Writing == {"lock", "queued", "store"}
Setting == {"set", "index", "append", "insert", "remove", "sort", "move"}

\* Who is in which section of the lock.
Locked ==
    /\ lock = [writer |-> lock.writer, readers |-> lock.readers]
    /\ lock.writer \in Threads \cup {NoThread}
    /\ lock.readers = {th \in Threads : pc[th] \in Nested}
    /\ lock.writer # NoThread => lock.readers = {}
    /\ \A th \in Threads : pc[th] = "store" <=> lock.writer = th

\* The operations that come to a step.
Comes(at) ==
    CASE at \in {"len", "len_has"} -> {"append"}
      [] at = "has" -> {"insert", "remove"}
      [] at = "get" -> {"insert", "remove", "get"}
      [] at = "copy" -> {"insert", "remove", "get", "sort", "concat", "foreach"}
      [] at = "peek" -> {"remove"}
      [] at \in {"ipairs", "step"} -> {"sort", "concat"}
      [] at \in {"pairs", "pairs_next", "next"} -> {"foreach"}
      [] at \in {"assign", "keyed"} -> {"index"}
      [] at = "clone" -> {"clone"}
      [] at \in Writing -> Setting \cup {"clear", "freeze", "unfreeze"}
      [] OTHER -> Setting \cup {"get", "concat", "foreach", "clone", "clear", "freeze", "unfreeze", "none"}

Fields == {"op", "pos", "v", "idx", "val", "vec", "ref"}
IsCall(r) ==
    /\ DOMAIN r = Fields
    /\ r.op # "clone" => Sequential(r.vec)
Running ==
    /\ pc \in [Threads -> Pcs]
    /\ run = [th \in Threads |-> run[th]]
    /\ \A th \in Threads : IsCall(run[th]) /\ run[th].op \in Comes(pc[th])

\* The operation r goes on at a step and sets no key beyond the next one, for
\* a table of n keys: an append or an insert at most the next one, the loops of
\* sort and move only keys that are there.
Aims(at, r, n, key) ==
    /\ r.op \in {"set", "index", "insert"} => r.pos \in 1..(n + 1)
    /\ r.op \in Setting /\ at \in Writing \cup {"get", "copy", "peek"} => r.idx \in 1..(n + 1)
    /\ r.op = "sort" =>
        /\ r.pos = 1
        /\ at = "ipairs" => r.idx = 1 /\ Len(r.vec) = 0
        /\ at = "copy" => r.idx \in 1..n /\ Len(r.vec) = r.idx - 1
        /\ at = "step" => r.idx \in 1..n /\ Len(r.vec) = r.idx
    /\ r.op \in {"sort", "move"} /\ at \in Writing =>
        r.pos \in 1..r.idx /\ r.idx < r.pos + Len(r.vec) /\ r.pos + Len(r.vec) <= n + 1
    /\ at = "keyed" => key # 0
Size == Len(t.entries)
Aimed ==
    /\ IsArray(t) /\ property \in 0..(Size + 1)
    /\ \A th \in Threads : Aims(pc[th], run[th], Size, property)

IInv == Locked /\ Running /\ (~cleared => Aimed)

\* Thread th goes on with r.
Moves(th, next, r) == Goto(th, next) /\ run' = [run EXCEPT ![th] = r]

----------------------------------------------------------------------------
(* Tables that are arrays. *)

\* A sequence is one of its own elements.
LEMMA InSeq ==
    ASSUME NEW S, NEW s \in Seq(S)
    PROVE  Sequential(s) /\ Len(s) \in Nat /\ DOMAIN s = 1..Len(s)
<1>1. DOMAIN s = 1..Len(s) /\ Len(s) \in Nat
  OBVIOUS
<1>2. s \in [1..Len(s) -> {s[i] : i \in DOMAIN s}]
  BY <1>1
<1> QED BY <1>1, <1>2 DEF Sequential

\* An array has the keys up to its length, each at its own position.
LEMMA HasKeys ==
    ASSUME NEW s, IsArray(s)
    PROVE  /\ Len(s.entries) \in Nat /\ DOMAIN s.entries = 1..Len(s.entries)
           /\ \A k : Has(s, k) <=> k \in 1..Len(s.entries)
           /\ \A k \in 1..Len(s.entries) : Position(s, k) = k
<1>1. Len(s.entries) \in Nat /\ DOMAIN s.entries = 1..Len(s.entries)
  BY InSeq DEF IsArray, Sequential
<1>2. ASSUME NEW i \in 1..Len(s.entries) PROVE s.entries[i].key = i
  <2>1. PICK v : s.entries[i] = [key |-> i, value |-> v]
    BY DEF IsArray
  <2> QED BY <2>1
<1>3. \A k : Has(s, k) <=> k \in 1..Len(s.entries)
  BY <1>1, <1>2 DEF Has
<1>4. ASSUME NEW k \in 1..Len(s.entries) PROVE Position(s, k) = k
  BY <1>1, <1>2 DEF Position
<1> QED BY <1>1, <1>3, <1>4

\* arr_len() of an array is the number of its entries.
LEMMA ArrLenIsSize == ASSUME NEW s, IsArray(s) PROVE ArrLen(s) = Len(s.entries)
<1> DEFINE N == Len(s.entries)
<1> DEFINE R == {n \in 0..Len(s.entries) : \A i \in 1..(1 + n - 1) : Has(s, i)}
<1>1. N \in Nat /\ \A i \in 1..N : Has(s, i)
  BY HasKeys
<1>2. \A n \in R : n <= N /\ n \in Int
  BY <1>1
<1>3. N \in R
  BY <1>1
<1>4. ArrLen(s) = Max(R)
  BY DEF ArrLen, RunFrom
<1>5. N \in Int /\ \A x \in R : (\A y \in R : x >= y) => x = N
  <2> HIDE DEF R, N
  <2> QED BY <1>1, <1>2, <1>3
<1>6. \A y \in R : N >= y
  <2> HIDE DEF R, N
  <2> QED BY <1>1, <1>2
<1>7. Max(R) = N
  <2> HIDE DEF R, N
  <2> QED BY <1>3, <1>5, <1>6 DEF Max
<1> QED BY <1>4, <1>7

\* A set at a key up to the next one keeps an array, and drops nothing.
LEMMA SetKeepsArray ==
    ASSUME NEW s, IsArray(s), NEW k \in 1..(Len(s.entries) + 1), NEW v
    PROVE  IsArray(Set(s, k, v)) /\ Len(Set(s, k, v).entries) >= Len(s.entries)
<1> DEFINE E == s.entries
           N == Len(s.entries)
           R == {E[i] : i \in DOMAIN E}
<1>1. /\ N \in Nat /\ DOMAIN E = 1..N /\ E \in Seq(R)
      /\ \A j : Has(s, j) <=> j \in 1..N
      /\ s = [entries |-> E, frozen |-> s.frozen]
  BY HasKeys DEF IsArray, Sequential
<1>2. \A i \in 1..N : E[i] = [key |-> i, value |-> E[i].value]
  BY DEF IsArray
<1>3. CASE ~s.frozen
  <2>1. Set(s, k, v) = s
    BY <1>3 DEF Set
  <2> QED BY <1>1, <2>1
<1>4. CASE s.frozen /\ Has(s, k)
  <2>1. k \in 1..N /\ Position(s, k) = k
    BY <1>1, <1>4, HasKeys
  <2> DEFINE F == [E EXCEPT ![k] = [key |-> k, value |-> v]]
  <2>9. PICK w : E[k] = [key |-> k, value |-> w]
    BY <1>2, <2>1
  <2>2. [E[k] EXCEPT !.value = v] = [key |-> k, value |-> v]
    BY <2>9
  <2>3. Set(s, k, v) = [s EXCEPT !.entries[k].value = v]
    BY <1>4, <2>1 DEF Set, Put
  <2>4. Set(s, k, v) = [entries |-> F, frozen |-> s.frozen]
    BY <1>1, <2>2, <2>3
  <2>5. F \in Seq(R \cup {[key |-> k, value |-> v]}) /\ Len(F) = N
    BY <1>1, <2>1
  <2>6. \A i \in 1..N : F[i] = [key |-> i, value |-> F[i].value]
    BY <1>1, <1>2, <2>1
  <2>7. Sequential(F)
    BY <2>5, InSeq
  <2>8. Set(s, k, v).entries = F /\ Set(s, k, v).frozen = s.frozen
    BY <2>4
  <2> HIDE DEF F, R
  <2> QED BY <1>1, <2>4, <2>5, <2>6, <2>7, <2>8 DEF IsArray
<1>5. CASE s.frozen /\ ~Has(s, k)
  <2>1. k = N + 1
    BY <1>1, <1>5
  <2> DEFINE e == [key |-> k, value |-> v]
             F == Append(E, e)
  <2>3. Set(s, k, v) = [s EXCEPT !.entries = Append(s.entries, [key |-> k, value |-> v])]
    BY <1>5 DEF Set, Put
  <2>4. Set(s, k, v) = [entries |-> F, frozen |-> s.frozen]
    BY <1>1, <2>3
  <2>5. F \in Seq(R \cup {e}) /\ Len(F) = N + 1
    BY <1>1
  <2>6. (\A i \in 1..N : F[i] = E[i]) /\ F[N + 1] = e
    BY <1>1
  <2>9. \A i \in 1..(N + 1) : F[i] = [key |-> i, value |-> F[i].value]
    <3> SUFFICES ASSUME NEW i \in 1..(N + 1) PROVE F[i] = [key |-> i, value |-> F[i].value]
      OBVIOUS
    <3>1. CASE i \in 1..N
      BY <1>2, <2>6, <3>1
    <3>2. CASE i = N + 1
      BY <2>1, <2>6, <3>2
    <3> QED BY <1>1, <3>1, <3>2
  <2>7. Sequential(F)
    BY <2>5, InSeq
  <2>8. Set(s, k, v).entries = F /\ Set(s, k, v).frozen = s.frozen
    BY <2>4
  <2> HIDE DEF F, R, e
  <2> QED BY <1>1, <2>4, <2>5, <2>9, <2>7, <2>8 DEF IsArray
<1> QED BY <1>3, <1>4, <1>5

----------------------------------------------------------------------------
(* The steps. *)

\* What a thread aims at is still there when the table has grown.
LEMMA AimsLonger ==
    ASSUME NEW at, NEW r, IsCall(r), NEW n \in Nat, NEW m \in Nat, n <= m, NEW key \in Nat,
           NEW next \in Nat, next = key \/ next # 0, Aims(at, r, n, key)
    PROVE  Aims(at, r, m, next)
<1>1. r.op # "clone" => Len(r.vec) \in Nat
  BY InSeq DEF IsCall, Sequential
<1> QED BY <1>1 DEF Aims

\* A step of one thread that leaves an array of no fewer keys.
LEMMA Moved ==
    ASSUME Running, ~cleared => Aimed, NEW th \in Threads, NEW next \in Pcs, NEW r,
           IsCall(r), r.op \in Comes(next), Moves(th, next, r),
           ~cleared' => /\ ~cleared /\ IsArray(t') /\ Len(t'.entries) >= Size
                        /\ property' \in 0..(Len(t'.entries) + 1)
                        /\ property' = property \/ property' # 0
                        /\ Aims(next, r, Len(t'.entries), property')
    PROVE  Running' /\ (~cleared' => Aimed')
<1>1. /\ pc' = [pc EXCEPT ![th] = next] /\ run' = [run EXCEPT ![th] = r]
      /\ pc'[th] = next /\ run'[th] = r /\ pc' \in [Threads -> Pcs]
      /\ \A u \in Threads \ {th} : pc'[u] = pc[u] /\ run'[u] = run[u]
  BY DEF Moves, Goto, Running
<1>2. Running'
  <2>1. run' = [u \in Threads |-> run'[u]]
    BY <1>1 DEF Running
  <2>2. ASSUME NEW u \in Threads PROVE IsCall(run'[u]) /\ run'[u].op \in Comes(pc'[u])
    BY <1>1 DEF Running
  <2> QED BY <1>1, <2>1, <2>2 DEF Running
<1>3. ASSUME ~cleared' PROVE Aimed'
  <2>1. Size \in Nat /\ Len(t'.entries) \in Nat /\ property \in Nat /\ property' \in Nat
    BY <1>3, HasKeys DEF Aimed, Size
  <2>2. ASSUME NEW u \in Threads PROVE Aims(pc'[u], run'[u], Len(t'.entries), property')
    <3>1. CASE u = th
      BY <1>1, <1>3, <3>1
    <3>2. CASE u # th
      <4>1. Aims(pc[u], run[u], Size, property) /\ IsCall(run[u])
        BY <1>3 DEF Aimed, Running
      <4>2. Aims(pc[u], run[u], Len(t'.entries), property')
        BY <1>3, <2>1, <4>1, AimsLonger
      <4> QED BY <1>1, <3>2, <4>2
    <3> QED BY <3>1, <3>2
  <2> QED BY <1>3, <2>2 DEF Aimed, Size
<1> QED BY <1>2, <1>3

\* A step that leaves the table, the lock and the kept key.
LEMMA Steps ==
    ASSUME IInv, NEW th \in Threads, NEW next \in Pcs \ (Nested \cup {"store"}), NEW r,
           pc[th] \notin Nested \cup {"store"}, IsCall(r), r.op \in Comes(next),
           Moves(th, next, r), UNCHANGED <<t, property, lock, cleared>>,
           ~cleared => Aims(next, r, Size, property)
    PROVE  IInv'
<1>1. Locked'
  BY DEF IInv, Locked, Moves, Goto, Running
<1>2. ASSUME ~cleared' PROVE /\ ~cleared /\ IsArray(t') /\ Len(t'.entries) >= Size
                             /\ property' \in 0..(Len(t'.entries) + 1)
                             /\ Aims(next, r, Len(t'.entries), property')
  <2>1. Aimed
    BY <1>2 DEF IInv
  <2> QED BY <1>2, <2>1, HasKeys DEF Aimed, Size
<1>3. Running' /\ (~cleared' => Aimed')
  BY <1>2, Moved DEF IInv
<1> QED BY <1>1, <1>3 DEF IInv

\* At first nobody is in the lock, and the table is an array.
LEMMA InitHolds == Init => IInv
<1> SUFFICES ASSUME Init PROVE IInv
  OBVIOUS
<1>1. Locked
  BY ThreadsAssumption DEF Init, Locked, Nested
<1>2. IsCall(Done) /\ Done.op = "none"
  BY DEF Done, Call, IsCall, Fields, Sequential
<1>3. Running
  BY <1>2 DEF Init, Running, Pcs, Comes, Writing
<1>4. PICK n \in 0..MaxKey, frozen \in BOOLEAN : \E values \in [1..n -> Values] :
        t = [entries |-> [i \in 1..n |-> [key |-> i, value |-> values[i]]], frozen |-> frozen]
  BY DEF Init
<1>5. PICK values \in [1..n -> Values] :
        t = [entries |-> [i \in 1..n |-> [key |-> i, value |-> values[i]]], frozen |-> frozen]
  BY <1>4
<1> DEFINE e == [i \in 1..n |-> [key |-> i, value |-> values[i]]]
<1>6. n \in Nat /\ t.entries = e /\ t.frozen = frozen /\ t = [entries |-> e, frozen |-> frozen]
  BY <1>5, KeysAssumption
<1>7. e \in Seq({e[i] : i \in 1..n}) /\ Len(e) = n
  BY <1>6
<1>8. Sequential(e)
  BY <1>7, InSeq
<1>9. \A i \in 1..n : e[i] = [key |-> i, value |-> e[i].value]
  OBVIOUS
<1>10. IsArray(t) /\ Size \in Nat
  <2> HIDE DEF e
  <2> QED BY <1>6, <1>7, <1>8, <1>9 DEF IsArray, Size
<1>11. property = 0 /\ \A th \in Threads : pc[th] = "idle" /\ run[th].op = "none"
  BY <1>2 DEF Init
<1>12. Aimed
  BY <1>10, <1>11 DEF Aimed, Aims, Setting, Writing
<1> QED BY <1>1, <1>3, <1>12 DEF IInv

\* A call begins.
LEMMA StartStep ==
    ASSUME IInv, NEW th \in Threads, NEW op, NEW pos \in Keys, NEW v, Start(th, op, pos, v)
    PROVE  IInv'
<1> DEFINE r == IF op = "move" THEN MoveCall(pos, v) ELSE Call(op, pos, v)
<1>1. r.op = op /\ r.pos = pos /\ r.idx = pos /\ IsCall(r)
      /\ Len(r.vec) = (IF op = "move" THEN 2 ELSE 0)
  <2>1. /\ MoveCall(pos, v) = [op |-> "move", pos |-> pos, v |-> v, idx |-> pos, val |-> v,
                               vec |-> <<v, Nil>>, ref |-> NoRef]
        /\ Call(op, pos, v) = [op |-> op, pos |-> pos, v |-> v, idx |-> pos, val |-> v,
                               vec |-> <<>>, ref |-> NoRef]
    BY DEF MoveCall, Call
  <2>2. <<v, Nil>> \in Seq({v, Nil}) /\ <<>> \in Seq({}) /\ Len(<<v, Nil>>) = 2 /\ Len(<<>>) = 0
    OBVIOUS
  <2>3. Sequential(<<v, Nil>>) /\ Sequential(<<>>)
    BY <2>2, InSeq
  <2>4. CASE op = "move"
    BY <2>1, <2>2, <2>3, <2>4 DEF IsCall, Fields
  <2>5. CASE op # "move"
    BY <2>1, <2>2, <2>3, <2>5 DEF IsCall, Fields
  <2> QED BY <2>4, <2>5
<1>2. /\ pc[th] = "idle" /\ Moves(th, Entry[op], r)
      /\ UNCHANGED <<t, property, lock, cleared>>
  BY DEF Start, At, Moves
<1>3. /\ Entry[op] \in Pcs \ (Nested \cup {"store"}) /\ op \in Comes(Entry[op])
      /\ pos = 1 \/ op \in {"set", "insert", "index", "move", "get", "remove"}
  BY DEF Start, Entry, Pcs, Nested, Comes, Writing, Setting
<1>4. ASSUME ~cleared PROVE Aims(Entry[op], r, Size, property)
  <2>1. IsArray(t) /\ Size \in Nat /\ ArrLen(t) = Size /\ pos \in Nat \ {0}
        /\ \A k : Has(t, k) <=> k \in 1..Size
    BY <1>4, HasKeys, ArrLenIsSize, KeysAssumption DEF IInv, Aimed, Size, Keys
  <2>2. op \in {"set", "insert", "index"} => pos \in 1..(Size + 1)
    BY <2>1 DEF Start
  <2>3. op = "move" => pos \in 1..Size /\ pos + 1 \in 1..Size
    BY <2>1 DEF Start
  <2>4. Entry[op] \in Writing \cup {"get", "copy", "peek"} /\ op \in Setting
          => op \in {"set", "move"}
    BY <1>3 DEF Entry, Start, Writing, Setting
  <2>5. op = "sort" => Entry[op] = "ipairs" /\ pos = 1
    BY DEF Entry, Start
  <2>6. Entry[op] # "keyed"
    BY <1>3 DEF Comes, Entry, Start
  <2> HIDE DEF r
  <2> QED BY <1>1, <2>1, <2>2, <2>3, <2>4, <2>5, <2>6 DEF Aims, Writing, Setting
<1>5. pc[th] \notin Nested \cup {"store"}
  BY <1>2 DEF Nested
<1> HIDE DEF r
<1> QED BY <1>1, <1>2, <1>3, <1>4, <1>5, Steps

\* The steps of a loop that only read.
LEMMA ReadStep ==
    ASSUME IInv, NEW th \in Threads,
           \/ NextEntry(th) \/ HasKey(th) \/ GetKey(th) \/ Peek(th) \/ IpairsBegin(th)
           \/ CloneTable(th) \/ ReadProperty(th) \/ Request(th) \/ Return(th)
    PROVE  IInv'
<1> DEFINE q == run[th]
<1>1. /\ DOMAIN q = Fields
      /\ q.op # "clone" => Sequential(q.vec)
      /\ q.op \in Comes(pc[th]) /\ run[th] = q
      /\ IsCall(q) /\ run = [run EXCEPT ![th] = q]
  BY DEF IInv, Running, IsCall
<1>2. ~cleared => /\ Aims(pc[th], q, Size, property) /\ Size \in Nat /\ property \in 0..(Size + 1)
                  /\ \A k : Has(t, k) <=> k \in 1..Size
  BY HasKeys DEF IInv, Aimed, Size
<1> HIDE DEF q
<1>3. CASE NextEntry(th)
  <2>1. /\ pc[th] = "next" /\ UNCHANGED <<t, property, lock, cleared>>
        /\ \E n : Visit(th, n)
    BY <1>3 DEF NextEntry, At, Reads
  <2>2. PICK n : Visit(th, n)
    BY <2>1
  <2> DEFINE r == IF n = 0 THEN q ELSE [q EXCEPT !.idx = n, !.ref = Refer(t.entries[n].key)]
  <2>3. /\ Moves(th, IF n = 0 THEN "done" ELSE "copy", r)
        /\ r.op = q.op /\ r.vec = q.vec /\ IsCall(r)
    BY <1>1, <2>2 DEF Visit, Moves, IsCall, Fields
  <2>4. q.op = "foreach"
    BY <1>1, <2>1 DEF Comes, Writing
  <2>5. \A next \in {"done", "copy"} :
          /\ Aims(next, r, Size, property) /\ r.op \in Comes(next)
          /\ next \in Pcs \ (Nested \cup {"store"})
    BY <2>3, <2>4 DEF Aims, Comes, Pcs, Nested, Writing, Setting
  <2> HIDE DEF r
  <2> QED BY <2>1, <2>3, <2>5, Steps DEF Nested
<1>4. CASE HasKey(th)
  <2>1. /\ pc[th] = "has" /\ UNCHANGED <<t, property, lock, cleared, run>>
        /\ q.op \in {"insert", "remove"}
    BY <1>1, <1>4 DEF HasKey, At, Reads, Comes, Writing
  <2>2. PICK next \in {"done", "get", "peek"} :
          /\ Goto(th, next)
          /\ next # "done" => Has(t, q.idx) \/ (q.op = "insert" /\ q.idx = q.pos)
          /\ next = "peek" => q.op = "remove"
    BY <1>1, <1>4, <2>1 DEF HasKey
  <2>3. Moves(th, next, q)
    BY <1>1, <2>1, <2>2 DEF Moves
  <2>5. pc[th] \notin Nested \cup {"store"} /\ next \in Pcs \ (Nested \cup {"store"})
    BY <2>1 DEF Nested, Pcs
  <2>6. q.op \in Comes(next)
    BY <2>1, <2>2 DEF Comes, Writing, Setting
  <2>4. ASSUME ~cleared PROVE Aims(next, q, Size, property)
    <3>1. q.op = "insert" => q.pos \in 1..(Size + 1)
      BY <1>2, <2>4 DEF Aims
    <3>2. next # "done" => q.idx \in 1..(Size + 1)
      BY <1>2, <2>2, <2>4, <3>1
    <3> QED BY <2>1, <2>4, <3>1, <3>2 DEF Aims, Writing
  <2> QED BY <1>1, <2>1, <2>3, <2>4, <2>5, <2>6, Steps
<1>5. CASE GetKey(th) \/ Peek(th) \/ IpairsBegin(th)
  <2>1. /\ pc[th] \in {"get", "peek", "ipairs"} /\ UNCHANGED <<t, property, lock, cleared>>
    BY <1>5 DEF GetKey, Peek, IpairsBegin, At, Reads
  <2>2. PICK ref : run' = [run EXCEPT ![th].ref = ref]
    BY <1>5 DEF GetKey, Peek, IpairsBegin
  <2>3. PICK next \in {"copy", "lock", "done"} :
          /\ Goto(th, next) 
          /\ pc[th] = "get" => next = "copy"
          /\ pc[th] = "peek" => next = "lock"
          /\ pc[th] = "ipairs" => (next = "copy" /\ Has(t, 1)) \/ next = "done"
    BY <1>5 DEF GetKey, Peek, IpairsBegin, At
  <2> DEFINE r == [q EXCEPT !.ref = ref]
  <2>4. Moves(th, next, r) /\ r.op = q.op /\ r.vec = q.vec /\ r.idx = q.idx /\ r.pos = q.pos /\ IsCall(r)
    BY <1>1, <2>2, <2>3 DEF Moves, IsCall, Fields
  <2>5. pc[th] \notin Nested \cup {"store"} /\ next \in Pcs \ (Nested \cup {"store"}) /\ r.op \in Comes(next)
    BY <1>1, <2>1, <2>3, <2>4 DEF Nested, Pcs, Comes, Writing, Setting
  <2>6. ~cleared => Aims(next, r, Size, property)
    <3> HIDE DEF r
    <3>1. pc[th] = "get" => q.op \in {"insert", "remove", "get"}
      BY <1>1, <2>1 DEF Comes, Writing
    <3>2. pc[th] = "peek" => q.op = "remove"
      BY <1>1, <2>1 DEF Comes, Writing
    <3>3. pc[th] = "ipairs" => q.op \in {"sort", "concat"}
      BY <1>1, <2>1 DEF Comes, Writing
    <3> QED BY <1>2, <2>1, <2>3, <2>4, <3>1, <3>2, <3>3 DEF Aims, Writing, Setting
  <2> HIDE DEF r
  <2> QED BY <2>1, <2>4, <2>5, <2>6, Steps
<1>6. CASE CloneTable(th)
  <2>1. /\ pc[th] = "clone" /\ UNCHANGED <<t, property, lock, cleared>> /\ Goto(th, "done")
        /\ run' = [run EXCEPT ![th].vec = KeysOf(Clone(t))]
    BY <1>6 DEF CloneTable, At, Reads
  <2> DEFINE r == [q EXCEPT !.vec = KeysOf(Clone(t))]
  <2>2. q.op = "clone"
    BY <1>1, <2>1 DEF Comes, Writing
  <2>3. Moves(th, "done", r) /\ r.op = "clone" /\ IsCall(r)
    BY <1>1, <2>1, <2>2 DEF Moves, IsCall, Fields
  <2>4. Aims("done", r, Size, property)
    BY <2>3 DEF Aims, Writing, Setting
  <2>5. r.op \in Comes("done") /\ "done" \in Pcs \ (Nested \cup {"store"})
    BY <2>3 DEF Comes, Pcs, Nested, Writing
  <2> HIDE DEF r
  <2> QED BY <2>1, <2>3, <2>4, <2>5, Steps DEF Nested
<1>7. CASE ReadProperty(th) \/ Request(th)
  <2>1. UNCHANGED <<t, property, lock, cleared>>
    BY <1>7 DEF ReadProperty, Request, Reads
  <2>4. \/ pc[th] = "keyed" /\ Goto(th, "lock") /\ run' = [run EXCEPT ![th].idx = property]
        \/ pc[th] = "lock" /\ Goto(th, "queued") /\ run' = run
    BY <1>7 DEF ReadProperty, Request, At
  <2>5. pc[th] = "keyed" => q.op = "index"
    BY <1>1 DEF Comes, Writing
  <2>2. CASE pc[th] = "keyed"
    <3> DEFINE r == [q EXCEPT !.idx = property]
    <3>1. Moves(th, "lock", r) /\ r.op = "index" /\ r.vec = q.vec /\ r.idx = property /\ r.pos = q.pos /\ IsCall(r)
      BY <1>1, <2>2, <2>4, <2>5 DEF Moves, IsCall, Fields
    <3>2. ~cleared => Aims("lock", r, Size, property)
      <4> HIDE DEF r
      <4> QED BY <1>2, <2>2, <2>5, <3>1 DEF Aims, Writing, Setting
    <3>3. r.op \in Comes("lock") /\ "lock" \in Pcs \ (Nested \cup {"store"})
      BY <3>1 DEF Comes, Pcs, Nested, Writing, Setting
    <3> HIDE DEF r
    <3> QED BY <2>1, <2>2, <3>1, <3>2, <3>3, Steps DEF Nested
  <2>3. CASE pc[th] = "lock"
    <3>1. Moves(th, "queued", q) /\ q.op \in Comes("queued") /\ "queued" \in Pcs \ (Nested \cup {"store"})
      BY <1>1, <2>3, <2>4 DEF Moves, Comes, Writing, Pcs, Nested
    <3>2. ~cleared => Aims("queued", q, Size, property)
      BY <1>2, <2>3 DEF Aims, Writing
    <3> QED BY <1>1, <2>1, <2>3, <3>1, <3>2, Steps DEF Nested
  <2> QED BY <2>2, <2>3, <2>4
<1>8. CASE Return(th)
  <2>1. pc[th] = "done" /\ UNCHANGED <<t, property, lock, cleared>> /\ Moves(th, "idle", Done)
    BY <1>8 DEF Return, At, Moves
  <2>2. IsCall(Done) /\ Done.op = "none"
    BY DEF Done, Call, IsCall, Fields, Sequential
  <2>3. Done.op \in Comes("idle") /\ "idle" \in Pcs \ (Nested \cup {"store"})
    BY <2>2 DEF Comes, Pcs, Nested, Writing
  <2>4. Aims("idle", Done, Size, property)
    BY <2>2 DEF Aims, Setting, Writing
  <2> QED BY <2>1, <2>2, <2>3, <2>4, Steps DEF Nested
<1> QED BY <1>3, <1>4, <1>5, <1>6, <1>7, <1>8

\* The steps that take the lock, or give it back after they have read.
LEMMA LockStep ==
    ASSUME IInv, NEW th \in Threads,
           LenLock(th) \/ LenHas(th) \/ Pairs(th) \/ PairsNext(th) \/ Acquire(th)
    PROVE  IInv'
<1> DEFINE q == run[th]
<1>1. /\ DOMAIN q = Fields
      /\ q.op # "clone" => Sequential(q.vec)
      /\ q.op \in Comes(pc[th]) /\ run[th] = q
      /\ IsCall(q) /\ run = [run EXCEPT ![th] = q]
  BY DEF IInv, Running, IsCall
<1>2. ~cleared => /\ Aims(pc[th], q, Size, property) /\ Size \in Nat /\ property \in 0..(Size + 1)
                  /\ ArrLen(t) = Size
  BY HasKeys, ArrLenIsSize DEF IInv, Aimed, Size
<1> HIDE DEF q
<1>3. UNCHANGED <<t, property, cleared>>
  BY DEF LenLock, LenHas, Pairs, PairsNext, Acquire
<1>4. ASSUME NEW next \in Pcs, NEW r, IsCall(r), r.op \in Comes(next), Moves(th, next, r), Locked',
             ~cleared => Aims(next, r, Size, property)
      PROVE  IInv'
  <2>1. ASSUME ~cleared'
        PROVE  /\ ~cleared /\ IsArray(t') /\ Len(t'.entries) >= Size
               /\ property' \in 0..(Len(t'.entries) + 1)
               /\ property' = property /\ Aims(next, r, Len(t'.entries), property')
    <3>1. Aimed
      BY <1>3, <2>1 DEF IInv
    <3> QED BY <1>2, <1>3, <1>4, <2>1, <3>1 DEF Aimed, Size
  <2>2. Running' /\ (~cleared' => Aimed')
    BY <1>4, <2>1, Moved DEF IInv
  <2> QED BY <1>4, <2>2 DEF IInv
<1>5. CASE LenLock(th) \/ Pairs(th) \/ Acquire(th)
  <2>1. /\ pc[th] \notin Nested \cup {"store"} /\ lock.writer = NoThread
        /\ UNCHANGED run
    BY <1>5 DEF LenLock, Pairs, Acquire, At, CanRead, CanWrite, Nested
  <2>2. \/ /\ pc[th] = "len" /\ Goto(th, "len_has") /\ lock' = [lock EXCEPT !.readers = @ \cup {th}]
        \/ /\ pc[th] = "pairs" /\ Goto(th, "pairs_next") /\ lock' = [lock EXCEPT !.readers = @ \cup {th}]
        \/ /\ pc[th] = "queued" /\ Goto(th, "store") /\ lock' = [lock EXCEPT !.writer = th]
           /\ lock.readers = {}
    BY <1>5 DEF LenLock, Pairs, Acquire, At, CanWrite
  <2>3. PICK next \in {"len_has", "pairs_next", "store"} :
          /\ Goto(th, next)
          /\ next = "len_has" => pc[th] = "len"
          /\ next = "pairs_next" => pc[th] = "pairs"
          /\ next = "store" => pc[th] = "queued" /\ lock.readers = {} /\ lock' = [lock EXCEPT !.writer = th]
          /\ next # "store" => lock' = [lock EXCEPT !.readers = @ \cup {th}]
    BY <2>2
  <2>4. Moves(th, next, q)
    BY <1>1, <2>1, <2>3 DEF Moves
  <2>5. Locked'
    BY <2>1, <2>3, ThreadsAssumption DEF IInv, Locked, Running, Goto, Nested
  <2>6. q.op \in Comes(next) /\ next \in Pcs
    BY <1>1, <2>3 DEF Comes, Writing, Pcs
  <2>7. ~cleared => Aims(next, q, Size, property)
    <3>1. next # "store" => q.op \notin {"sort", "move", "set", "index", "insert"}
      BY <1>1, <2>3 DEF Comes, Writing
    <3> QED BY <1>2, <2>3, <3>1 DEF Aims, Writing
  <2> QED BY <1>1, <1>4, <2>4, <2>5, <2>6, <2>7
<1>6. CASE LenHas(th)
  <2>1. /\ pc[th] = "len_has" /\ lock.writer = NoThread /\ lock' = [lock EXCEPT !.readers = @ \ {th}]
        /\ Goto(th, "lock") /\ run' = [run EXCEPT ![th].idx = ArrLen(t) + 1]
    BY <1>6 DEF LenHas, At, CanRead
  <2> DEFINE r == [q EXCEPT !.idx = ArrLen(t) + 1]
  <2>2. /\ Moves(th, "lock", r) /\ r.op = q.op /\ r.vec = q.vec /\ r.idx = ArrLen(t) + 1
        /\ r.pos = q.pos /\ IsCall(r)
    BY <1>1, <2>1 DEF Moves, IsCall, Fields
  <2>3. Locked'
    BY <2>1, ThreadsAssumption DEF IInv, Locked, Running, Goto, Nested
  <2>4. q.op = "append" /\ q.op \in Comes("lock") /\ "lock" \in Pcs
    BY <1>1, <2>1 DEF Comes, Writing, Setting, Pcs
  <2>5. ~cleared => Aims("lock", r, Size, property)
    <3> HIDE DEF r
    <3> QED BY <1>2, <2>2, <2>4 DEF Aims
  <2> HIDE DEF r
  <2> QED BY <1>4, <2>2, <2>3, <2>4, <2>5
<1>7. CASE PairsNext(th)
  <2>1. /\ pc[th] = "pairs_next" /\ lock.writer = NoThread /\ lock' = [lock EXCEPT !.readers = @ \ {th}]
        /\ \E n : Visit(th, n)
    BY <1>7 DEF PairsNext, At, CanRead
  <2>2. PICK n : Visit(th, n)
    BY <2>1
  <2> DEFINE r == IF n = 0 THEN q ELSE [q EXCEPT !.idx = n, !.ref = Refer(t.entries[n].key)]
  <2>3. PICK next \in {"done", "copy"} : Moves(th, next, r)
    BY <1>1, <2>2 DEF Visit, Moves
  <2>4. r.op = q.op /\ r.vec = q.vec /\ IsCall(r)
    BY <1>1 DEF IsCall, Fields
  <2>5. Locked'
    BY <2>1, <2>3, ThreadsAssumption DEF IInv, Locked, Running, Goto, Nested, Moves
  <2>6. q.op = "foreach"
    BY <1>1, <2>1 DEF Comes, Writing
  <2>7. Aims(next, r, Size, property) /\ r.op \in Comes(next) /\ next \in Pcs
    BY <2>4, <2>6 DEF Aims, Comes, Pcs, Writing, Setting
  <2> HIDE DEF r
  <2> QED BY <1>4, <2>3, <2>4, <2>5, <2>7
<1> QED BY <1>5, <1>6, <1>7

\* A value is copied through its reference.
LEMMA CopyStep == ASSUME IInv, NEW th \in Threads, Copy(th) PROVE IInv'
<1> DEFINE q == run[th]
<1>1. /\ DOMAIN q = Fields
      /\ q.op # "clone" => Sequential(q.vec)
      /\ q.op \in Comes(pc[th]) /\ run[th] = q
  BY DEF IInv, Running, IsCall
<1>2. ~cleared => Aims(pc[th], q, Size, property) /\ Size \in Nat
  BY HasKeys DEF IInv, Aimed, Size
<1> HIDE DEF q
<1>3. CASE Broken(run[th].ref)
  <2>1. UNCHANGED <<t, property, lock, pc, run, cleared>>
    BY <1>3 DEF Copy, Fails
  <2> QED BY <2>1 DEF IInv, Locked, Running, Aimed, Size
<1>4. CASE ~Broken(run[th].ref)
  <2>1. pc[th] = "copy" /\ UNCHANGED <<t, property, lock, cleared>>
    BY <1>4 DEF Copy, At, Reads
  <2>2. q.op \in {"insert", "remove", "get", "sort", "concat", "foreach"}
    BY <1>1, <2>1 DEF Comes, Writing
  <2>3. PICK v : v = Value(run[th].ref)
    OBVIOUS
  <2>4. run' = [run EXCEPT ![th].vec = Append(@, v)]
    BY <1>4, <2>3 DEF Copy
  <2>5. PICK next \in {"done", "lock", "peek", "next", "step"} :
          /\ Goto(th, next)
          /\ q.op = "get" => next = "done"
          /\ q.op = "insert" => next = "lock"
          /\ q.op = "remove" => next = "peek"
          /\ q.op = "foreach" => next = "next"
          /\ q.op \in {"sort", "concat"} => next = "step"
    BY <1>1, <1>4, <2>2 DEF Copy
  <2> DEFINE r == [q EXCEPT !.vec = Append(q.vec, v)]
             R == {q.vec[i] : i \in DOMAIN q.vec}
  <2>6. q.vec \in Seq(R)
    BY <1>1, <2>2 DEF Sequential
  <2>7. Append(q.vec, v) \in Seq(R \cup {v}) /\ Len(Append(q.vec, v)) = Len(q.vec) + 1 /\ Len(q.vec) \in Nat
    <3> HIDE DEF R
    <3> QED BY <2>6
  <2>8. Sequential(Append(q.vec, v))
    BY <2>7, InSeq
  <2>9. /\ Moves(th, next, r) /\ r.op = q.op /\ r.idx = q.idx /\ r.pos = q.pos
        /\ r.vec = Append(q.vec, v) /\ IsCall(r)
    BY <1>1, <2>4, <2>5, <2>8 DEF Moves, IsCall, Fields
  <2> HIDE DEF r, R
  <2>10. pc[th] \notin Nested \cup {"store"} /\ next \in Pcs \ (Nested \cup {"store"})
    BY <2>1 DEF Nested, Pcs
  <2>11. r.op \in Comes(next)
    BY <2>2, <2>5, <2>9 DEF Comes, Writing, Setting
  <2>12. ~cleared => Aims(next, r, Size, property)
    BY <1>2, <2>1, <2>2, <2>5, <2>7, <2>9 DEF Aims, Writing, Setting
  <2> QED BY <2>1, <2>9, <2>10, <2>11, <2>12, Steps
<1> QED BY <1>3, <1>4

\* The iterator of sort and concat goes on, or sort starts to write.
LEMMA StepStep == ASSUME IInv, NEW th \in Threads, Step(th) PROVE IInv'
<1> DEFINE q == run[th]
<1>1. /\ DOMAIN q = Fields
      /\ q.op # "clone" => Sequential(q.vec)
      /\ q.op \in Comes(pc[th]) /\ run[th] = q
      /\ IsCall(q) /\ run = [run EXCEPT ![th] = q]
  BY DEF IInv, Running, IsCall
<1>2. ~cleared => /\ Aims(pc[th], q, Size, property) /\ Size \in Nat
                  /\ \A k : Has(t, k) <=> k \in 1..Size
  BY HasKeys DEF IInv, Aimed, Size
<1> HIDE DEF q
<1>3. CASE WritesMap
  <2>1. UNCHANGED <<t, property, lock, pc, run, cleared>>
    BY <1>3 DEF Step, Fails
  <2> QED BY <2>1 DEF IInv, Locked, Running, Aimed, Size
<1>4. CASE ~WritesMap
  <2>1. pc[th] = "step" /\ UNCHANGED <<t, property, lock, cleared>>
    BY <1>4 DEF Step, At, Reads
  <2>2. q.op \in {"sort", "concat"} /\ pc[th] \notin Nested \cup {"store"}
    BY <1>1, <2>1 DEF Comes, Writing, Nested
  <2>3. CASE Has(t, q.idx + 1)
    <3>1. run' = [run EXCEPT ![th].idx = @ + 1, ![th].ref = Refer(q.idx + 1)] /\ Goto(th, "copy")
      BY <1>1, <1>4, <2>3 DEF Step
    <3> DEFINE r == [q EXCEPT !.idx = q.idx + 1, !.ref = Refer(q.idx + 1)]
    <3>2. /\ Moves(th, "copy", r) /\ r.op = q.op /\ r.idx = q.idx + 1 /\ r.pos = q.pos
          /\ r.vec = q.vec /\ IsCall(r)
      BY <1>1, <3>1 DEF Moves, IsCall, Fields
    <3> HIDE DEF r
    <3>3. r.op \in Comes("copy") /\ "copy" \in Pcs \ (Nested \cup {"store"})
      BY <2>2, <3>2 DEF Comes, Writing, Nested, Pcs
    <3>4. ~cleared => Aims("copy", r, Size, property)
      BY <1>2, <2>1, <2>2, <2>3, <3>2 DEF Aims, Writing, Setting
    <3> QED BY <2>1, <2>2, <3>2, <3>3, <3>4, Steps
  <2>4. CASE ~Has(t, q.idx + 1) /\ q.op = "concat"
    <3>1. Moves(th, "done", q)
      BY <1>1, <1>4, <2>4 DEF Step, Moves
    <3>2. q.op \in Comes("done") /\ "done" \in Pcs \ (Nested \cup {"store"})
      BY <2>4 DEF Comes, Writing, Nested, Pcs
    <3>3. Aims("done", q, Size, property)
      BY <2>4 DEF Aims, Writing, Setting
    <3> QED BY <1>1, <2>1, <2>2, <3>1, <3>2, <3>3, Steps
  <2>5. CASE ~Has(t, q.idx + 1) /\ q.op = "sort"
    <3>1. PICK sorted : sorted = Sorted(q.vec)
      OBVIOUS
    <3>2. run' = [run EXCEPT ![th].idx = 1, ![th].val = sorted[1], ![th].vec = sorted,
                             ![th].ref = NoRef]
          /\ Goto(th, "lock")
      BY <1>1, <1>4, <2>5, <3>1 DEF Step
    <3> DEFINE r == [q EXCEPT !.idx = 1, !.val = sorted[1], !.vec = sorted, !.ref = NoRef]
    <3>3. Sequential(sorted) /\ Len(sorted) = Len(q.vec) /\ Len(q.vec) \in Nat
      <4>1. Len(q.vec) \in Nat /\ DOMAIN q.vec = 1..Len(q.vec)
        BY <1>1, <2>5, InSeq DEF Sequential
      <4>2. sorted \in [1..Len(q.vec) -> {sorted[i] : i \in 1..Len(q.vec)}]
        BY <3>1, <4>1 DEF Sorted
      <4>3. sorted \in Seq({sorted[i] : i \in 1..Len(q.vec)}) /\ Len(sorted) = Len(q.vec)
        BY <4>1, <4>2
      <4> QED BY <4>1, <4>3, InSeq
    <3>4. /\ Moves(th, "lock", r) /\ r.op = "sort" /\ r.idx = 1 /\ r.pos = q.pos
          /\ r.vec = sorted /\ IsCall(r)
      BY <1>1, <2>5, <3>2, <3>3 DEF Moves, IsCall, Fields
    <3> HIDE DEF r
    <3>5. r.op \in Comes("lock") /\ "lock" \in Pcs \ (Nested \cup {"store"})
      BY <3>4 DEF Comes, Writing, Setting, Nested, Pcs
    <3>6. ~cleared => Aims("lock", r, Size, property)
      BY <1>2, <2>1, <2>5, <3>3, <3>4 DEF Aims, Writing, Setting
    <3> QED BY <2>1, <2>2, <3>4, <3>5, <3>6, Steps
  <2> QED BY <2>2, <2>3, <2>4, <2>5
<1> QED BY <1>3, <1>4

\* operator[] keeps its key.
LEMMA AssignStep == ASSUME IInv, NEW th \in Threads, AssignProperty(th) PROVE IInv'
<1> DEFINE q == run[th]
<1>1. /\ q.op = "index" /\ IsCall(q) /\ run = [run EXCEPT ![th] = q]
  BY DEF IInv, Running, Comes, Writing, AssignProperty, At
<1>2. /\ pc[th] = "assign" /\ property' = q.pos /\ Goto(th, "keyed")
      /\ UNCHANGED <<t, lock, run, cleared>>
  BY DEF AssignProperty, At
<1>3. ASSUME ~cleared
      PROVE  /\ Aims(pc[th], q, Size, property) /\ Size \in Nat
             /\ IsArray(t) /\ q.pos \in 1..(Size + 1)
  BY <1>1, <1>3, HasKeys DEF IInv, Aimed, Size, Aims
<1> HIDE DEF q
<1>4. Moves(th, "keyed", q) /\ q.op \in Comes("keyed") /\ "keyed" \in Pcs
  BY <1>1, <1>2 DEF Moves, Comes, Pcs, Writing
<1>5. Locked'
  BY <1>2 DEF IInv, Locked, Running, Goto, Nested
<1>6. ASSUME ~cleared'
      PROVE  /\ ~cleared /\ IsArray(t') /\ Len(t'.entries) >= Size
             /\ property' \in 0..(Len(t'.entries) + 1) /\ property' # 0
             /\ Aims("keyed", q, Len(t'.entries), property')
  <2>1. ~cleared /\ Len(t'.entries) = Size
    BY <1>2, <1>6 DEF Size
  <2>2. Size \in Nat /\ q.pos \in 1..(Size + 1) /\ IsArray(t)
    BY <1>3, <2>1
  <2>3. Aims("keyed", q, Size, q.pos)
    BY <1>1, <2>2 DEF Aims, Writing
  <2> QED BY <1>2, <2>1, <2>2, <2>3
<1>7. Running' /\ (~cleared' => Aimed')
  BY <1>1, <1>4, <1>6, Moved DEF IInv
<1> QED BY <1>5, <1>7 DEF IInv

\* What is written keeps the array and drops nothing; it adds a key at most.
LEMMA EffectKeepsArray ==
    ASSUME NEW th \in Threads, IsArray(t), run[th].op \in Setting \cup {"clear", "freeze", "unfreeze"},
           pc[th] = "store", ~Clears(th),
           run[th].op \in Setting => run[th].idx \in 1..(Size + 1)
    PROVE  IsArray(Effect(run[th])) /\ Len(Effect(run[th]).entries) >= Size
<1> DEFINE q == run[th]
<1>1. Size \in Nat /\ t = [entries |-> t.entries, frozen |-> t.frozen]
  BY HasKeys DEF Size, IsArray
<1>2. CASE q.op = "clear"
  <2>1. ~t.frozen \/ t.entries = <<>>
    BY <1>2 DEF Clears
  <2>2. Effect(q) = t
    BY <1>1, <1>2, <2>1 DEF Effect, Clear
  <2> QED BY <1>1, <2>2 DEF Size
<1>3. CASE q.op \in {"freeze", "unfreeze"}
  <2>1. PICK b : b = (q.op = "freeze")
    OBVIOUS
  <2>2. PICK s : s = Effect(q)
    OBVIOUS
  <2>3. s = [entries |-> t.entries, frozen |-> b]
    BY <1>1, <1>3, <2>1, <2>2 DEF Effect
  <2>4. s.entries = t.entries /\ s = [entries |-> s.entries, frozen |-> s.frozen]
    BY <2>3
  <2>5. IsArray(s)
    BY <2>4 DEF IsArray
  <2> HIDE DEF q
  <2> QED BY <1>1, <2>2, <2>4, <2>5 DEF Size, q
<1>4. CASE q.op \in Setting
  <2>1. \E v : Effect(q) = Set(t, q.idx, v)
    BY <1>4 DEF Effect, Setting
  <2> HIDE DEF q
  <2> QED BY <1>4, <2>1, SetKeepsArray DEF Size, q
<1> QED BY <1>2, <1>3, <1>4

\* The step of a loop that writes: the loop goes on at a key that is there.
LEMMA ResumeAims ==
    ASSUME Running, NEW th \in Threads, pc[th] = "store", Resume(th)
    PROVE  \E next \in {"has", "lock", "done"} : \E r :
              /\ Moves(th, next, r) /\ IsCall(r) /\ r.op = run[th].op /\ r.op \in Comes(next)
              /\ \A n \in Nat : \A key : Aims("store", run[th], n, key) => Aims(next, r, n, key)
<1> DEFINE q == run[th]
<1>1. /\ IsCall(q) /\ DOMAIN q = Fields /\ Sequential(q.vec)
      /\ q.op \in Setting \cup {"clear", "freeze", "unfreeze"} /\ run = [run EXCEPT ![th] = q]
  BY DEF Running, Comes, Writing, IsCall, Setting
<1>7. Len(q.vec) \in Nat
  BY <1>1, InSeq DEF Sequential
<1>8. run[th] = q
  OBVIOUS
<1> HIDE DEF q
<1>9. Sequential(<<>>) /\ Len(<<>>) = 0
  BY DEF Sequential
<1>2. CASE q.op = "insert"
  <2> DEFINE r == [q EXCEPT !.idx = q.idx + 1, !.val = q.vec[1], !.vec = <<>>, !.ref = NoRef]
  <2>1. Moves(th, "has", r)
    BY <1>2, <1>8 DEF Resume, Moves
  <2>2. r.op = "insert" /\ r.pos = q.pos /\ IsCall(r)
    BY <1>1, <1>2, <1>9 DEF IsCall, Fields
  <2> HIDE DEF r
  <2>3. \A n \in Nat : \A key : Aims("store", q, n, key) => Aims("has", r, n, key)
    BY <1>2, <2>2 DEF Aims, Writing
  <2>4. r.op \in Comes("has")
    BY <2>2 DEF Comes, Writing
  <2> QED BY <1>2, <1>8, <2>1, <2>2, <2>3, <2>4
<1>3. CASE q.op = "remove"
  <2> DEFINE r == [q EXCEPT !.idx = q.idx + 1, !.ref = NoRef]
  <2>1. Moves(th, "has", r)
    BY <1>3, <1>8 DEF Resume, Moves
  <2>2. r.op = "remove" /\ r.pos = q.pos /\ IsCall(r)
    BY <1>1, <1>3 DEF IsCall, Fields
  <2> HIDE DEF r
  <2>3. \A n \in Nat : \A key : Aims("store", q, n, key) => Aims("has", r, n, key)
    BY <1>3, <2>2 DEF Aims, Writing
  <2>4. r.op \in Comes("has")
    BY <2>2 DEF Comes, Writing
  <2> QED BY <1>3, <1>8, <2>1, <2>2, <2>3, <2>4
<1>4. CASE q.op \in {"sort", "move"} /\ q.idx - q.pos + 1 < Len(q.vec)
  <2> DEFINE r == [q EXCEPT !.idx = q.idx + 1, !.val = q.vec[q.idx - q.pos + 2]]
  <2>1. Moves(th, "lock", r)
    BY <1>4, <1>8 DEF Resume, Moves
  <2>2. r.op = q.op /\ r.pos = q.pos /\ r.idx = q.idx + 1 /\ r.vec = q.vec /\ IsCall(r)
    BY <1>1 DEF IsCall, Fields
  <2> HIDE DEF r
  <2>3. \A n \in Nat : \A key : Aims("store", q, n, key) => Aims("lock", r, n, key)
    BY <1>4, <1>7, <2>2 DEF Aims, Writing, Setting
  <2>4. r.op \in Comes("lock")
    BY <1>1, <2>2 DEF Comes, Writing
  <2> QED BY <1>8, <2>1, <2>2, <2>3, <2>4
<1>5. CASE /\ q.op \notin {"insert", "remove"}
           /\ ~(q.op \in {"sort", "move"} /\ q.idx - q.pos + 1 < Len(q.vec))
  <2>1. Moves(th, "done", q)
    BY <1>1, <1>5, <1>8 DEF Resume, Moves
  <2>2. \A n \in Nat : \A key : Aims("store", q, n, key) => Aims("done", q, n, key)
    BY DEF Aims, Writing
  <2>3. q.op \in Comes("done")
    BY <1>1 DEF Comes, Writing, Setting
  <2> QED BY <1>1, <1>8, <2>1, <2>2, <2>3
<1> QED BY <1>2, <1>3, <1>4, <1>5

\* What is written under the lock.
LEMMA StoreStep == ASSUME IInv, NEW th \in Threads, Store(th) PROVE IInv'
<1>1. pc[th] = "store"
  BY DEF Store, At
<1>2. CASE run[th].op = "remove" /\ run[th].ref.stale
  <2>1. UNCHANGED <<t, property, lock, pc, run, cleared>>
    BY <1>2 DEF Store, Fails
  <2> QED BY <2>1 DEF IInv, Locked, Running, Aimed, Size
<1>3. CASE ~(run[th].op = "remove" /\ run[th].ref.stale)
  <2>1. /\ t' = Effect(run[th]) /\ lock' = [lock EXCEPT !.writer = NoThread]
        /\ cleared' = (cleared \/ Clears(th)) /\ UNCHANGED property
        /\ IF Clears(th) THEN Goto(th, "done") /\ run' = Stale(run, th) ELSE Resume(th)
    BY <1>3 DEF Store
  <2>2. ASSUME NEW next \in {"has", "lock", "done"}, Goto(th, next) PROVE Locked'
    BY <1>1, <2>1, <2>2, ThreadsAssumption DEF IInv, Locked, Running, Goto, Nested
  <2>3. CASE Clears(th)
    <3>1. \A u \in Threads :
            run'[u] = [run[u] EXCEPT !.ref.stale = @ \/ (Clears(th) /\ run[u].ref.key # 0)]
      BY <2>1, <2>3 DEF Stale
    <3>2. ASSUME NEW u \in Threads PROVE IsCall(run'[u]) /\ run'[u].op = run[u].op
      <4>1. IsCall(run[u]) /\ DOMAIN run[u] = Fields
        BY DEF IInv, Running, IsCall
      <4>2. PICK ref : run'[u] = [run[u] EXCEPT !.ref = ref]
        BY <3>1
      <4>3. /\ DOMAIN run'[u] = Fields /\ run'[u].op = run[u].op /\ run'[u].vec = run[u].vec
        BY <4>1, <4>2 DEF Fields
      <4> QED BY <4>1, <4>3 DEF IsCall
    <3>3. run' = [u \in Threads |-> run'[u]]
      BY <2>1, <2>3 DEF Stale
    <3>4. run[th].op = "clear" /\ pc' = [pc EXCEPT ![th] = "done"]
      BY <2>1, <2>3 DEF Clears, Goto
    <3>5. "clear" \in Comes("done") /\ "done" \in Pcs
      BY DEF Comes, Pcs, Writing
    <3>6. Running'
      BY <3>2, <3>3, <3>4, <3>5 DEF IInv, Running
    <3> QED BY <2>1, <2>2, <2>3, <3>6 DEF IInv
  <2>4. CASE ~Clears(th)
    <3>0. PICK next \in {"has", "lock", "done"} : \E r :
            /\ Moves(th, next, r) /\ IsCall(r) /\ r.op = run[th].op /\ r.op \in Comes(next)
            /\ \A n \in Nat : \A key : Aims("store", run[th], n, key) => Aims(next, r, n, key)
      BY <1>1, <2>1, <2>4, ResumeAims DEF IInv
    <3>1. PICK r :
            /\ Moves(th, next, r) /\ IsCall(r) /\ r.op = run[th].op /\ r.op \in Comes(next)
            /\ \A n \in Nat : \A key : Aims("store", run[th], n, key) => Aims(next, r, n, key)
      BY <3>0
    <3>2. ASSUME ~cleared'
          PROVE  /\ ~cleared /\ IsArray(t') /\ Len(t'.entries) >= Size
                 /\ property' \in 0..(Len(t'.entries) + 1)
                 /\ property' = property
                 /\ Aims(next, r, Len(t'.entries), property')
      <4>1. ~cleared /\ property' = property
        BY <2>1, <3>2
      <4>2. /\ IsArray(t) /\ Size \in Nat /\ property \in 0..(Size + 1) /\ IsCall(run[th])
            /\ Aims("store", run[th], Size, property)
            /\ run[th].op \in Setting \cup {"clear", "freeze", "unfreeze"}
        BY <1>1, <4>1, HasKeys DEF IInv, Aimed, Running, Size, Comes, Writing
      <4>3. run[th].op \in Setting => run[th].idx \in 1..(Size + 1)
        BY <4>2 DEF Aims, Writing
      <4>4. IsArray(t') /\ Len(t'.entries) >= Size
        BY <1>1, <2>1, <2>4, <4>2, <4>3, EffectKeepsArray
      <4>5. Len(t'.entries) \in Nat
        BY <4>4, HasKeys
      <4>6. Aims("store", run[th], Len(t'.entries), property)
        BY <4>2, <4>4, <4>5, AimsLonger
      <4> QED BY <3>1, <4>1, <4>2, <4>4, <4>5, <4>6
    <3>3. next \in Pcs
      BY DEF Pcs
    <3>4. Running' /\ (~cleared' => Aimed')
      BY <3>1, <3>2, <3>3, Moved DEF IInv
    <3> QED BY <2>2, <3>1, <3>4 DEF IInv, Moves
  <2> QED BY <2>3, <2>4
<1> QED BY <1>2, <1>3

----------------------------------------------------------------------------
(* What an operation has done that nobody disturbed. *)

\* The lemmas of LuaTableProofs about the operators of LuaTableOps.
Ops == INSTANCE LuaTableProofs WITH
    Tables <- {}, NoTable <- 0, Keys <- Nat, Values <- {}, Builds <- {},
    dev <- FALSE, tables <- <<>>, it <- 0, status <- 0

Positive == Nat \ {0}
\* A map of any values; key 0 is that of NIL_OBJECT_REF.
Held(s) == {s.entries[i].value : i \in DOMAIN s.entries}
IsMap(s) == s \in Ops!Maps(Positive, Held(s))
\* The key that get(k) refers to.
KeyRef(s, k) == IF Has(s, k) THEN k ELSE 0

\* The values that the loops of insert and remove write, one each round, to a
\* table that was s when they began.
Pushes(r, s) == [i \in Positive |-> IF i = 1 THEN r.v ELSE Get(s, r.pos + i - 2)]
Pulls(r, s) == [i \in Positive |-> Get(s, r.pos + i)]
Firsts(f, n) == [i \in 1..n |-> f[i]]
\* The values that ipairs and pairs meet.
Scans(s) == [i \in Positive |-> Get(s, i)]
Visits(s) == [i \in DOMAIN s.entries |-> s.entries[i].value]

\* r is at a step, the table was s when it began and is x, and operator[] keeps key.
\* One locked section, or two that have nothing to remember but a key.
OneWrite(at, r, s, x, key) ==
    /\ x = s /\ r.val = r.v
    /\ r.op = "set" => r.idx = r.pos
    /\ r.op = "index" /\ at = "keyed" => key = r.pos
    /\ r.op = "index" /\ at \in Writing => r.idx = r.pos
    /\ r.op = "append" /\ at \in Writing => r.idx = ArrLen(s) + 1
Getting(at, r, s, x) ==
    /\ x = s /\ r.vec = <<>> /\ r.idx = r.pos
    /\ at = "copy" => r.ref.key = KeyRef(s, r.pos)
\* foreach has visited the entries before idx.
Visiting(at, r, s, x) ==
    /\ x = s
    /\ r.vec = Firsts(Visits(s), CASE at = "copy" -> r.idx - 1 [] at = "next" -> r.idx [] OTHER -> 0)
    /\ at \in {"copy", "next"} => r.idx \in DOMAIN s.entries
    /\ at = "copy" => r.ref.key = s.entries[r.idx].key
\* concat and sort have read the keys before idx.
Scanning(at, r, s, x) ==
    /\ x = s /\ r.pos = 1
    /\ r.vec = Firsts(Scans(s), IF at = "step" THEN r.idx ELSE r.idx - 1)
    /\ at = "ipairs" => r.idx = 1
    /\ at \in {"copy", "step"} => \A i \in 1..r.idx : Has(s, i)
    /\ at = "copy" => r.ref.key = r.idx
\* sort and move have written the values of vec before the one at idx.
Filling(r, s, x) ==
    /\ r.op = "sort" => r.pos = 1 /\ r.vec = Sorted(Ipairs(s, 1))
    /\ r.op = "move" => r.vec = <<r.v, Nil>>
    /\ r.idx \in r.pos..(r.pos + Len(r.vec) - 1) /\ r.val = r.vec[r.idx - r.pos + 1]
    /\ x = SetFrom(s, r.pos, Firsts(r.vec, r.idx - r.pos))
\* insert has moved the values up that were before idx; val comes next.
Pushing(at, r, s, x) ==
    /\ r.idx >= r.pos /\ x = SetFrom(s, r.pos, Firsts(Pushes(r, s), r.idx - r.pos))
    /\ \A i \in (r.pos + 1)..(r.idx - 1) : Has(s, i)
    /\ at # "has" => r.idx = r.pos \/ Has(s, r.idx)
    /\ r.val = Pushes(r, s)[r.idx - r.pos + 1]
    /\ r.vec = IF at \in Writing THEN <<Get(s, r.idx)>> ELSE <<>>
    /\ at = "copy" => r.ref.key = KeyRef(s, r.idx)
\* remove has moved the values down that were up to idx.
Pulling(at, r, s, x) ==
    /\ r.idx >= r.pos /\ x = SetFrom(s, r.pos, Firsts(Pulls(r, s), r.idx - r.pos))
    /\ \A i \in r.pos..(r.idx - 1) : Has(s, i)
    /\ at # "has" => Has(s, r.idx)
    /\ at \in {"get", "copy"} => r.idx = r.pos
    /\ r.vec = IF at \in {"get", "copy"} \/ (at = "has" /\ r.idx = r.pos) THEN <<>> ELSE <<Get(s, r.pos)>>
    /\ at = "copy" => r.ref.key = r.idx
    /\ at \in Writing => r.ref.key = KeyRef(s, r.idx + 1)

Singles == {"set", "index", "append", "clear", "freeze", "unfreeze", "clone"}
Follows(at, r, s, x, key) ==
    IF at = "done" THEN x = Result(r, s) /\ r.vec = Observed(r, s)
    ELSE /\ ~r.ref.stale
         /\ r.op \in Singles => OneWrite(at, r, s, x, key)
         /\ r.op = "get" => Getting(at, r, s, x)
         /\ r.op = "foreach" => Visiting(at, r, s, x)
         /\ r.op \in {"sort", "concat"} /\ at \notin Writing => Scanning(at, r, s, x)
         /\ r.op = "move" \/ (r.op = "sort" /\ at \in Writing) => Filling(r, s, x)
         /\ r.op = "insert" => Pushing(at, r, s, x)
         /\ r.op = "remove" => Pulling(at, r, s, x)

\* Keys and positions are positive, and an assignment has a key to go to.
Mapped ==
    /\ IsMap(t) /\ property \in Nat /\ before = [th \in Threads |-> before[th]]
    /\ \A th \in Threads :
        /\ run[th].op # "none" => run[th].pos \in Positive /\ run[th].idx \in Positive
        /\ pc[th] = "keyed" => property # 0
Tracked == \A th \in Threads : before[th] # NoTable =>
              IsMap(before[th]) /\ Follows(pc[th], run[th], before[th], t, property)

----------------------------------------------------------------------------
(* Lemmas of LuaTableProofs. *)

\* They rest on no assumption that this instance does not meet.
LEMMA Fits ==
    /\ 0 \notin {} /\ {} \subseteq Nat \ {Ops!Nil} /\ {} \subseteq BOOLEAN
    /\ Nat \subseteq Nat /\ {Ops!NameKey, 1} \subseteq Nat /\ \A k \in Nat : 0..k \subseteq Nat
BY DEF Ops!NameKey

\* They are about the same operators.
LEMMA Alike ==
    ASSUME NEW s, NEW k, NEW v
    PROVE  /\ Ops!Has(s, k) = Has(s, k) /\ Ops!Get(s, k) = Get(s, k)
           /\ Ops!Set(s, k, v) = Set(s, k, v) /\ Ops!RunFrom(s, k) = RunFrom(s, k)
<1>1. Ops!Has(s, k) = Has(s, k)
  BY DEF Ops!Has, Has
<1>2. Ops!Get(s, k) = Get(s, k)
  BY DEF Ops!Has, Has, Ops!Get, Get, Ops!Position, Position, Ops!Nil, Nil
<1>3. Ops!Set(s, k, v) = Set(s, k, v)
  BY DEF Ops!Has, Has, Ops!Put, Put, Ops!Position, Position, Ops!Set, Set
<1>4. Ops!RunFrom(s, k) = RunFrom(s, k)
  BY DEF Ops!Has, Has, Ops!RunFrom, RunFrom, Ops!Max, Max
<1> QED BY <1>1, <1>2, <1>3, <1>4

\* They are about the same loops.
LEMMA AlikeLoops ==
    ASSUME NEW s, NEW k, NEW e
    PROVE  Ops!SetFrom(s, k, e) = SetFrom(s, k, e) /\ Ops!Clone(s) = Clone(s) /\ Ops!Table = Table
<1>1. Ops!SetFrom(s, k, e) = SetFrom(s, k, e)
  BY DEF Ops!Has, Has, Ops!Put, Put, Ops!Position, Position, Ops!Set, Set, Ops!SetFrom, SetFrom
<1>2. Ops!Table = Table
  BY DEF Ops!Table, Table
<1>3. Ops!Clone(s) = Clone(s)
  BY DEF Ops!Has, Has, Ops!Put, Put, Ops!Position, Position, Ops!Set, Set, Ops!Clone, Clone, Ops!Table, Table
<1> QED BY <1>1, <1>2, <1>3

\* A map of some values is a map.
LEMMA MapHere ==
    ASSUME NEW V, NEW s \in Ops!Maps(Positive, V)
    PROVE  IsMap(s)
<1>1. PICK e : e = s.entries
  OBVIOUS
<1>2. /\ e \in Seq(Ops!Entries(Positive, V)) /\ s.frozen \in BOOLEAN
      /\ DOMAIN e = 1..Len(e) /\ Len(e) \in Nat
      /\ s = [entries |-> e, frozen |-> s.frozen]
      /\ \A i \in 1..Len(e) : e[i].key \in Positive /\ e[i] = [key |-> e[i].key, value |-> e[i].value]
      /\ \A i, j \in 1..Len(e) : e[i].key = e[j].key => i = j
  BY <1>1, Fits, Ops!MapShape
<1>3. PICK W : W = {e[i].value : i \in DOMAIN e} /\ W = Held(s)
  BY <1>1 DEF Held
<1>4. \A i \in 1..Len(e) : e[i] \in Ops!Entries(Positive, W)
  BY <1>2, <1>3 DEF Ops!Entries
<1>5. e \in Seq(Ops!Entries(Positive, W))
  BY <1>2, <1>4
<1>6. [entries |-> e, frozen |-> s.frozen] \in Ops!Maps(Positive, W)
  BY <1>2, <1>5, Fits, Ops!MapBuilt
<1> QED BY <1>2, <1>3, <1>6 DEF IsMap

\* A map may have more values.
LEMMA MapThere ==
    ASSUME NEW s, IsMap(s), NEW V
    PROVE  s \in Ops!Maps(Positive, Held(s) \cup V)
<1>1. s \in Ops!Maps(Positive, Held(s)) /\ Held(s) \subseteq Held(s) \cup V
  BY DEF IsMap, Held
<1> QED BY <1>1, Fits, Ops!MapsWider

\* The entries of a map: one for each of its keys.
LEMMA Shape ==
    ASSUME NEW s, IsMap(s)
    PROVE  /\ Len(s.entries) \in Nat /\ DOMAIN s.entries = 1..Len(s.entries)
           /\ s = [entries |-> s.entries, frozen |-> s.frozen] /\ s.frozen \in BOOLEAN
           /\ s.entries = <<>> <=> Len(s.entries) = 0
           /\ \A i \in 1..Len(s.entries) :
                s.entries[i].key \in Positive /\ Get(s, s.entries[i].key) = s.entries[i].value
                /\ Has(s, s.entries[i].key)
           /\ \A k : Has(s, k) => k \in Positive
           /\ \A k : ~Has(s, k) => Get(s, k) = Nil
<1>1. s \in Ops!Maps(Positive, Held(s))
  BY DEF IsMap, Held
<1>2. PICK e : e = s.entries
  OBVIOUS
<1>3. /\ e \in Seq(Ops!Entries(Positive, Held(s))) /\ s.frozen \in BOOLEAN
      /\ DOMAIN e = 1..Len(e) /\ Len(e) \in Nat
      /\ s = [entries |-> e, frozen |-> s.frozen]
      /\ \A i \in 1..Len(e) : e[i].key \in Positive
  <2>1. PICK V : V = Held(s)
    OBVIOUS
  <2>2. s \in Ops!Maps(Positive, V)
    BY <1>1, <2>1
  <2>3. /\ s.entries \in Seq(Ops!Entries(Positive, V)) /\ s.frozen \in BOOLEAN
        /\ DOMAIN s.entries = 1..Len(s.entries) /\ Len(s.entries) \in Nat
        /\ s = [entries |-> s.entries, frozen |-> s.frozen]
        /\ \A i \in 1..Len(s.entries) : s.entries[i].key \in Positive
    <3>1. /\ s.entries \in Seq(Ops!Entries(Positive, V)) /\ s.frozen \in BOOLEAN
          /\ s = [entries |-> s.entries, frozen |-> s.frozen]
      BY <2>2, Fits, Ops!MapShape
    <3>2. DOMAIN s.entries = 1..Len(s.entries) /\ Len(s.entries) \in Nat
      BY <2>2, Fits, Ops!MapShape
    <3>3. \A i \in 1..Len(s.entries) : s.entries[i].key \in Positive
      BY <2>2, Fits, Ops!MapShape
    <3> QED BY <3>1, <3>2, <3>3
  <2> QED BY <1>2, <2>1, <2>3
<1>4. e = <<>> <=> Len(e) = 0
  BY <1>3
<1>5. ASSUME NEW i \in 1..Len(e) PROVE Get(s, e[i].key) = e[i].value /\ Has(s, e[i].key)
  <2>1. PICK k : k = e[i].key
    OBVIOUS
  <2>2. Ops!Has(s, k) /\ Ops!Get(s, k) = s.entries[i].value
    BY <1>1, <1>2, <2>1, Fits, Ops!Located
  <2> QED BY <1>2, <2>1, <2>2, Alike
<1>6. \A k : Has(s, k) => k \in Positive
  BY <1>1, Fits, Ops!KeyTyped, Alike
<1>7. \A k : ~Has(s, k) => Get(s, k) = Nil
  BY DEF Get
<1> QED BY <1>2, <1>3, <1>4, <1>5, <1>6, <1>7

\* set() leaves a map.
LEMMA Sets ==
    ASSUME NEW s, IsMap(s), NEW k \in Positive, NEW v
    PROVE  IsMap(Set(s, k, v))
<1>1. s \in Ops!Maps(Positive, Held(s) \cup {v}) /\ v \in Held(s) \cup {v}
  BY MapThere
<1>2. Ops!Set(s, k, v) \in Ops!Maps(Positive, Held(s) \cup {v})
  BY <1>1, Fits, Ops!SetSets
<1> QED BY <1>2, MapHere, Alike

\* A run that a missing key ends.
LEMMA Ends ==
    ASSUME NEW s, IsMap(s), NEW k \in Positive, NEW n \in Nat,
           \A i \in k..(k + n - 1) : Has(s, i), ~Has(s, k + n)
    PROVE  RunFrom(s, k) = n
<1>1. s \in Ops!Maps(Positive, Held(s)) /\ k \in Nat
  BY DEF IsMap, Held, Positive
<1>2. Ops!IsRun(s, k, n)
  BY Alike DEF Ops!IsRun
<1>3. Ops!RunFrom(s, k) = n
  BY <1>1, <1>2, Fits, Ops!RunUnique
<1> QED BY <1>3, Alike

\* A run has a length.
LEMMA Runs ==
    ASSUME NEW s, IsMap(s), NEW k \in Positive
    PROVE  RunFrom(s, k) \in Nat
<1>1. s \in Ops!Maps(Positive, Held(s)) /\ k \in Nat
  BY DEF IsMap, Held, Positive
<1>2. Ops!IsRun(s, k, Ops!RunFrom(s, k))
  BY <1>1, Fits, Ops!RunFound
<1>3. RunFrom(s, k) = Ops!RunFrom(s, k)
  BY Alike
<1> QED BY <1>2, <1>3 DEF Ops!IsRun

\* A fresh table is not frozen, so clone() of any map stores nothing.
LEMMA CloneIsEmpty ==
    ASSUME NEW s, IsMap(s)
    PROVE  KeysOf(Clone(s)) = <<>>
<1>1. Len(s.entries) \in Nat
  BY Shape
<1>2. \A k, v : Set(Table, k, v) = Table
  BY DEF Set, Table
<1>3. \A n \in 1..Len(s.entries), x \in {Table} :
         Ops!Set(x, s.entries[n].key, s.entries[n].value) \in {Table}
  BY <1>2, Alike
<1>4. Ops!Table \in {Table}
  BY AlikeLoops
<1>5. PICK g : Ops!CloneLoop(g, s, {Table})
  BY <1>1, <1>3, <1>4, Fits, Ops!CloneLoops
<1>6. Len(s.entries) \in 0..Len(s.entries)
  BY <1>1
<1>7. Clone(s) = Table
  BY <1>5, <1>6, AlikeLoops DEF Ops!CloneLoop
<1> QED BY <1>7 DEF KeysOf, Table

----------------------------------------------------------------------------
(* Rounds of a loop of set(). *)

\* No round changes nothing.
LEMMA NoRound ==
    ASSUME NEW s, IsMap(s), NEW k \in Positive, NEW f
    PROVE  SetFrom(s, k, Firsts(f, 0)) = s
<1>1. PICK e : e = Firsts(f, 0)
  OBVIOUS
<1>2. Len(e) = 0
  BY <1>1 DEF Firsts
<1>3. PICK g : Ops!SetLoop(g, s, k, e, {s})
  <2>1. PICK S : S = {s}
    OBVIOUS
  <2>2. s \in S /\ Len(e) \in Nat /\ \A i \in 1..Len(e), x \in S : Ops!Set(x, k + i - 1, e[i]) \in S
    BY <1>2, <2>1
  <2>3. \E g : Ops!SetLoop(g, s, k, e, S)
    BY <2>2, Fits, Ops!SetFromLoops
  <2> QED BY <2>1, <2>3
<1> QED BY <1>1, <1>2, <1>3, AlikeLoops DEF Ops!SetLoop

\* g[i] is the table after i rounds.
IsRounds(g, s, k, f, n, V) ==
    /\ g[0] = s /\ SetFrom(s, k, Firsts(f, n)) = g[n]
    /\ \A i \in 0..n : g[i] \in Ops!Maps(Positive, Held(s) \cup V)
    /\ \A i \in 1..n : g[i] = Set(g[i - 1], k + i - 1, f[i])

\* There are such tables between the rounds.
LEMMA Rounds ==
    ASSUME NEW s, IsMap(s), NEW k \in Positive, NEW f, NEW n \in Nat,
           NEW V, \A i \in 1..n : f[i] \in V
    PROVE  \E g : IsRounds(g, s, k, f, n, V)
<1>1. PICK e : e = Firsts(f, n)
  OBVIOUS
<1>2. Len(e) = n /\ \A i \in 1..n : e[i] = f[i]
  BY <1>1 DEF Firsts
<1>3. PICK S : S = Ops!Maps(Positive, Held(s) \cup V)
  OBVIOUS
<1>4. s \in S
  BY <1>3, MapThere
<1>5. ASSUME NEW i \in 1..n, NEW x \in S PROVE Ops!Set(x, k + i - 1, e[i]) \in S
  <2>1. k + i - 1 \in Positive /\ e[i] \in Held(s) \cup V
    BY <1>2 DEF Positive
  <2> QED BY <1>3, <2>1, Fits, Ops!SetSets
<1>6. PICK g : Ops!SetLoop(g, s, k, e, S)
  BY <1>2, <1>4, <1>5, Fits, Ops!SetFromLoops
<1>7. /\ g[0] = s /\ Ops!SetFrom(s, k, e) = g[n] /\ \A i \in 0..n : g[i] \in S
      /\ \A i \in 1..n : g[i] = Ops!Set(g[i - 1], k + i - 1, e[i])
  BY <1>2, <1>6 DEF Ops!SetLoop
<1>8. SetFrom(s, k, Firsts(f, n)) = g[n]
  BY <1>1, <1>7, AlikeLoops
<1>9. \A i \in 1..n : g[i] = Set(g[i - 1], k + i - 1, f[i])
  BY <1>2, <1>7, Alike
<1> QED BY <1>3, <1>7, <1>8, <1>9 DEF IsRounds

\* One round more is one set() more.
LEMMA NextRound ==
    ASSUME NEW s, IsMap(s), NEW k \in Positive, NEW f, NEW n \in Nat
    PROVE  SetFrom(s, k, Firsts(f, n + 1)) = Set(SetFrom(s, k, Firsts(f, n)), k + n, f[n + 1])
<1>1. PICK V : V = {f[i] : i \in 1..(n + 1)}
  OBVIOUS
<1>2. n + 1 \in Nat /\ \A i \in 1..(n + 1) : f[i] \in V
  BY <1>1
<1>3. PICK g : IsRounds(g, s, k, f, n, V)
  <2>1. \A i \in 1..n : f[i] \in V
    BY <1>2
  <2> QED BY <2>1, Rounds
<1>4. PICK h : IsRounds(h, s, k, f, n + 1, V)
  <2>1. PICK m \in Nat : m = n + 1
    OBVIOUS
  <2>2. \A i \in 1..m : f[i] \in V
    BY <1>2, <2>1
  <2> QED BY <2>1, <2>2, Rounds
<1> DEFINE T == {i \in 0..n : g[i] = h[i]}
<1>5. T = 0..n
  <2>1. 0 \in T /\ T \in SUBSET (0..n)
    BY <1>3, <1>4 DEF IsRounds
  <2>2. ASSUME NEW i \in 1..n, i - 1 \in T PROVE i \in T
    <3>1. g[i - 1] = h[i - 1] /\ i \in 1..(n + 1) /\ i \in 0..n
      BY <2>2
    <3>2. g[i] = h[i]
      BY <1>3, <1>4, <3>1 DEF IsRounds
    <3> QED BY <3>1, <3>2
  <2> HIDE DEF T
  <2> QED BY <2>1, <2>2, Fits, Ops!Counting
<1>6. g[n] = h[n]
  BY <1>5
<1>7. h[n + 1] = Set(h[n], k + n, f[n + 1])
  <2>1. n + 1 \in 1..(n + 1) /\ (n + 1) - 1 = n /\ k + (n + 1) - 1 = k + n
    BY DEF Positive
  <2> QED BY <1>4, <2>1 DEF IsRounds
<1> QED BY <1>3, <1>4, <1>6, <1>7 DEF IsRounds

\* A loop leaves a map, and keeps what it does not come to.
LEMMA Beyond ==
    ASSUME NEW s, IsMap(s), NEW k \in Positive, NEW f, NEW n \in Nat, NEW j, j \notin k..(k + n - 1)
    PROVE  /\ Has(SetFrom(s, k, Firsts(f, n)), j) <=> Has(s, j)
           /\ Get(SetFrom(s, k, Firsts(f, n)), j) = Get(s, j)
<1>1. PICK V : V = {f[i] : i \in 1..n}
  OBVIOUS
<1>2. \A i \in 1..n : f[i] \in V
  BY <1>1
<1>3. PICK g : IsRounds(g, s, k, f, n, V)
  BY <1>2, Rounds
<1> DEFINE T == {i \in 0..n : (Has(g[i], j) <=> Has(s, j)) /\ Get(g[i], j) = Get(s, j)}
<1>4. T = 0..n
  <2>1. 0 \in T /\ T \in SUBSET (0..n)
    BY <1>3 DEF IsRounds
  <2>2. ASSUME NEW i \in 1..n, i - 1 \in T PROVE i \in T
    <3>1. i - 1 \in 0..n /\ i \in 0..n /\ k + i - 1 # j /\ k + i - 1 \in Positive
      BY DEF Positive
    <3>2. PICK x : x = g[i - 1] /\ x \in Ops!Maps(Positive, Held(s) \cup V)
      BY <1>3, <3>1 DEF IsRounds
    <3>3. PICK q \in Positive : q = k + i - 1 /\ q # j
      BY <3>1
    <3>4. f[i] \in Held(s) \cup V
      BY <1>2
    <3>5. (Has(Set(x, q, f[i]), j) <=> Has(x, j)) /\ Get(Set(x, q, f[i]), j) = Get(x, j)
      <4>1. CASE x.frozen
        <5>1. Ops!Puts(Ops!Set(x, q, f[i]), x, q, f[i])
          BY <3>2, <3>4, <4>1, Fits, Ops!SetSets
        <5>2. PICK y : y = Set(x, q, f[i])
          OBVIOUS
        <5>3. Ops!Puts(y, x, q, f[i])
          BY <5>1, <5>2, Alike
        <5> QED BY <3>3, <5>2, <5>3, Alike DEF Ops!Puts
      <4>2. CASE ~x.frozen
        BY <4>2 DEF Set
      <4> QED BY <4>1, <4>2
    <3>6. g[i] = Set(x, q, f[i])
      BY <1>3, <3>2, <3>3 DEF IsRounds
    <3>7. (Has(x, j) <=> Has(s, j)) /\ Get(x, j) = Get(s, j)
      BY <2>2, <3>2
    <3> QED BY <3>1, <3>5, <3>6, <3>7
  <2> HIDE DEF T
  <2> QED BY <2>1, <2>2, Fits, Ops!Counting
<1> QED BY <1>3, <1>4 DEF IsRounds

----------------------------------------------------------------------------
(* The loops of insert, remove, sort and move. *)

\* What a reference of a table that agrees on a key leads to.
LEMMA ValueOf ==
    ASSUME NEW s, IsMap(s), NEW k \in Positive, NEW ref, ref.key = KeyRef(s, k), Get(t, k) = Get(s, k)
    PROVE  Value(ref) = Get(s, k)
BY Shape DEF Value, KeyRef, Positive

\* What a reference of a table that has a key, or not, refers to.
LEMMA ReferTo ==
    ASSUME NEW s, NEW k, Has(t, k) <=> Has(s, k)
    PROVE  Refer(k).key = KeyRef(s, k) /\ ~Refer(k).stale
BY DEF Refer, KeyRef

\* insert stops at the first key that is missing, with all of its run moved.
LEMMA PushEnds ==
    ASSUME NEW s, IsMap(s), NEW x, NEW r, r.op = "insert", r.pos \in Positive, r.idx \in Positive,
           Pushing("has", r, s, x), r.idx # r.pos, ~Has(x, r.idx)
    PROVE  x = Result(r, s) /\ r.vec = Observed(r, s)
<1>0. PICK p \in Nat \ {0} : p = r.pos
  BY DEF Positive
<1>1. PICK n \in Nat : n = r.idx - r.pos /\ n >= 1 /\ r.idx = p + n
  BY <1>0 DEF Pushing, Positive
<1>9. PICK m \in Nat : m = n - 1 /\ p + 1 + m = r.idx /\ p + 1 + m - 1 = r.idx - 1
  BY <1>1
<1>2. ~Has(s, r.idx)
  <2>1. r.idx \notin r.pos..(r.pos + n - 1)
    BY <1>1 DEF Positive
  <2>2. x = SetFrom(s, r.pos, Firsts(Pushes(r, s), n))
    BY <1>1 DEF Pushing
  <2>3. PICK f : f = Pushes(r, s)
    OBVIOUS
  <2>4. Has(SetFrom(s, r.pos, Firsts(f, n)), r.idx) <=> Has(s, r.idx)
    BY <2>1, Beyond
  <2> QED BY <2>2, <2>3, <2>4
<1>3. RunFrom(s, r.pos + 1) = n - 1
  <2>1. PICK k \in Positive : k = p + 1
    BY DEF Positive
  <2>4. (\A i \in k..(k + m - 1) : Has(s, i)) /\ ~Has(s, k + m)
    BY <1>0, <1>2, <1>9, <2>1 DEF Pushing
  <2>5. RunFrom(s, k) = m
    BY <2>4, Ends
  <2> QED BY <1>0, <1>9, <2>1, <2>5
<1>4. PICK a : a = [i \in 1..m |-> Get(s, r.pos + i - 1)]
  OBVIOUS
<1>5. <<r.v>> \o a = Firsts(Pushes(r, s), n)
  <2>1. PICK R : R = {a[i] : i \in 1..m} \cup {r.v}
    OBVIOUS
  <2>2. a \in Seq(R) /\ Len(a) = m /\ <<r.v>> \in Seq(R) /\ Len(<<r.v>>) = 1 /\ <<r.v>>[1] = r.v
    BY <1>4, <2>1
  <2>3. PICK b : b = <<r.v>> \o a
    OBVIOUS
  <2>10. PICK w \in R : w = r.v
    BY <2>1
  <2>11. n = 1 + m
    BY <1>9
  <2>4. b \in Seq(R) /\ Len(b) = n /\ \A i \in 1..n : b[i] = IF i = 1 THEN r.v ELSE a[i - 1]
    BY <2>2, <2>3, <2>10, <2>11
  <2>5. PICK c : c = Firsts(Pushes(r, s), n)
    OBVIOUS
  <2>6. \A i \in 1..n : c[i] = IF i = 1 THEN r.v ELSE Get(s, r.pos + i - 2)
    BY <2>5 DEF Firsts, Pushes, Positive
  <2>7. c = [i \in 1..n |-> c[i]] /\ b = [i \in 1..n |-> b[i]]
    BY <2>4, <2>5 DEF Firsts
  <2>8. ASSUME NEW i \in 1..n PROVE b[i] = c[i]
    <3>1. CASE i = 1
      BY <2>4, <2>6, <3>1
    <3>2. CASE i # 1
      <4>1. i - 1 \in 1..m /\ r.pos + (i - 1) - 1 = r.pos + i - 2
        BY <1>0, <1>9, <3>2
      <4>2. a[i - 1] = Get(s, r.pos + (i - 1) - 1)
        BY <1>4, <4>1
      <4> QED BY <2>4, <2>6, <3>2, <4>1, <4>2
    <3> QED BY <3>1, <3>2
  <2>9. b = c
    BY <2>7, <2>8
  <2> QED BY <2>3, <2>5, <2>9
<1>6. Result(r, s) = SetFrom(s, r.pos, <<r.v>> \o a)
  BY <1>3, <1>4, <1>9 DEF Result, Insert
<1>7. Observed(r, s) = r.vec
  BY DEF Observed
<1> QED BY <1>1, <1>5, <1>6, <1>7 DEF Pushing

\* insert moves one value up.
LEMMA PushGoes ==
    ASSUME NEW s, IsMap(s), NEW x, NEW q, NEW r, q.pos \in Positive, q.idx \in Positive,
           Pushing("store", q, s, x),
           r.pos = q.pos, r.v = q.v, r.idx = q.idx + 1, r.val = q.vec[1], r.vec = <<>>
    PROVE  Pushing("has", r, s, Set(x, q.idx, q.val))
<1>1. PICK n \in Nat : n = q.idx - q.pos /\ q.idx = q.pos + n
  BY DEF Pushing, Positive
<1>2. PICK f : f = Pushes(q, s) /\ f = Pushes(r, s)
  BY DEF Pushes
<1>3. SetFrom(s, q.pos, Firsts(f, n + 1)) = Set(SetFrom(s, q.pos, Firsts(f, n)), q.pos + n, f[n + 1])
  BY NextRound
<1>4. x = SetFrom(s, q.pos, Firsts(f, n)) /\ q.val = f[n + 1] /\ q.vec = <<Get(s, q.idx)>>
      /\ (q.idx = q.pos \/ Has(s, q.idx)) /\ \A i \in (q.pos + 1)..(q.idx - 1) : Has(s, i)
  BY <1>1, <1>2 DEF Pushing, Writing
<1>5. r.idx - r.pos = n + 1 /\ r.idx >= r.pos /\ r.idx \in Int
  BY <1>1 DEF Positive
<1>6. Set(x, q.idx, q.val) = SetFrom(s, r.pos, Firsts(f, r.idx - r.pos))
  BY <1>1, <1>3, <1>4, <1>5
<1>7. r.val = f[r.idx - r.pos + 1]
  <2>1. (n + 1) + 1 \in Positive /\ (n + 1) + 1 # 1 /\ q.pos + ((n + 1) + 1) - 2 = q.idx
    BY <1>1 DEF Positive
  <2>2. f[(n + 1) + 1] = Get(s, q.pos + ((n + 1) + 1) - 2)
    BY <1>2, <2>1 DEF Pushes
  <2> QED BY <1>4, <1>5, <2>1, <2>2
<1>8. \A i \in (r.pos + 1)..(r.idx - 1) : Has(s, i)
  <2>1. \A i \in (r.pos + 1)..(r.idx - 1) : i \in (q.pos + 1)..(q.idx - 1) \/ (i = q.idx /\ q.idx # q.pos)
    BY <1>1 DEF Positive
  <2> QED BY <1>4, <2>1
<1> QED BY <1>2, <1>5, <1>6, <1>7, <1>8 DEF Pushing, Writing

\* remove stops at the first key that is missing, with all of its run moved.
LEMMA PullEnds ==
    ASSUME NEW s, IsMap(s), NEW x, NEW r, r.op = "remove", r.pos \in Positive, r.idx \in Positive,
           Pulling("has", r, s, x), ~Has(x, r.idx)
    PROVE  x = Result(r, s) /\ r.vec = Observed(r, s)
<1>0. PICK p \in Nat \ {0} : p = r.pos
  BY DEF Positive
<1>1. PICK n \in Nat : n = r.idx - r.pos /\ r.idx = p + n /\ r.idx - 1 = p + n - 1
  <2>1. r.idx >= r.pos
    BY DEF Pulling
  <2>2. PICK j \in Nat : j = r.idx
    BY DEF Positive
  <2> QED BY <1>0, <2>1, <2>2
<1>2. PICK f : f = Pulls(r, s) /\ x = SetFrom(s, r.pos, Firsts(f, n))
  BY <1>1 DEF Pulling
<1>3. ~Has(s, r.idx)
  <2>1. r.idx \notin r.pos..(r.pos + n - 1)
    BY <1>1 DEF Positive
  <2>2. Has(SetFrom(s, r.pos, Firsts(f, n)), r.idx) <=> Has(s, r.idx)
    BY <2>1, Beyond
  <2> QED BY <1>2, <2>2
<1>4. CASE n = 0
  <2>1. r.idx = r.pos
    BY <1>0, <1>1, <1>4
  <2>2. x = s
    BY <1>2, <1>4, NoRound
  <2>3. r.vec = <<>>
    BY <2>1 DEF Pulling, Writing
  <2> QED BY <1>3, <2>1, <2>2, <2>3 DEF Result, Observed, RemoveKey
<1>5. CASE n # 0
  <2>1. \A i \in r.pos..(r.pos + n - 1) : Has(s, i)
    BY <1>0, <1>1 DEF Pulling
  <2>2. RunFrom(s, r.pos) = n
    BY <1>0, <1>1, <1>3, <2>1, Ends
  <2>3. Has(s, r.pos)
    BY <1>5, <2>1 DEF Positive
  <2>4. PICK a : a = Ipairs(s, r.pos)
    OBVIOUS
  <2>5. a = [i \in 1..n |-> Get(s, r.pos + i - 1)]
    BY <2>2, <2>4 DEF Ipairs
  <2>6. PICK R : R = {a[i] : i \in 1..n} \cup {Nil}
    OBVIOUS
  <2>7. a \in Seq(R) /\ Len(a) = n /\ a # <<>>
    <3>1. DOMAIN a = 1..n /\ \A i \in 1..n : a[i] \in R
      BY <2>5, <2>6
    <3>2. a = [i \in 1..n |-> a[i]]
      BY <2>5, <3>1
    <3>3. a \in Seq(R) /\ Len(a) = n
      BY <3>1, <3>2
    <3> QED BY <1>5, <3>3
  <2>8. PICK b : b = Tail(a)
    OBVIOUS
  <2>9. b \in Seq(R) /\ Len(b) = n - 1 /\ \A i \in 1..(n - 1) : b[i] = a[i + 1]
    BY <1>5, <2>7, <2>8
  <2>10. PICK c : c = Append(b, Nil)
    OBVIOUS
  <2>11. c \in Seq(R) /\ Len(c) = n /\ \A i \in 1..n : c[i] = IF i = n THEN Nil ELSE b[i]
    BY <1>5, <2>6, <2>9, <2>10
  <2>12. ASSUME NEW i \in 1..n PROVE c[i] = f[i]
    <3>1. f[i] = Get(s, r.pos + i)
      BY <1>2 DEF Pulls, Positive
    <3>2. CASE i = n
      <4>1. Get(s, r.idx) = Nil
        BY <1>3, Shape
      <4> QED BY <1>0, <1>1, <2>11, <3>1, <3>2, <4>1
    <3>3. CASE i # n
      <4>1. i \in 1..(n - 1) /\ i + 1 \in 1..n /\ r.pos + (i + 1) - 1 = r.pos + i
        BY <3>3 DEF Positive
      <4> QED BY <2>5, <2>9, <2>11, <3>1, <3>3, <4>1
    <3> QED BY <3>2, <3>3
  <2>13. c = Firsts(f, n)
    BY <2>11, <2>12 DEF Firsts
  <2>14. Result(r, s) = SetFrom(s, r.pos, c)
    BY <2>3, <2>4, <2>8, <2>10 DEF Result, RemoveKey
  <2>16. r.idx # r.pos
    BY <1>0, <1>1, <1>5
  <2>17. r.vec = <<Get(s, r.pos)>>
    BY <2>16 DEF Pulling
  <2>15. r.vec = Observed(r, s)
    BY <2>3, <2>17 DEF Observed
  <2> QED BY <1>2, <2>13, <2>14, <2>15
<1> QED BY <1>4, <1>5

\* remove moves one value down.
LEMMA PullGoes ==
    ASSUME NEW s, IsMap(s), NEW x, NEW v, NEW q, NEW r, q.pos \in Positive, q.idx \in Positive,
           Pulling("store", q, s, x), v = Get(s, q.idx + 1),
           r.pos = q.pos, r.idx = q.idx + 1, r.vec = q.vec
    PROVE  Pulling("has", r, s, Set(x, q.idx, v))
<1>1. PICK n \in Nat : n = q.idx - q.pos /\ q.idx = q.pos + n
  BY DEF Pulling, Positive
<1>2. PICK f : f = Pulls(q, s) /\ f = Pulls(r, s)
  BY DEF Pulls
<1>3. SetFrom(s, q.pos, Firsts(f, n + 1)) = Set(SetFrom(s, q.pos, Firsts(f, n)), q.pos + n, f[n + 1])
  BY NextRound
<1>4. x = SetFrom(s, q.pos, Firsts(f, n)) /\ q.vec = <<Get(s, q.pos)>>
      /\ Has(s, q.idx) /\ \A i \in q.pos..(q.idx - 1) : Has(s, i)
  BY <1>1, <1>2 DEF Pulling, Writing
<1>5. r.idx - r.pos = n + 1 /\ r.idx >= r.pos /\ r.idx \in Int /\ r.idx # r.pos
  BY <1>1 DEF Positive
<1>6. f[n + 1] = v
  <2>2. PICK p \in Nat : p = q.pos
    BY DEF Positive
  <2>1. n + 1 \in Positive /\ q.pos + (n + 1) = q.idx + 1
    BY <1>1, <2>2 DEF Positive
  <2> QED BY <1>2, <2>1 DEF Pulls
<1>7. Set(x, q.idx, v) = SetFrom(s, r.pos, Firsts(f, r.idx - r.pos))
  BY <1>1, <1>3, <1>4, <1>5, <1>6
<1>8. \A i \in r.pos..(r.idx - 1) : Has(s, i)
  <2>1. PICK p \in Nat : p = q.pos
    BY DEF Positive
  <2>2. r.pos = p /\ r.idx - 1 = p + n /\ q.idx - 1 = p + n - 1 /\ q.idx = p + n
    BY <1>1, <2>1
  <2>3. \A i \in p..(p + n) : i \in p..(p + n - 1) \/ i = p + n
    OBVIOUS
  <2> QED BY <1>4, <2>1, <2>2, <2>3
<1> QED BY <1>2, <1>4, <1>5, <1>7, <1>8 DEF Pulling, Writing

\* sort and move write one value, which may be the last.
LEMMA FillGoes ==
    ASSUME NEW s, IsMap(s), NEW x, NEW q, q.pos \in Positive, q.idx \in Positive, Filling(q, s, x),
           Len(q.vec) \in Nat
    PROVE  Set(x, q.idx, q.val) = SetFrom(s, q.pos, Firsts(q.vec, q.idx - q.pos + 1))
<1>1. PICK n \in Nat : n = q.idx - q.pos /\ q.idx = q.pos + n
  BY DEF Filling, Positive
<1>2. PICK f : f = q.vec
  OBVIOUS
<1>3. SetFrom(s, q.pos, Firsts(f, n + 1)) = Set(SetFrom(s, q.pos, Firsts(f, n)), q.pos + n, f[n + 1])
  BY NextRound
<1> QED BY <1>1, <1>2, <1>3 DEF Filling

----------------------------------------------------------------------------
(* The steps of an operation that nobody disturbs. *)

\* What is known of a thread.
LEMMA Knows ==
    ASSUME IInv, Mapped, Tracked, NEW th \in Threads
    PROVE  /\ DOMAIN run[th] = Fields /\ run = [run EXCEPT ![th] = run[th]]
           /\ run[th].op # "clone" => Sequential(run[th].vec)
           /\ run[th].op \in Comes(pc[th])
           /\ run[th].op # "none" => run[th].pos \in Positive /\ run[th].idx \in Positive
           /\ before[th] # NoTable =>
                IsMap(before[th]) /\ Follows(pc[th], run[th], before[th], t, property)
           /\ IsMap(t)
BY DEF IInv, Running, IsCall, Mapped, Tracked

\* A step that changes neither the table nor what is kept with it.
LEMMA Goes ==
    ASSUME IInv, Mapped, Tracked, NEW th \in Threads, NEW next, NEW r, Moves(th, next, r),
           UNCHANGED <<t, property, before>>, next # "keyed",
           r.op # "none" => r.pos \in Positive /\ r.idx \in Positive,
           before[th] # NoTable => Follows(next, r, before[th], t, property)
    PROVE  Mapped' /\ Tracked'
<1>1. /\ pc'[th] = next /\ run'[th] = r
      /\ \A u \in Threads \ {th} : pc'[u] = pc[u] /\ run'[u] = run[u]
  BY DEF IInv, Running, Moves, Goto
<1>2. Mapped'
  BY <1>1 DEF Mapped, IsMap
<1>3. ASSUME NEW u \in Threads, before'[u] # NoTable
      PROVE  IsMap(before'[u]) /\ Follows(pc'[u], run'[u], before'[u], t', property')
  <2>1. before[u] # NoTable /\ before'[u] = before[u] /\ t' = t /\ property' = property
    BY <1>3
  <2>2. IsMap(before[u]) /\ Follows(pc[u], run[u], before[u], t, property)
    BY <2>1 DEF Tracked
  <2>3. CASE u = th
    BY <1>1, <2>1, <2>2, <2>3
  <2>4. CASE u # th
    BY <1>1, <2>1, <2>2, <2>4
  <2> QED BY <2>3, <2>4
<1> QED BY <1>2, <1>3 DEF Tracked

\* Waiting for the lock and getting it changes nothing.
LEMMA StillFollows ==
    ASSUME NEW at \in Writing, NEW next \in Writing, NEW r, NEW s, NEW x, NEW key, Follows(at, r, s, x, key)
    PROVE  Follows(next, r, s, x, key)
<1>1. at # "done" /\ next # "done" /\ at # "keyed" /\ next # "keyed" /\ next \notin {"has", "get", "copy", "peek"}
      /\ at \notin {"has", "get", "copy", "peek"}
  BY DEF Writing
<1>2. r.op \in Singles /\ OneWrite(at, r, s, x, key) => OneWrite(next, r, s, x, key)
  BY <1>1 DEF OneWrite
<1>4. Getting(at, r, s, x) => Getting(next, r, s, x)
  BY <1>1 DEF Getting
<1>5. Visiting(at, r, s, x) => Visiting(next, r, s, x)
  BY DEF Visiting, Writing
<1>6. Pushing(at, r, s, x) => Pushing(next, r, s, x)
  BY <1>1 DEF Pushing, Writing
<1>7. Pulling(at, r, s, x) => Pulling(next, r, s, x)
  BY <1>1 DEF Pulling, Writing
<1> QED BY <1>1, <1>2, <1>4, <1>5, <1>6, <1>7 DEF Follows

\* The thread waits for the lock, and gets it.
LEMMA WaitTrack ==
    ASSUME IInv, Mapped, Tracked, NEW th \in Threads, Request(th) \/ Acquire(th)
    PROVE  Mapped' /\ Tracked'
<1>1. PICK next \in {"queued", "store"} : Goto(th, next)
  BY DEF Request, Acquire
<1>2. pc[th] \in Writing /\ next \in Writing /\ UNCHANGED <<t, property, before, run>>
  BY <1>1 DEF Request, Acquire, At, Writing, Reads
<1>3. Moves(th, next, run[th])
  BY <1>1, <1>2, Knows DEF Moves
<1>4. before[th] # NoTable => Follows(next, run[th], before[th], t, property)
  BY <1>2, Knows, StillFollows
<1> QED BY <1>1, <1>2, <1>3, <1>4, Knows, Goes DEF Writing

\* arr_len() of the table that append began with.
LEMMA LenTrack ==
    ASSUME IInv, Mapped, Tracked, NEW th \in Threads, LenLock(th) \/ LenHas(th)
    PROVE  Mapped' /\ Tracked'
<1> DEFINE q == run[th]
<1>1. /\ DOMAIN q = Fields /\ run = [run EXCEPT ![th] = q] /\ run[th] = q /\ IsMap(t)
      /\ q.op \in Comes(pc[th])
      /\ q.op # "none" => q.pos \in Positive /\ q.idx \in Positive
      /\ before[th] # NoTable => Follows(pc[th], q, before[th], t, property)
  BY Knows
<1> HIDE DEF q
<1>2. pc[th] \in {"len", "len_has"} /\ q.op = "append" /\ UNCHANGED <<t, property, before>>
  BY <1>1 DEF LenLock, LenHas, At, Comes, Writing
<1>3. before[th] # NoTable => ~q.ref.stale /\ t = before[th] /\ q.val = q.v
  BY <1>1, <1>2 DEF Follows, Singles, OneWrite
<1>4. CASE LenLock(th)
  <2>1. Moves(th, "len_has", q)
    BY <1>1, <1>4 DEF LenLock, Moves
  <2>2. before[th] # NoTable => Follows("len_has", q, before[th], t, property)
    BY <1>2, <1>3 DEF Follows, Singles, OneWrite, Writing
  <2> QED BY <1>1, <1>2, <2>1, <2>2, Goes
<1>5. CASE LenHas(th)
  <2> DEFINE r == [q EXCEPT !.idx = ArrLen(t) + 1]
  <2>1. Moves(th, "lock", r)
    BY <1>1, <1>5 DEF LenHas, Moves
  <2>2. r.op = "append" /\ r.idx = ArrLen(t) + 1 /\ r.val = q.val /\ r.v = q.v /\ r.ref = q.ref /\ r.pos = q.pos
    BY <1>1, <1>2 DEF Fields
  <2> HIDE DEF r
  <2>3. before[th] # NoTable => Follows("lock", r, before[th], t, property)
    BY <1>3, <2>2 DEF Follows, Singles, OneWrite, Writing
  <2>4. r.pos \in Positive /\ r.idx \in Positive
    BY <1>1, <1>2, <2>2, Runs DEF ArrLen, Positive
  <2> QED BY <1>2, <2>1, <2>3, <2>4, Goes
<1> QED BY <1>4, <1>5

\* foreach goes to the next entry, or is done.
LEMMA VisitTrack ==
    ASSUME IInv, Mapped, Tracked, NEW th \in Threads, Pairs(th) \/ PairsNext(th) \/ NextEntry(th)
    PROVE  Mapped' /\ Tracked'
<1> DEFINE q == run[th]
<1>1. /\ DOMAIN q = Fields /\ run = [run EXCEPT ![th] = q] /\ run[th] = q /\ IsMap(t)
      /\ q.op \in Comes(pc[th])
      /\ q.op # "none" => q.pos \in Positive /\ q.idx \in Positive
      /\ before[th] # NoTable => Follows(pc[th], q, before[th], t, property)
  BY Knows
<1> HIDE DEF q
<1>2. pc[th] \in {"pairs", "pairs_next", "next"} /\ q.op = "foreach" /\ UNCHANGED <<t, property, before>>
  BY <1>1 DEF Pairs, PairsNext, NextEntry, At, Comes, Writing, Reads
<1>3. before[th] # NoTable => ~q.ref.stale /\ Visiting(pc[th], q, before[th], t) /\ t = before[th]
  BY <1>1, <1>2 DEF Follows, Visiting
<1>4. CASE Pairs(th)
  <2>1. Moves(th, "pairs_next", q) /\ pc[th] = "pairs"
    BY <1>1, <1>4 DEF Pairs, Moves, At
  <2>2. before[th] # NoTable => Follows("pairs_next", q, before[th], t, property)
    BY <1>2, <1>3, <2>1 DEF Follows, Singles, Visiting
  <2> QED BY <1>1, <1>2, <2>1, <2>2, Goes
<1>5. CASE PairsNext(th) \/ NextEntry(th)
  <2>1. PICK m \in Nat : /\ pc[th] = "pairs_next" => m = 0
                         /\ pc[th] = "next" => m = q.idx
                         /\ Visit(th, IF m + 1 <= Len(t.entries) THEN m + 1 ELSE 0)
    <3>1. CASE PairsNext(th)
      <4>1. 0 + 1 <= Len(t.entries) <=> t.entries # <<>>
        BY <1>1, Shape
      <4>2. pc[th] = "pairs_next" /\ Visit(th, IF 0 + 1 <= Len(t.entries) THEN 0 + 1 ELSE 0)
        BY <3>1, <4>1 DEF PairsNext, At, First
      <4> QED BY <4>2
    <3>2. CASE NextEntry(th)
      <4>1. pc[th] = "next" /\ q.idx \in Nat
        BY <1>1, <1>2, <3>2 DEF NextEntry, At, Positive
      <4>2. Visit(th, IF q.idx + 1 <= Len(t.entries) THEN q.idx + 1 ELSE 0)
        BY <1>1, <3>2 DEF NextEntry, Next1
      <4> QED BY <4>1, <4>2
    <3> QED BY <1>5, <3>1, <3>2
  <2>2. pc[th] \in {"pairs_next", "next"}
    BY <1>5 DEF PairsNext, NextEntry, At
  <2>3. before[th] # NoTable =>
          q.vec = Firsts(Visits(t), m) /\ m <= Len(t.entries)
    <3>1. DOMAIN t.entries = 1..Len(t.entries) /\ Len(t.entries) \in Nat
      BY <1>1, Shape
    <3> QED BY <1>3, <2>1, <2>2, <3>1 DEF Visiting
  <2>4. CASE m + 1 <= Len(t.entries)
    <3> DEFINE r == [q EXCEPT !.idx = m + 1, !.ref = Refer(t.entries[m + 1].key)]
    <3>6. (IF m + 1 <= Len(t.entries) THEN m + 1 ELSE 0) = m + 1 /\ m + 1 # 0
      BY <2>4
    <3>1. Moves(th, "copy", r)
      BY <1>1, <2>1, <3>6 DEF Visit, Moves
    <3>2. /\ r.op = "foreach" /\ r.idx = m + 1 /\ r.vec = q.vec /\ r.pos = q.pos
          /\ r.ref = Refer(t.entries[m + 1].key)
      BY <1>1, <1>2 DEF Fields
    <3> HIDE DEF r
    <3>3. m + 1 \in DOMAIN t.entries /\ r.idx \in Positive /\ (m + 1) - 1 = m
      BY <1>1, <2>4, <3>2, Shape DEF Positive
    <3>4. r.ref.key = t.entries[m + 1].key /\ ~r.ref.stale
      <4>1. PICK k : k = t.entries[m + 1].key
        OBVIOUS
      <4>2. Has(t, k)
        BY <1>1, <3>3, <4>1, Shape
      <4> QED BY <3>2, <4>1, <4>2 DEF Refer
    <3>5. ASSUME before[th] # NoTable PROVE Follows("copy", r, before[th], t, property)
      <4>1. Visiting("copy", r, before[th], t)
        BY <1>3, <2>3, <3>2, <3>3, <3>4, <3>5 DEF Visiting
      <4> QED BY <3>2, <3>4, <4>1 DEF Follows, Singles
    <3> QED BY <1>1, <1>2, <3>1, <3>2, <3>3, <3>5, Goes
  <2>5. CASE ~(m + 1 <= Len(t.entries))
    <3>1. Moves(th, "done", q)
      BY <1>1, <2>1, <2>5 DEF Visit, Moves
    <3>2. ASSUME before[th] # NoTable PROVE Follows("done", q, before[th], t, property)
      <4>1. m = Len(t.entries) /\ DOMAIN t.entries = 1..m
        BY <1>1, <2>3, <2>5, <3>2, Shape
      <4>2. q.vec = [i \in DOMAIN t.entries |-> t.entries[i].value]
        BY <2>3, <3>2, <4>1 DEF Firsts, Visits
      <4>3. t = before[th]
        BY <1>3, <3>2
      <4> QED BY <1>2, <4>2, <4>3 DEF Follows, Result, Observed
    <3> QED BY <1>1, <1>2, <3>1, <3>2, Goes
  <2> QED BY <2>4, <2>5
<1> QED BY <1>4, <1>5

\* A loop that is at key i has not touched the keys from there on.
LEMMA Ahead ==
    ASSUME NEW s, IsMap(s), NEW p \in Positive, NEW i \in Positive, i >= p, NEW f, NEW x,
           x = SetFrom(s, p, Firsts(f, i - p)), NEW j \in Nat, j >= i
    PROVE  (Has(x, j) <=> Has(s, j)) /\ Get(x, j) = Get(s, j)
<1>1. PICK n \in Nat : n = i - p
  BY DEF Positive
<1>2. j \notin p..(p + n - 1)
  BY <1>1 DEF Positive
<1> QED BY <1>1, <1>2, Beyond

\* One value more.
LEMMA FirstsGrow ==
    ASSUME NEW f, NEW n \in Nat
    PROVE  Append(Firsts(f, n), f[n + 1]) = Firsts(f, n + 1)
<1>1. PICK R : R = {f[i] : i \in 1..(n + 1)}
  OBVIOUS
<1>2. PICK a : a = Firsts(f, n)
  OBVIOUS
<1>3. a \in Seq(R) /\ Len(a) = n /\ \A i \in 1..n : a[i] = f[i]
  BY <1>1, <1>2 DEF Firsts
<1>4. PICK v \in R : v = f[n + 1]
  BY <1>1
<1>5. PICK b : b = Append(a, v)
  OBVIOUS
<1>6. b \in Seq(R) /\ Len(b) = n + 1 /\ (\A i \in 1..n : b[i] = a[i]) /\ b[n + 1] = v
  BY <1>3, <1>5
<1>7. \A i \in 1..(n + 1) : b[i] = f[i]
  BY <1>3, <1>4, <1>6
<1>8. b = Firsts(f, n + 1)
  BY <1>6, <1>7 DEF Firsts
<1> QED BY <1>2, <1>4, <1>5, <1>8

\* insert and remove look whether there is a next key.
LEMMA HasTrack ==
    ASSUME IInv, Mapped, Tracked, NEW th \in Threads, HasKey(th)
    PROVE  Mapped' /\ Tracked'
<1> DEFINE q == run[th]
<1>1. /\ DOMAIN q = Fields /\ run = [run EXCEPT ![th] = q] /\ run[th] = q /\ IsMap(t)
      /\ q.op \in Comes(pc[th])
      /\ q.op # "none" => q.pos \in Positive /\ q.idx \in Positive
      /\ before[th] # NoTable => IsMap(before[th]) /\ Follows(pc[th], q, before[th], t, property)
  BY Knows
<1> HIDE DEF q
<1>2. pc[th] = "has" /\ q.op \in {"insert", "remove"} /\ UNCHANGED <<t, property, before, run>>
  BY <1>1 DEF HasKey, At, Comes, Writing, Reads
<1>3. CASE q.op = "insert"
  <2>1. PICK next : next = IF Has(t, q.idx) \/ q.idx = q.pos THEN "get" ELSE "done"
    OBVIOUS
  <2>2. Moves(th, next, q) /\ next \in {"get", "done"}
    BY <1>1, <1>2, <1>3, <2>1 DEF HasKey, Moves
  <2>3. ASSUME before[th] # NoTable PROVE Follows(next, q, before[th], t, property)
    <3>1. PICK s : s = before[th] /\ IsMap(s)
      BY <1>1, <2>3
    <3>2. Pushing("has", q, s, t) /\ ~q.ref.stale
      BY <1>1, <1>2, <1>3, <2>3, <3>1 DEF Follows
    <3>3. q.pos \in Positive /\ q.idx \in Positive /\ q.idx \in Nat
      BY <1>1, <1>3 DEF Positive
    <3>4. Has(t, q.idx) <=> Has(s, q.idx)
      <4>1. PICK p \in Positive, i \in Positive : p = q.pos /\ i = q.idx
        BY <3>3
      <4>2. PICK f : f = Pushes(q, s) /\ t = SetFrom(s, p, Firsts(f, i - p)) /\ i >= p
        BY <3>2, <4>1 DEF Pushing
      <4>3. i \in Nat /\ i >= i
        BY DEF Positive
      <4> QED BY <3>1, <4>1, <4>2, <4>3, Ahead
    <3>5. CASE next = "done"
      <4>1. t = Result(q, s) /\ q.vec = Observed(q, s)
        BY <1>3, <2>1, <3>1, <3>2, <3>3, <3>5, PushEnds
      <4> QED BY <3>1, <3>5, <4>1 DEF Follows
    <3>6. CASE next = "get"
      <4>1. q.idx = q.pos \/ Has(s, q.idx)
        BY <2>1, <3>4, <3>6
      <4>2. Pushing("get", q, s, t)
        BY <3>2, <4>1 DEF Pushing, Writing
      <4> QED BY <1>3, <3>1, <3>2, <3>6, <4>2 DEF Follows, Singles
    <3> QED BY <2>2, <3>5, <3>6
  <2> QED BY <1>1, <1>2, <1>3, <2>2, <2>3, Goes
<1>4. CASE q.op = "remove"
  <2>1. PICK next : next = IF ~Has(t, q.idx) THEN "done" ELSE IF q.idx = q.pos THEN "get" ELSE "peek"
    OBVIOUS
  <2>2. Moves(th, next, q) /\ next \in {"get", "peek", "done"}
    BY <1>1, <1>2, <1>4, <2>1 DEF HasKey, Moves
  <2>3. ASSUME before[th] # NoTable PROVE Follows(next, q, before[th], t, property)
    <3>1. PICK s : s = before[th] /\ IsMap(s)
      BY <1>1, <2>3
    <3>2. Pulling("has", q, s, t) /\ ~q.ref.stale
      BY <1>1, <1>2, <1>4, <2>3, <3>1 DEF Follows
    <3>3. q.pos \in Positive /\ q.idx \in Positive /\ q.idx \in Nat
      BY <1>1, <1>4 DEF Positive
    <3>4. Has(t, q.idx) <=> Has(s, q.idx)
      <4>1. PICK p \in Positive, i \in Positive : p = q.pos /\ i = q.idx
        BY <3>3
      <4>2. PICK f : f = Pulls(q, s) /\ t = SetFrom(s, p, Firsts(f, i - p)) /\ i >= p
        BY <3>2, <4>1 DEF Pulling
      <4>3. i \in Nat /\ i >= i
        BY DEF Positive
      <4> QED BY <3>1, <4>1, <4>2, <4>3, Ahead
    <3>5. CASE next = "done"
      <4>1. t = Result(q, s) /\ q.vec = Observed(q, s)
        BY <1>4, <2>1, <3>1, <3>2, <3>3, <3>5, PullEnds
      <4> QED BY <3>1, <3>5, <4>1 DEF Follows
    <3>6. CASE next # "done"
      <4>1. Has(s, q.idx) /\ (next = "get" <=> q.idx = q.pos) /\ next \in {"get", "peek"}
        BY <2>1, <3>4, <3>6
      <4>2. Pulling(next, q, s, t)
        BY <3>2, <4>1 DEF Pulling, Writing
      <4> QED BY <1>4, <3>1, <3>2, <3>6, <4>2 DEF Follows, Singles
    <3> QED BY <3>5, <3>6
  <2> QED BY <1>1, <1>2, <1>4, <2>2, <2>3, Goes
<1> QED BY <1>2, <1>3, <1>4

\* A reference to the value of a key, which is read later.
LEMMA GetTrack ==
    ASSUME IInv, Mapped, Tracked, NEW th \in Threads, GetKey(th)
    PROVE  Mapped' /\ Tracked'
<1> DEFINE q == run[th]
<1>1. /\ DOMAIN q = Fields /\ run = [run EXCEPT ![th] = q] /\ run[th] = q /\ IsMap(t)
      /\ q.op \in Comes(pc[th])
      /\ q.op # "none" => q.pos \in Positive /\ q.idx \in Positive
      /\ before[th] # NoTable => IsMap(before[th]) /\ Follows(pc[th], q, before[th], t, property)
  BY Knows
<1> HIDE DEF q
<1>2. pc[th] = "get" /\ q.op \in {"insert", "remove", "get"} /\ UNCHANGED <<t, property, before>>
  BY <1>1 DEF GetKey, At, Comes, Writing, Reads
<1> DEFINE r == [q EXCEPT !.ref = Refer(q.idx)]
<1>3. Moves(th, "copy", r)
  BY <1>1 DEF GetKey, Moves
<1>4. /\ r.op = q.op /\ r.pos = q.pos /\ r.idx = q.idx /\ r.val = q.val /\ r.v = q.v /\ r.vec = q.vec
      /\ r.ref = Refer(q.idx)
  BY <1>1 DEF Fields
<1> HIDE DEF r
<1>5. q.pos \in Positive /\ q.idx \in Positive /\ q.idx \in Nat
  BY <1>1, <1>2 DEF Positive
<1>6. ASSUME before[th] # NoTable PROVE Follows("copy", r, before[th], t, property)
  <2>1. PICK s : s = before[th] /\ IsMap(s) /\ Follows("get", q, s, t, property)
    BY <1>1, <1>2, <1>6
  <2>2. CASE q.op = "get"
    <3>1. Getting("get", q, s, t)
      BY <2>1, <2>2 DEF Follows
    <3>2. Getting("copy", r, s, t) /\ ~r.ref.stale
      BY <1>4, <3>1, ReferTo DEF Getting
    <3> QED BY <1>4, <2>1, <2>2, <3>2 DEF Follows, Singles
  <2>3. CASE q.op = "insert"
    <3>1. Pushing("get", q, s, t)
      BY <2>1, <2>3 DEF Follows
    <3>2. PICK f : f = Pushes(q, s) /\ f = Pushes(r, s) /\ t = SetFrom(s, q.pos, Firsts(f, q.idx - q.pos))
      BY <1>4, <3>1 DEF Pushing, Pushes
    <3>3. q.idx >= q.pos
      BY <3>1 DEF Pushing
    <3>4. Has(t, q.idx) <=> Has(s, q.idx)
      <4>1. PICK p \in Positive, i \in Positive : p = q.pos /\ i = q.idx
        BY <1>5
      <4>3. i \in Nat /\ i >= i
        BY DEF Positive
      <4> QED BY <2>1, <3>2, <3>3, <4>1, <4>3, Ahead
    <3>5. r.ref.key = KeyRef(s, q.idx) /\ ~r.ref.stale
      BY <1>4, <3>4, ReferTo
    <3>6. Pushing("copy", r, s, t)
      BY <1>4, <3>1, <3>2, <3>5 DEF Pushing, Writing
    <3> QED BY <1>4, <2>1, <2>3, <3>5, <3>6 DEF Follows, Singles
  <2>4. CASE q.op = "remove"
    <3>1. Pulling("get", q, s, t)
      BY <2>1, <2>4 DEF Follows
    <3>2. PICK f : f = Pulls(q, s) /\ f = Pulls(r, s) /\ t = SetFrom(s, q.pos, Firsts(f, q.idx - q.pos))
      BY <1>4, <3>1 DEF Pulling, Pulls
    <3>3. q.idx >= q.pos /\ Has(s, q.idx)
      BY <3>1 DEF Pulling
    <3>4. Has(t, q.idx) <=> Has(s, q.idx)
      <4>1. PICK p \in Positive, i \in Positive : p = q.pos /\ i = q.idx
        BY <1>5
      <4>3. i \in Nat /\ i >= i
        BY DEF Positive
      <4> QED BY <2>1, <3>2, <3>3, <4>1, <4>3, Ahead
    <3>5. r.ref.key = q.idx /\ ~r.ref.stale
      BY <1>4, <3>3, <3>4, ReferTo DEF KeyRef
    <3>6. Pulling("copy", r, s, t)
      BY <1>4, <3>1, <3>2, <3>5 DEF Pulling, Writing
    <3> QED BY <1>4, <2>1, <2>4, <3>5, <3>6 DEF Follows, Singles
  <2> QED BY <1>2, <2>2, <2>3, <2>4
<1> QED BY <1>2, <1>3, <1>4, <1>5, <1>6, Goes

\* remove refers to the value of the next key.
LEMMA PeekTrack ==
    ASSUME IInv, Mapped, Tracked, NEW th \in Threads, Peek(th)
    PROVE  Mapped' /\ Tracked'
<1> DEFINE q == run[th]
<1>1. /\ DOMAIN q = Fields /\ run = [run EXCEPT ![th] = q] /\ run[th] = q /\ IsMap(t)
      /\ q.op \in Comes(pc[th])
      /\ q.op # "none" => q.pos \in Positive /\ q.idx \in Positive
      /\ before[th] # NoTable => IsMap(before[th]) /\ Follows(pc[th], q, before[th], t, property)
  BY Knows
<1> HIDE DEF q
<1>2. pc[th] = "peek" /\ q.op = "remove" /\ UNCHANGED <<t, property, before>>
  BY <1>1 DEF Peek, At, Comes, Writing, Reads
<1> DEFINE r == [q EXCEPT !.ref = Refer(q.idx + 1)]
<1>3. Moves(th, "lock", r)
  BY <1>1 DEF Peek, Moves
<1>4. /\ r.op = q.op /\ r.pos = q.pos /\ r.idx = q.idx /\ r.val = q.val /\ r.v = q.v /\ r.vec = q.vec
      /\ r.ref = Refer(q.idx + 1)
  BY <1>1 DEF Fields
<1> HIDE DEF r
<1>5. q.pos \in Positive /\ q.idx \in Positive /\ q.idx \in Nat
  BY <1>1, <1>2 DEF Positive
<1>6. ASSUME before[th] # NoTable PROVE Follows("lock", r, before[th], t, property)
  <2>1. PICK s : s = before[th] /\ IsMap(s) /\ Follows("peek", q, s, t, property)
    BY <1>1, <1>2, <1>6
  <2>2. Pulling("peek", q, s, t)
    BY <1>2, <2>1 DEF Follows
  <2>3. PICK f : f = Pulls(q, s) /\ f = Pulls(r, s) /\ t = SetFrom(s, q.pos, Firsts(f, q.idx - q.pos))
    BY <1>4, <2>2 DEF Pulling, Pulls
  <2>4. q.idx >= q.pos /\ Has(s, q.idx)
    BY <2>2 DEF Pulling
  <2>5. Has(t, q.idx + 1) <=> Has(s, q.idx + 1)
    <3>1. PICK p \in Positive, i \in Positive : p = q.pos /\ i = q.idx
      BY <1>5
    <3>2. PICK j \in Nat : j = i + 1 /\ j >= i
      BY DEF Positive
    <3> QED BY <2>1, <2>3, <2>4, <3>1, <3>2, Ahead
  <2>6. r.ref.key = KeyRef(s, q.idx + 1) /\ ~r.ref.stale
    BY <1>4, <2>5, ReferTo
  <2>7. Pulling("lock", r, s, t)
    BY <1>4, <2>2, <2>3, <2>6 DEF Pulling, Writing
  <2> QED BY <1>2, <1>4, <2>1, <2>6, <2>7 DEF Follows, Singles
<1> QED BY <1>2, <1>3, <1>4, <1>5, <1>6, Goes

\* What ipairs meets, up to the first key that is missing.
LEMMA ScanEnds ==
    ASSUME NEW s, IsMap(s), NEW n \in Nat, \A i \in 1..n : Has(s, i), ~Has(s, n + 1)
    PROVE  Ipairs(s, 1) = Firsts(Scans(s), n)
<1>1. PICK k \in Positive : k = 1
  BY DEF Positive
<1>2. (\A i \in k..(k + n - 1) : Has(s, i)) /\ ~Has(s, k + n)
  BY <1>1
<1>3. RunFrom(s, k) = n
  BY <1>2, Ends
<1>4. \A i \in 1..n : 1 + i - 1 = i /\ i \in Positive
  BY DEF Positive
<1>5. PICK f : f = Scans(s)
  OBVIOUS
<1>6. \A i \in 1..n : f[i] = Get(s, i)
  BY <1>4, <1>5 DEF Scans
<1>7. \A i \in 1..n : Get(s, 1 + i - 1) = f[i]
  BY <1>4, <1>6
<1>8. Ipairs(s, 1) = [i \in 1..n |-> Get(s, 1 + i - 1)]
  BY <1>1, <1>3 DEF Ipairs
<1> QED BY <1>5, <1>7, <1>8 DEF Firsts

\* The vector that sort() writes back is as long as what it read.
LEMMA SortedLength ==
    ASSUME NEW f, NEW n \in Nat
    PROVE  /\ Len(Sorted(Firsts(f, n))) = n /\ DOMAIN Sorted(Firsts(f, n)) = 1..n
           /\ Sorted(Firsts(f, n)) = Firsts(Sorted(Firsts(f, n)), n)
<1>1. PICK a : a = Firsts(f, n)
  OBVIOUS
<1>2. DOMAIN a = 1..n
  BY <1>1 DEF Firsts
<1>3. PICK b : b = Sorted(a)
  OBVIOUS
<1>4. DOMAIN b = 1..n /\ b = [i \in 1..n |-> b[i]]
  BY <1>2, <1>3 DEF Sorted
<1>5. b \in Seq({b[i] : i \in 1..n}) /\ Len(b) = n
  BY <1>4
<1> QED BY <1>1, <1>3, <1>4, <1>5 DEF Firsts

\* sort and concat begin, or there is no key 1.
LEMMA BeginTrack ==
    ASSUME IInv, Mapped, Tracked, NEW th \in Threads, IpairsBegin(th)
    PROVE  Mapped' /\ Tracked'
<1> DEFINE q == run[th]
<1>1. /\ DOMAIN q = Fields /\ run = [run EXCEPT ![th] = q] /\ run[th] = q /\ IsMap(t)
      /\ q.op \in Comes(pc[th])
      /\ q.op # "none" => q.pos \in Positive /\ q.idx \in Positive
      /\ before[th] # NoTable => IsMap(before[th]) /\ Follows(pc[th], q, before[th], t, property)
  BY Knows
<1> HIDE DEF q
<1>2. pc[th] = "ipairs" /\ q.op \in {"sort", "concat"} /\ UNCHANGED <<t, property, before>>
  BY <1>1 DEF IpairsBegin, At, Comes, Writing, Reads
<1> DEFINE r == [q EXCEPT !.ref = Refer(1)]
<1>9. PICK next : next = IF Has(t, 1) THEN "copy" ELSE "done"
  OBVIOUS
<1>3. Moves(th, next, r)
  BY <1>1, <1>9 DEF IpairsBegin, Moves
<1>4. /\ r.op = q.op /\ r.pos = q.pos /\ r.idx = q.idx /\ r.val = q.val /\ r.v = q.v /\ r.vec = q.vec
      /\ r.ref = Refer(1)
  BY <1>1 DEF Fields
<1> HIDE DEF r
<1>5. q.pos \in Positive /\ q.idx \in Positive /\ q.idx \in Nat
  BY <1>1, <1>2 DEF Positive
<1>6. ASSUME before[th] # NoTable PROVE Follows(next, r, before[th], t, property)
  <2>1. PICK s : s = before[th] /\ IsMap(s) /\ Follows("ipairs", q, s, t, property)
    BY <1>1, <1>2, <1>6
  <2>2. Scanning("ipairs", q, s, t)
    BY <1>2, <2>1 DEF Follows, Writing
  <2>3. t = s /\ q.pos = 1 /\ q.idx = 1 /\ q.vec = Firsts(Scans(s), 0)
    BY <2>2 DEF Scanning
  <2>4. CASE Has(t, 1)
    <3>1. r.ref.key = 1 /\ ~r.ref.stale
      BY <1>4, <2>4 DEF Refer
    <3>2. \A i \in 1..1 : Has(s, i)
      BY <2>3, <2>4
    <3>3. Scanning("copy", r, s, t)
      BY <1>4, <2>3, <3>1, <3>2 DEF Scanning
    <3>4. next = "copy"
      BY <1>9, <2>4
    <3>5. r.op \in {"sort", "concat"}
      BY <1>2, <1>4
    <3> QED BY <2>1, <3>1, <3>3, <3>4, <3>5 DEF Follows, Singles, Writing
  <2>5. CASE ~Has(t, 1)
    <3>1. Ipairs(s, 1) = Firsts(Scans(s), 0)
      <4>1. PICK n \in Nat : n = 0 /\ n + 1 = 1
        OBVIOUS
      <4>2. (\A i \in 1..n : Has(s, i)) /\ ~Has(s, n + 1)
        BY <2>3, <2>5, <4>1
      <4>3. Ipairs(s, 1) = Firsts(Scans(s), n)
        BY <2>1, <4>2, ScanEnds
      <4> QED BY <4>1, <4>3
    <3>2. Sort(s) = s
      <4>1. PICK f : f = Sorted(Ipairs(s, 1))
        OBVIOUS
      <4>2. PICK n \in Nat : n = 0
        OBVIOUS
      <4>3. f = Firsts(f, n)
        BY <3>1, <4>1, <4>2, SortedLength
      <4>4. PICK k \in Positive : k = 1
        BY DEF Positive
      <4>5. SetFrom(s, k, Firsts(f, 0)) = s
        BY <2>1, NoRound
      <4> QED BY <4>1, <4>2, <4>3, <4>4, <4>5 DEF Sort
    <3>3. t = Result(r, s) /\ r.vec = Observed(r, s)
      BY <1>2, <1>4, <2>3, <3>1, <3>2 DEF Result, Observed
    <3>4. next = "done"
      BY <1>9, <2>5
    <3> QED BY <2>1, <3>3, <3>4 DEF Follows
  <2> QED BY <2>4, <2>5
<1>7. next # "keyed"
  BY <1>9
<1> QED BY <1>2, <1>3, <1>4, <1>5, <1>6, <1>7, Goes

\* A step that fails leaves all as it was.
LEMMA FailsTrack ==
    ASSUME Mapped, Tracked, UNCHANGED <<t, property, pc, run, before>>
    PROVE  Mapped' /\ Tracked'
BY DEF Mapped, Tracked, IsMap

\* ++ of the iterator of sort and concat.
LEMMA StepTrack ==
    ASSUME IInv, Mapped, Tracked, NEW th \in Threads, Step(th)
    PROVE  Mapped' /\ Tracked'
<1> DEFINE q == run[th]
<1>1. /\ DOMAIN q = Fields /\ run = [run EXCEPT ![th] = q] /\ run[th] = q /\ IsMap(t)
      /\ q.op \in Comes(pc[th])
      /\ q.op # "none" => q.pos \in Positive /\ q.idx \in Positive
      /\ before[th] # NoTable => IsMap(before[th]) /\ Follows(pc[th], q, before[th], t, property)
  BY Knows
<1> HIDE DEF q
<1>2. pc[th] = "step" /\ q.op \in {"sort", "concat"} /\ UNCHANGED <<t, property, before>>
  BY <1>1 DEF Step, At, Comes, Writing, Reads, Fails
<1>3. q.pos \in Positive /\ q.idx \in Positive /\ q.idx \in Nat /\ q.idx + 1 \in Positive /\ 1 \in Positive
  BY <1>1, <1>2 DEF Positive
<1>4. CASE WritesMap
  BY <1>4, FailsTrack DEF Step, Fails
<1>5. ASSUME before[th] # NoTable
      PROVE  /\ ~q.ref.stale /\ t = before[th] /\ IsMap(t) /\ q.pos = 1
             /\ q.vec = Firsts(Scans(t), q.idx) /\ \A i \in 1..q.idx : Has(t, i)
  <2>1. ~q.ref.stale /\ Scanning("step", q, before[th], t)
    BY <1>1, <1>2, <1>5 DEF Follows, Writing
  <2> QED BY <1>1, <2>1 DEF Scanning
<1>6. CASE ~WritesMap /\ Has(t, q.idx + 1)
  <2> DEFINE r == [q EXCEPT !.idx = @ + 1, !.ref = Refer(q.idx + 1)]
  <2>1. Moves(th, "copy", r)
    BY <1>1, <1>6 DEF Step, Moves
  <2>2. /\ r.op = q.op /\ r.pos = q.pos /\ r.idx = q.idx + 1 /\ r.val = q.val /\ r.v = q.v /\ r.vec = q.vec
        /\ r.ref = Refer(q.idx + 1)
    BY <1>1 DEF Fields
  <2> HIDE DEF r
  <2>3. ASSUME before[th] # NoTable PROVE Follows("copy", r, before[th], t, property)
    <3>1. PICK n \in Nat : n = q.idx /\ r.idx = n + 1 /\ (n + 1) - 1 = n
      BY <1>3, <2>2
    <3>2. r.ref.key = r.idx /\ ~r.ref.stale
      BY <1>6, <2>2 DEF Refer
    <3>3. \A i \in 1..(n + 1) : i \in 1..n \/ i = n + 1
      OBVIOUS
    <3>4. \A i \in 1..r.idx : Has(t, i)
      BY <1>5, <1>6, <2>3, <3>1, <3>3
    <3>5. Scanning("copy", r, before[th], t)
      BY <1>5, <2>2, <2>3, <3>1, <3>2, <3>4 DEF Scanning
    <3>6. r.op \in {"sort", "concat"}
      BY <1>2, <2>2
    <3> QED BY <3>2, <3>5, <3>6 DEF Follows, Singles, Writing
  <2> QED BY <1>2, <1>3, <2>1, <2>2, <2>3, Goes
<1>7. ASSUME before[th] # NoTable, ~Has(t, q.idx + 1)
      PROVE  Ipairs(t, 1) = Firsts(Scans(t), q.idx)
  BY <1>3, <1>5, <1>7, ScanEnds
<1>8. CASE ~WritesMap /\ ~Has(t, q.idx + 1) /\ q.op = "concat"
  <2>1. Moves(th, "done", q)
    BY <1>1, <1>8 DEF Step, Moves
  <2>2. ASSUME before[th] # NoTable PROVE Follows("done", q, before[th], t, property)
    <3>1. q.vec = Ipairs(t, 1) /\ t = before[th]
      BY <1>5, <1>7, <1>8, <2>2
    <3> QED BY <1>8, <3>1 DEF Follows, Result, Observed
  <2> QED BY <1>1, <1>2, <1>3, <2>1, <2>2, Goes
<1>9. CASE ~WritesMap /\ ~Has(t, q.idx + 1) /\ q.op # "concat"
  <2>9. PICK e : e = Sorted(q.vec)
    OBVIOUS
  <2> DEFINE r == [q EXCEPT !.idx = 1, !.val = e[1], !.vec = e, !.ref = NoRef]
  <2>1. Moves(th, "lock", r)
    <3>1. /\ Goto(th, "lock")
          /\ run' = [run EXCEPT ![th].idx = 1, ![th].val = e[1], ![th].vec = e, ![th].ref = NoRef]
      BY <1>1, <1>9, <2>9 DEF Step
    <3> QED BY <1>1, <3>1 DEF Moves
  <2>2. /\ r.op = q.op /\ r.pos = q.pos /\ r.idx = 1 /\ r.val = e[1] /\ r.v = q.v /\ r.vec = e
        /\ r.ref = NoRef
    BY <1>1 DEF Fields
  <2> HIDE DEF r
  <2>3. ASSUME before[th] # NoTable PROVE Follows("lock", r, before[th], t, property)
    <3>1. e = Sorted(Ipairs(t, 1))
      BY <1>5, <1>7, <1>9, <2>3, <2>9
    <3>2. Len(e) = q.idx
      BY <1>3, <1>5, <2>3, <2>9, SortedLength
    <3>3. r.idx - r.pos = 0 /\ r.idx - r.pos + 1 = 1
      BY <1>5, <2>2, <2>3
    <3>4. SetFrom(t, r.pos, Firsts(r.vec, 0)) = t
      <4>1. PICK k \in Positive : k = r.pos
        BY <1>3, <2>2
      <4>2. PICK f : f = r.vec
        OBVIOUS
      <4> QED BY <1>1, <4>1, <4>2, NoRound
    <3>5. r.idx \in r.pos..(r.pos + Len(r.vec) - 1)
      <4>1. PICK n \in Nat : n = q.idx /\ n >= 1
        BY <1>3 DEF Positive
      <4> QED BY <1>5, <2>2, <2>3, <3>2, <4>1
    <3>6. Filling(r, before[th], t)
      BY <1>2, <1>5, <1>9, <2>2, <2>3, <3>1, <3>3, <3>4, <3>5 DEF Filling
    <3>7. r.op = "sort" /\ ~r.ref.stale
      BY <1>2, <1>9, <2>2 DEF NoRef
    <3> QED BY <3>6, <3>7 DEF Follows, Singles, Writing
  <2> QED BY <1>2, <1>3, <2>1, <2>2, <2>3, Goes
<1> QED BY <1>4, <1>6, <1>8, <1>9

\* The value that was referred to is read.
LEMMA CopyTrack ==
    ASSUME IInv, Mapped, Tracked, NEW th \in Threads, Copy(th)
    PROVE  Mapped' /\ Tracked'
<1> DEFINE q == run[th]
<1>1. /\ DOMAIN q = Fields /\ run = [run EXCEPT ![th] = q] /\ run[th] = q /\ IsMap(t)
      /\ q.op \in Comes(pc[th])
      /\ q.op # "none" => q.pos \in Positive /\ q.idx \in Positive
      /\ before[th] # NoTable => IsMap(before[th]) /\ Follows(pc[th], q, before[th], t, property)
  BY Knows
<1> HIDE DEF q
<1>2. pc[th] = "copy" /\ q.op \in {"insert", "remove", "get", "sort", "concat", "foreach"}
      /\ UNCHANGED <<t, property, before>>
  BY <1>1 DEF Copy, At, Comes, Writing, Reads, Fails
<1>3. q.pos \in Positive /\ q.idx \in Positive /\ q.idx \in Nat
  BY <1>1, <1>2 DEF Positive
<1>4. CASE Broken(q.ref)
  BY <1>1, <1>4, FailsTrack DEF Copy, Fails
<1>5. CASE ~Broken(q.ref)
  <2>1. PICK v : v = Value(q.ref)
    OBVIOUS
  <2>2. PICK next : next = CASE q.op = "get" -> "done"
                             [] q.op = "insert" -> "lock"
                             [] q.op = "remove" -> "peek"
                             [] q.op = "foreach" -> "next"
                             [] q.op \in {"sort", "concat"} -> "step"
    OBVIOUS
  <2> DEFINE r == [q EXCEPT !.vec = Append(@, v)]
  <2>3. Moves(th, next, r)
    BY <1>1, <1>5, <2>1, <2>2 DEF Copy, Moves
  <2>4. /\ r.op = q.op /\ r.pos = q.pos /\ r.idx = q.idx /\ r.val = q.val /\ r.v = q.v /\ r.ref = q.ref
        /\ r.vec = Append(q.vec, v)
    BY <1>1 DEF Fields
  <2> HIDE DEF r
  <2>5. next # "keyed"
    BY <1>2, <2>2
  <2>6. ASSUME before[th] # NoTable PROVE Follows(next, r, before[th], t, property)
    <3>1. PICK s : s = before[th] /\ IsMap(s) /\ Follows("copy", q, s, t, property)
      BY <1>1, <1>2, <2>6
    <3>2. CASE q.op = "get"
      <4>1. Getting("copy", q, s, t)
        BY <3>1, <3>2 DEF Follows
      <4>2. v = Get(s, q.pos)
        BY <1>3, <2>1, <3>1, <4>1, ValueOf DEF Getting
      <4>3. r.vec = <<Get(s, r.pos)>>
        BY <2>4, <4>1, <4>2 DEF Getting
      <4>4. t = Result(r, s) /\ r.vec = Observed(r, s)
        BY <2>4, <3>2, <4>1, <4>3 DEF Result, Observed, Getting
      <4>5. next = "done"
        BY <2>2, <3>2
      <4> QED BY <3>1, <4>4, <4>5 DEF Follows
    <3>3. CASE q.op = "insert"
      <4>1. Pushing("copy", q, s, t) /\ ~q.ref.stale
        BY <3>1, <3>3 DEF Follows
      <4>2. PICK f : f = Pushes(q, s) /\ f = Pushes(r, s) /\ t = SetFrom(s, q.pos, Firsts(f, q.idx - q.pos))
        BY <2>4, <4>1 DEF Pushing, Pushes
      <4>3. q.idx >= q.pos /\ q.vec = <<>> /\ q.ref.key = KeyRef(s, q.idx)
        BY <4>1 DEF Pushing, Writing
      <4>4. Get(t, q.idx) = Get(s, q.idx)
        <5>1. PICK p \in Positive, i \in Positive : p = q.pos /\ i = q.idx
          BY <1>3
        <5>2. i \in Nat /\ i >= i
          BY DEF Positive
        <5> QED BY <3>1, <4>2, <4>3, <5>1, <5>2, Ahead
      <4>5. v = Get(s, q.idx)
        BY <1>3, <2>1, <3>1, <4>3, <4>4, ValueOf
      <4>6. r.vec = <<Get(s, q.idx)>>
        BY <2>4, <4>3, <4>5
      <4>7. Pushing("lock", r, s, t)
        BY <2>4, <4>1, <4>2, <4>6 DEF Pushing, Writing
      <4>8. next = "lock"
        BY <2>2, <3>3
      <4> QED BY <2>4, <3>1, <3>3, <4>1, <4>7, <4>8 DEF Follows, Singles
    <3>4. CASE q.op = "remove"
      <4>1. Pulling("copy", q, s, t) /\ ~q.ref.stale
        BY <3>1, <3>4 DEF Follows
      <4>2. PICK f : f = Pulls(q, s) /\ f = Pulls(r, s) /\ t = SetFrom(s, q.pos, Firsts(f, q.idx - q.pos))
        BY <2>4, <4>1 DEF Pulling, Pulls
      <4>3. q.idx >= q.pos /\ q.idx = q.pos /\ q.vec = <<>> /\ q.ref.key = KeyRef(s, q.idx)
        BY <4>1 DEF Pulling, Writing, KeyRef
      <4>4. Get(t, q.idx) = Get(s, q.idx)
        <5>1. PICK p \in Positive, i \in Positive : p = q.pos /\ i = q.idx
          BY <1>3
        <5>2. i \in Nat /\ i >= i
          BY DEF Positive
        <5> QED BY <3>1, <4>2, <4>3, <5>1, <5>2, Ahead
      <4>5. v = Get(s, q.idx)
        BY <1>3, <2>1, <3>1, <4>3, <4>4, ValueOf
      <4>6. r.vec = <<Get(s, q.pos)>>
        BY <2>4, <4>3, <4>5
      <4>7. Pulling("peek", r, s, t)
        BY <2>4, <4>1, <4>2, <4>6 DEF Pulling, Writing
      <4>8. next = "peek"
        BY <2>2, <3>4
      <4> QED BY <2>4, <3>1, <3>4, <4>1, <4>7, <4>8 DEF Follows, Singles
    <3>5. CASE q.op = "foreach"
      <4>1. Visiting("copy", q, s, t) /\ ~q.ref.stale
        BY <3>1, <3>5 DEF Follows
      <4>2. t = s /\ q.vec = Firsts(Visits(s), q.idx - 1) /\ q.idx \in DOMAIN s.entries
            /\ q.ref.key = s.entries[q.idx].key
        BY <4>1 DEF Visiting
      <4>3. q.idx \in 1..Len(s.entries) /\ Len(s.entries) \in Nat
        BY <3>1, <4>2, Shape
      <4>4. PICK k \in Positive : k = s.entries[q.idx].key /\ Get(s, k) = s.entries[q.idx].value /\ Has(s, k)
        BY <3>1, <4>3, Shape
      <4>5. v = s.entries[q.idx].value
        <5>1. q.ref.key = KeyRef(s, k)
          BY <4>2, <4>4 DEF KeyRef
        <5>2. Value(q.ref) = Get(s, k)
          BY <3>1, <4>2, <4>4, <5>1, ValueOf
        <5> QED BY <2>1, <4>4, <5>2
      <4>6. PICK f : f = Visits(s)
        OBVIOUS
      <4>7. PICK n \in Nat : n = q.idx - 1 /\ n + 1 = q.idx
        BY <1>3 DEF Positive
      <4>8. f[n + 1] = v
        BY <4>2, <4>5, <4>6, <4>7 DEF Visits
      <4>9. r.vec = Firsts(Visits(s), r.idx)
        BY <2>4, <4>2, <4>6, <4>7, <4>8, FirstsGrow
      <4>10. Visiting("next", r, s, t)
        BY <2>4, <4>2, <4>9 DEF Visiting
      <4>11. next = "next"
        BY <2>2, <3>5
      <4> QED BY <2>4, <3>1, <3>5, <4>1, <4>10, <4>11 DEF Follows, Singles
    <3>6. CASE q.op \in {"sort", "concat"}
      <4>1. Scanning("copy", q, s, t) /\ ~q.ref.stale
        BY <3>1, <3>6 DEF Follows, Writing
      <4>2. t = s /\ q.pos = 1 /\ q.vec = Firsts(Scans(s), q.idx - 1) /\ q.ref.key = q.idx
            /\ \A i \in 1..q.idx : Has(s, i)
        BY <4>1 DEF Scanning
      <4>3. Has(s, q.idx)
        BY <1>3, <4>2 DEF Positive
      <4>4. v = Get(s, q.idx)
        <5>1. q.ref.key = KeyRef(s, q.idx)
          BY <4>2, <4>3 DEF KeyRef
        <5> QED BY <1>3, <2>1, <3>1, <4>2, <5>1, ValueOf
      <4>5. PICK f : f = Scans(s)
        OBVIOUS
      <4>6. PICK n \in Nat : n = q.idx - 1 /\ n + 1 = q.idx
        BY <1>3 DEF Positive
      <4>7. f[n + 1] = v
        BY <1>3, <4>4, <4>5, <4>6 DEF Scans
      <4>8. r.vec = Firsts(Scans(s), r.idx)
        BY <2>4, <4>2, <4>5, <4>6, <4>7, FirstsGrow
      <4>9. Scanning("step", r, s, t)
        BY <2>4, <4>2, <4>8 DEF Scanning
      <4>10. next = "step"
        BY <2>2, <3>6
      <4>11. r.op \in {"sort", "concat"}
        BY <2>4, <3>6
      <4> QED BY <2>4, <3>1, <4>1, <4>9, <4>10, <4>11 DEF Follows, Singles, Writing
    <3> QED BY <1>2, <3>2, <3>3, <3>4, <3>5, <3>6
  <2> QED BY <1>2, <1>3, <2>3, <2>4, <2>5, <2>6, Goes
<1> QED BY <1>4, <1>5

\* clone() stores nothing in the table it returns.
LEMMA CloneTrack ==
    ASSUME IInv, Mapped, Tracked, NEW th \in Threads, CloneTable(th)
    PROVE  Mapped' /\ Tracked'
<1> DEFINE q == run[th]
<1>1. /\ DOMAIN q = Fields /\ run = [run EXCEPT ![th] = q] /\ run[th] = q /\ IsMap(t)
      /\ q.op \in Comes(pc[th])
      /\ q.op # "none" => q.pos \in Positive /\ q.idx \in Positive
      /\ before[th] # NoTable => IsMap(before[th]) /\ Follows(pc[th], q, before[th], t, property)
  BY Knows
<1> HIDE DEF q
<1>2. pc[th] = "clone" /\ q.op = "clone" /\ UNCHANGED <<t, property, before>>
  BY <1>1 DEF CloneTable, At, Comes, Writing, Reads
<1>3. PICK e : e = KeysOf(Clone(t)) /\ e = <<>>
  BY <1>1, CloneIsEmpty
<1> DEFINE r == [q EXCEPT !.vec = e]
<1>4. Moves(th, "done", r)
  BY <1>1, <1>3 DEF CloneTable, Moves
<1>5. r.op = q.op /\ r.pos = q.pos /\ r.idx = q.idx /\ r.vec = e
  BY <1>1 DEF Fields
<1> HIDE DEF r
<1>6. ASSUME before[th] # NoTable PROVE Follows("done", r, before[th], t, property)
  <2>1. t = before[th]
    BY <1>1, <1>2, <1>6 DEF Follows, Singles, OneWrite
  <2> QED BY <1>2, <1>3, <1>5, <2>1 DEF Follows, Result, Observed
<1> QED BY <1>1, <1>2, <1>4, <1>5, <1>6, Goes

\* t[pos] = v finds the key that it left in the property.
LEMMA PropertyTrack ==
    ASSUME IInv, Mapped, Tracked, NEW th \in Threads, ReadProperty(th)
    PROVE  Mapped' /\ Tracked'
<1> DEFINE q == run[th]
<1>1. /\ DOMAIN q = Fields /\ run = [run EXCEPT ![th] = q] /\ run[th] = q /\ IsMap(t)
      /\ q.op \in Comes(pc[th])
      /\ q.op # "none" => q.pos \in Positive /\ q.idx \in Positive
      /\ before[th] # NoTable => IsMap(before[th]) /\ Follows(pc[th], q, before[th], t, property)
  BY Knows
<1> HIDE DEF q
<1>2. pc[th] = "keyed" /\ q.op = "index" /\ UNCHANGED <<t, property, before>>
  BY <1>1 DEF ReadProperty, At, Comes, Writing, Reads
<1> DEFINE r == [q EXCEPT !.idx = property]
<1>4. Moves(th, "lock", r)
  BY <1>1 DEF ReadProperty, Moves
<1>5. r.op = q.op /\ r.pos = q.pos /\ r.idx = property /\ r.val = q.val /\ r.v = q.v /\ r.ref = q.ref
  BY <1>1 DEF Fields
<1> HIDE DEF r
<1>6. ASSUME before[th] # NoTable PROVE Follows("lock", r, before[th], t, property)
  <2>1. ~q.ref.stale /\ OneWrite("keyed", q, before[th], t, property)
    BY <1>1, <1>2, <1>6 DEF Follows, Singles
  <2>2. OneWrite("lock", r, before[th], t, property)
    BY <1>2, <1>5, <2>1 DEF OneWrite
  <2> QED BY <1>2, <1>5, <2>1, <2>2 DEF Follows, Singles
<1>7. property \in Positive
  BY <1>2 DEF Mapped, Positive
<1> QED BY <1>1, <1>2, <1>4, <1>5, <1>6, <1>7, Goes

\* operator[] leaves its key: whoever has left another one is disturbed.
LEMMA AssignTrack ==
    ASSUME IInv, Mapped, Tracked, NEW th \in Threads, AssignProperty(th)
    PROVE  Mapped' /\ Tracked'
<1>1. /\ pc[th] = "assign" /\ run[th].op \in Comes("assign")
      /\ run[th].op # "none" => run[th].pos \in Positive /\ run[th].idx \in Positive
      /\ before[th] # NoTable => IsMap(before[th]) /\ Follows("assign", run[th], before[th], t, property)
  BY Knows DEF AssignProperty, At
<1>2. run[th].op = "index"
  BY <1>1 DEF Comes, Writing
<1>3. /\ property' = run[th].pos /\ UNCHANGED <<t, run>>
      /\ before' = [u \in Threads |-> IF u # th /\ pc[u] = "keyed" /\ run[u].pos # run[th].pos
                                      THEN NoTable ELSE before[u]]
      /\ pc' = [pc EXCEPT ![th] = "keyed"] /\ pc \in [Threads -> Pcs]
  BY DEF AssignProperty, Goto, IInv, Running
<1>4. run[th].pos \in Nat /\ run[th].pos # 0
  BY <1>1, <1>2 DEF Positive
<1>5. Mapped'
  BY <1>3, <1>4 DEF Mapped, IsMap
<1>6. ASSUME NEW u \in Threads, before'[u] # NoTable
      PROVE  IsMap(before'[u]) /\ Follows(pc'[u], run'[u], before'[u], t', property')
  <2>1. before'[u] = before[u] /\ before[u] # NoTable /\ (u # th /\ pc[u] = "keyed" => run[u].pos = run[th].pos)
    BY <1>3, <1>6
  <2>2. IsMap(before[u]) /\ Follows(pc[u], run[u], before[u], t, property) /\ run[u].op \in Comes(pc[u])
    BY <2>1, Knows
  <2>3. CASE u = th
    <3>1. ~run[th].ref.stale /\ OneWrite("assign", run[th], before[th], t, property)
      BY <1>1, <1>2, <2>1, <2>3 DEF Follows, Singles
    <3>2. OneWrite("keyed", run[th], before[th], t, run[th].pos)
      BY <1>2, <3>1 DEF OneWrite, Writing
    <3>3. Follows("keyed", run[th], before[th], t, run[th].pos)
      BY <1>2, <3>1, <3>2 DEF Follows, Singles
    <3> QED BY <1>3, <2>1, <2>2, <2>3, <3>3
  <2>4. CASE u # th /\ run[u].op = "index" /\ pc[u] # "done"
    <3>1. PICK at : at = pc[u]
      OBVIOUS
    <3>2. ~run[u].ref.stale /\ OneWrite(at, run[u], before[u], t, property)
      BY <2>2, <2>4, <3>1 DEF Follows, Singles
    <3>3. OneWrite(at, run[u], before[u], t, run[th].pos)
      BY <2>1, <2>4, <3>1, <3>2 DEF OneWrite
    <3>4. Follows(at, run[u], before[u], t, run[th].pos)
      BY <2>4, <3>1, <3>2, <3>3 DEF Follows, Singles
    <3>5. pc'[u] = at
      BY <1>3, <2>4, <3>1
    <3> QED BY <1>3, <2>1, <2>2, <3>4, <3>5
  <2>5. CASE u # th /\ (run[u].op # "index" \/ pc[u] = "done")
    <3>1. PICK at : at = pc[u]
      OBVIOUS
    <3>2. OneWrite(at, run[u], before[u], t, property) => OneWrite(at, run[u], before[u], t, run[th].pos)
          \/ pc[u] = "done"
      BY <2>5 DEF OneWrite
    <3>3. Follows(at, run[u], before[u], t, run[th].pos)
      BY <2>2, <2>5, <3>1, <3>2 DEF Follows
    <3>5. pc'[u] = at
      BY <1>3, <2>5, <3>1
    <3> QED BY <1>3, <2>1, <2>2, <3>3, <3>5
  <2> QED BY <2>3, <2>4, <2>5
<1> QED BY <1>5, <1>6 DEF Tracked

\* An operation returns.
LEMMA ReturnTrack ==
    ASSUME IInv, Mapped, Tracked, NEW th \in Threads, Return(th)
    PROVE  Mapped' /\ Tracked'
<1>1. /\ UNCHANGED <<t, property>> /\ before' = [before EXCEPT ![th] = NoTable]
      /\ pc' = [pc EXCEPT ![th] = "idle"] /\ run' = [run EXCEPT ![th] = Done]
      /\ pc \in [Threads -> Pcs] /\ run = [u \in Threads |-> run[u]] /\ before = [u \in Threads |-> before[u]]
  BY DEF Return, Goto, IInv, Running, Mapped
<1>2. Done.op = "none"
  BY DEF Done, Call
<1>3. before' = [u \in Threads |-> before'[u]]
  BY <1>1
<1>4. ASSUME NEW u \in Threads
      PROVE  /\ run'[u].op # "none" => run'[u].pos \in Positive /\ run'[u].idx \in Positive
             /\ pc'[u] = "keyed" => property # 0
             /\ before'[u] # NoTable => IsMap(before'[u]) /\ Follows(pc'[u], run'[u], before'[u], t', property')
  <2>1. CASE u = th
    BY <1>1, <1>2, <2>1
  <2>2. CASE u # th
    BY <1>1, <2>2 DEF Mapped, Tracked
  <2> QED BY <2>1, <2>2
<1> QED BY <1>1, <1>3, <1>4 DEF Mapped, Tracked, IsMap

\* A call has done nothing yet.
LEMMA Begins ==
    ASSUME NEW s, IsMap(s), NEW op \in DOMAIN Entry, NEW pos \in Positive, NEW v, NEW key, NEW r,
           r.op = op, r.pos = pos, r.v = v, r.idx = pos, r.val = v, ~r.ref.stale,
           r.vec = IF op = "move" THEN <<v, Nil>> ELSE <<>>,
           op \in {"sort", "concat"} => pos = 1
    PROVE  Follows(Entry[op], r, s, s, key)
<1>1. \A f : SetFrom(s, pos, Firsts(f, 0)) = s /\ Firsts(f, 0) = <<>>
  <2>1. \A f : Firsts(f, 0) = <<>>
    BY DEF Firsts
  <2> QED BY <2>1, NoRound
<1>2. pos - pos = 0 /\ pos >= pos /\ pos - pos + 1 = 1 /\ 1 \in Positive /\ pos - 1 \in Int
      /\ \A i \in (pos + 1)..(pos - 1) : FALSE
  BY DEF Positive
<1>3. CASE op \in {"set", "clear", "freeze", "unfreeze", "append", "index", "clone"}
  <2>1. Entry[op] \in {"lock", "len", "assign", "clone"} /\ (op = "append" => Entry[op] = "len")
        /\ (op = "index" => Entry[op] = "assign")
    BY <1>3 DEF Entry
  <2>2. OneWrite(Entry[op], r, s, s, key)
    BY <2>1 DEF OneWrite, Writing
  <2> QED BY <1>3, <2>1, <2>2 DEF Follows, Singles
<1>4. CASE op = "get"
  <2>1. Entry[op] = "get"
    BY <1>4 DEF Entry
  <2>2. Getting("get", r, s, s)
    BY <1>4 DEF Getting
  <2> QED BY <1>4, <2>1, <2>2 DEF Follows, Singles
<1>5. CASE op = "foreach"
  <2>1. Entry[op] = "pairs"
    BY <1>5 DEF Entry
  <2>2. Visiting("pairs", r, s, s)
    BY <1>1, <1>5 DEF Visiting
  <2> QED BY <1>5, <2>1, <2>2 DEF Follows, Singles
<1>6. CASE op \in {"sort", "concat"}
  <2>1. Entry[op] = "ipairs"
    BY <1>6 DEF Entry
  <2>2. r.vec = Firsts(Scans(s), 0) /\ r.idx = 1 /\ r.idx - 1 = 0
    BY <1>1, <1>6
  <2>3. Scanning("ipairs", r, s, s)
    BY <1>6, <2>2 DEF Scanning
  <2> QED BY <1>6, <2>1, <2>3 DEF Follows, Singles, Writing
<1>7. CASE op = "insert"
  <2>1. Entry[op] = "has"
    BY <1>7 DEF Entry
  <2>2. Pushes(r, s)[1] = v
    BY <1>2 DEF Pushes
  <2>3. PICK f : f = Pushes(r, s)
    OBVIOUS
  <2>4. Pushing("has", r, s, s)
    BY <1>1, <1>2, <1>7, <2>2, <2>3 DEF Pushing, Writing
  <2> QED BY <1>7, <2>1, <2>4 DEF Follows, Singles
<1>8. CASE op = "remove"
  <2>1. Entry[op] = "has"
    BY <1>8 DEF Entry
  <2>3. PICK f : f = Pulls(r, s)
    OBVIOUS
  <2>5. \A i \in pos..(pos - 1) : FALSE
    BY DEF Positive
  <2>4. Pulling("has", r, s, s)
    BY <1>1, <1>2, <1>8, <2>3, <2>5 DEF Pulling, Writing
  <2> QED BY <1>8, <2>1, <2>4 DEF Follows, Singles
<1>9. CASE op = "move"
  <2>1. Entry[op] = "lock"
    BY <1>9 DEF Entry
  <2>2. Len(r.vec) = 2 /\ r.vec[1] = v
    BY <1>9
  <2>3. pos \in pos..(pos + 2 - 1)
    BY DEF Positive
  <2>4. PICK f : f = r.vec
    OBVIOUS
  <2>5. Filling(r, s, s)
    BY <1>1, <1>2, <1>9, <2>2, <2>3, <2>4 DEF Filling
  <2> QED BY <1>9, <2>1, <2>5 DEF Follows, Singles
<1> QED BY <1>3, <1>4, <1>5, <1>6, <1>7, <1>8, <1>9 DEF Entry

\* A call begins with the table as it is.
LEMMA StartTrack ==
    ASSUME IInv, Mapped, Tracked, NEW th \in Threads, NEW op, NEW pos \in Keys, NEW v, Start(th, op, pos, v)
    PROVE  Mapped' /\ Tracked'
<1> DEFINE r == IF op = "move" THEN MoveCall(pos, v) ELSE Call(op, pos, v)
<1>1. /\ r.op = op /\ r.pos = pos /\ r.v = v /\ r.idx = pos /\ r.val = v /\ ~r.ref.stale
      /\ r.vec = IF op = "move" THEN <<v, Nil>> ELSE <<>>
  <2>1. /\ MoveCall(pos, v) = [op |-> "move", pos |-> pos, v |-> v, idx |-> pos, val |-> v,
                               vec |-> <<v, Nil>>, ref |-> NoRef]
        /\ Call(op, pos, v) = [op |-> op, pos |-> pos, v |-> v, idx |-> pos, val |-> v,
                               vec |-> <<>>, ref |-> NoRef]
    BY DEF MoveCall, Call
  <2>2. CASE op = "move"
    BY <2>1, <2>2 DEF NoRef
  <2>3. CASE op # "move"
    BY <2>1, <2>3 DEF NoRef
  <2> QED BY <2>2, <2>3
<1>2. /\ run' = [run EXCEPT ![th] = r] /\ before' = [before EXCEPT ![th] = t]
      /\ pc' = [pc EXCEPT ![th] = Entry[op]] /\ UNCHANGED <<t, property>>
      /\ pc \in [Threads -> Pcs] /\ run = [u \in Threads |-> run[u]] /\ before = [u \in Threads |-> before[u]]
  BY DEF Start, Goto, IInv, Running, Mapped
<1>3. op \in DOMAIN Entry /\ (op \in {"sort", "concat"} => pos = 1) /\ Entry[op] # "keyed"
  BY DEF Start, Entry
<1>4. pos \in Positive
  BY KeysAssumption DEF Keys, Positive
<1> HIDE DEF r
<1>5. IsMap(t) /\ Follows(Entry[op], r, t, t, property)
  BY <1>1, <1>3, <1>4, Begins DEF Mapped
<1>6. before' = [u \in Threads |-> before'[u]]
  BY <1>2
<1>7. ASSUME NEW u \in Threads
      PROVE  /\ run'[u].op # "none" => run'[u].pos \in Positive /\ run'[u].idx \in Positive
             /\ pc'[u] = "keyed" => property # 0
             /\ before'[u] # NoTable => IsMap(before'[u]) /\ Follows(pc'[u], run'[u], before'[u], t', property')
  <2>1. CASE u = th
    BY <1>1, <1>2, <1>3, <1>4, <1>5, <2>1
  <2>2. CASE u # th
    BY <1>2, <2>2 DEF Mapped, Tracked
  <2> QED BY <2>1, <2>2
<1> QED BY <1>2, <1>6, <1>7 DEF Mapped, Tracked, IsMap

\* An array is a map, and nothing has begun.
LEMMA InitTracks == Init => Mapped /\ Tracked
<1> SUFFICES ASSUME Init PROVE Mapped /\ Tracked
  OBVIOUS
<1>1. PICK n \in 0..MaxKey, frozen \in BOOLEAN : \E values \in [1..n -> Values] :
        t = [entries |-> [i \in 1..n |-> [key |-> i, value |-> values[i]]], frozen |-> frozen]
  BY DEF Init
<1>2. PICK values \in [1..n -> Values] :
        t = [entries |-> [i \in 1..n |-> [key |-> i, value |-> values[i]]], frozen |-> frozen]
  BY <1>1
<1>3. n \in Nat
  BY KeysAssumption
<1>4. PICK e : e = [i \in 1..n |-> [key |-> i, value |-> values[i]]]
  OBVIOUS
<1>5. e \in Seq(Ops!Entries(Positive, Values)) /\ Len(e) = n
  <2>1. \A i \in 1..n : e[i] \in Ops!Entries(Positive, Values)
    BY <1>4 DEF Ops!Entries, Positive
  <2> QED BY <1>3, <1>4, <2>1
<1>6. \A i, j \in 1..Len(e) : e[i].key = e[j].key => i = j
  BY <1>4, <1>5
<1>7. IsMap(t)
  <2>1. [entries |-> e, frozen |-> frozen] \in Ops!Maps(Positive, Values)
    BY <1>5, <1>6, Fits, Ops!MapBuilt
  <2>2. PICK s : s = [entries |-> e, frozen |-> frozen]
    OBVIOUS
  <2> QED BY <1>2, <1>4, <2>1, <2>2, MapHere
<1>8. Done.op = "none"
  BY DEF Done, Call
<1> QED BY <1>7, <1>8 DEF Init, Mapped, Tracked

\* A step that writes disturbs all other operations, if it changes the table.
Disturbs(th) == before' = [u \in Threads |-> IF u # th /\ t' # t THEN NoTable ELSE before[u]]

\* A step that writes a map, as the operation would.
LEMMA Writes ==
    ASSUME IInv, Mapped, Tracked, NEW th \in Threads, NEW next, NEW r, Moves(th, next, r),
           IsMap(t'), property' = property, Disturbs(th), next # "keyed",
           r.op # "none" => r.pos \in Positive /\ r.idx \in Positive,
           before[th] # NoTable => Follows(next, r, before[th], t', property)
    PROVE  Mapped' /\ Tracked'
<1>1. /\ pc'[th] = next /\ run'[th] = r
      /\ \A u \in Threads \ {th} : pc'[u] = pc[u] /\ run'[u] = run[u]
  BY DEF IInv, Running, Moves, Goto
<1>2. ASSUME NEW u \in Threads
      PROVE  /\ run'[u].op # "none" => run'[u].pos \in Positive /\ run'[u].idx \in Positive
             /\ pc'[u] = "keyed" => property' # 0
             /\ before'[u] # NoTable => IsMap(before'[u]) /\ Follows(pc'[u], run'[u], before'[u], t', property')
  <2>1. CASE u = th
    BY <1>1, <2>1 DEF Disturbs, Mapped, Tracked
  <2>2. CASE u # th /\ t' = t
    BY <1>1, <2>2 DEF Disturbs, Mapped, Tracked
  <2>3. CASE u # th /\ t' # t
    BY <1>1, <2>3 DEF Disturbs, Mapped
  <2> QED BY <2>1, <2>2, <2>3
<1>3. before' = [u \in Threads |-> before'[u]]
  BY DEF Disturbs
<1>4. (IsMap(t))' /\ property' \in Nat
  BY DEF IsMap, Held, Mapped
<1> QED BY <1>2, <1>3, <1>4 DEF Mapped, Tracked

\* clear() leaves a map.
LEMMA Emptied == ASSUME NEW s, IsMap(s) PROVE IsMap(Clear(s))
<1>1. CASE ~s.frozen
  BY <1>1 DEF Clear
<1>2. CASE s.frozen
  <2>1. s = [entries |-> s.entries, frozen |-> s.frozen] /\ s.frozen \in BOOLEAN
    BY Shape
  <2>2. PICK e : e = <<>>
    OBVIOUS
  <2>3. e \in Seq(Ops!Entries(Positive, {})) /\ \A i, j \in 1..Len(e) : e[i].key = e[j].key => i = j
    BY <2>2
  <2>4. PICK x : x = [entries |-> e, frozen |-> s.frozen]
    OBVIOUS
  <2>5. IsMap(x)
    BY <2>1, <2>3, <2>4, Fits, Ops!MapBuilt, MapHere
  <2>6. Clear(s) = x
    <3>1. [s EXCEPT !.entries = e] = x
      BY <2>1, <2>4
    <3> QED BY <1>2, <2>2, <3>1 DEF Clear
  <2> QED BY <2>5, <2>6
<1> QED BY <1>1, <1>2

\* freeze() and unfreeze() leave a map.
LEMMA Marked ==
    ASSUME NEW s, IsMap(s), NEW b \in BOOLEAN
    PROVE  IsMap([s EXCEPT !.frozen = b])
<1>1. s \in Ops!Maps(Positive, Held(s)) /\ s = [entries |-> s.entries, frozen |-> s.frozen]
  BY Shape DEF IsMap, Held
<1>2. PICK e : e = s.entries
  OBVIOUS
<1>3. e \in Seq(Ops!Entries(Positive, Held(s))) /\ \A i, j \in 1..Len(e) : e[i].key = e[j].key => i = j
  BY <1>1, <1>2, Fits, Ops!MapShape
<1>4. PICK x : x = [entries |-> e, frozen |-> b]
  OBVIOUS
<1>5. IsMap(x)
  BY <1>3, <1>4, Fits, Ops!MapBuilt, MapHere
<1>6. [s EXCEPT !.frozen = b] = x
  BY <1>1, <1>2, <1>4
<1> QED BY <1>5, <1>6

\* One locked section does all that the operation does.
LEMMA OneGoes ==
    ASSUME IInv, Mapped, Tracked, NEW th \in Threads, Store(th), ~Clears(th), run[th].op \in Singles
    PROVE  Mapped' /\ Tracked'
<1> DEFINE q == run[th]
<1>1. /\ DOMAIN q = Fields /\ run = [run EXCEPT ![th] = q] /\ run[th] = q /\ IsMap(t)
      /\ q.op \in Comes(pc[th])
      /\ q.op # "none" => q.pos \in Positive /\ q.idx \in Positive
      /\ before[th] # NoTable => IsMap(before[th]) /\ Follows(pc[th], q, before[th], t, property)
  BY Knows
<1>0. q.op \in Singles
  OBVIOUS
<1> HIDE DEF q
<1>2. /\ pc[th] = "store" /\ t' = Effect(q) /\ Resume(th) /\ Disturbs(th) /\ property' = property
      /\ q.op \in {"set", "index", "append", "clear", "freeze", "unfreeze"}
  BY <1>0, <1>1 DEF Store, At, Comes, Writing, Setting, Singles, Disturbs
<1>3. Moves(th, "done", q)
  BY <1>1, <1>2 DEF Resume, Moves
<1>4. q.pos \in Positive /\ q.idx \in Positive
  BY <1>1, <1>2
<1>5. before[th] # NoTable => OneWrite("store", q, before[th], t, property)
  BY <1>0, <1>1, <1>2 DEF Follows
<1>6. CASE q.op \in {"set", "index", "append"}
  <2>1. t' = Set(t, q.idx, q.val)
    BY <1>2, <1>6 DEF Effect
  <2>2. IsMap(t')
    BY <1>1, <1>4, <2>1, Sets
  <2>3. ASSUME before[th] # NoTable PROVE Follows("done", q, before[th], t', property)
    <3>1. t = before[th] /\ q.val = q.v /\ (q.op \in {"set", "index"} => q.idx = q.pos)
          /\ (q.op = "append" => q.idx = ArrLen(t) + 1)
      BY <1>5, <2>3 DEF OneWrite, Writing
    <3>2. t' = Result(q, before[th]) /\ q.vec = Observed(q, before[th])
      BY <1>6, <2>1, <3>1 DEF Result, Observed, InsertEnd
    <3> QED BY <3>2 DEF Follows
  <2> QED BY <1>2, <1>3, <1>4, <2>2, <2>3, Writes
<1>7. CASE q.op = "clear"
  <2>1. t' = Clear(t)
    BY <1>2, <1>7 DEF Effect
  <2>2. IsMap(t')
    BY <1>1, <2>1, Emptied
  <2>3. ASSUME before[th] # NoTable PROVE Follows("done", q, before[th], t', property)
    <3>1. t' = Result(q, before[th]) /\ q.vec = Observed(q, before[th])
      BY <1>5, <1>7, <2>1, <2>3 DEF Result, Observed, OneWrite
    <3> QED BY <3>1 DEF Follows
  <2> QED BY <1>2, <1>3, <1>4, <2>2, <2>3, Writes
<1>8. CASE q.op \in {"freeze", "unfreeze"}
  <2>1. t' = [t EXCEPT !.frozen = q.op = "freeze"]
    BY <1>2, <1>8 DEF Effect
  <2>2. PICK b \in BOOLEAN : b = (q.op = "freeze")
    OBVIOUS
  <2>3. IsMap(t')
    BY <1>1, <2>1, <2>2, Marked
  <2>4. ASSUME before[th] # NoTable PROVE Follows("done", q, before[th], t', property)
    <3>1. t' = Result(q, before[th]) /\ q.vec = Observed(q, before[th])
      BY <1>5, <1>8, <2>1, <2>4 DEF Result, Observed, OneWrite
    <3> QED BY <3>1 DEF Follows
  <2> QED BY <1>2, <1>3, <1>4, <2>3, <2>4, Writes
<1> QED BY <1>2, <1>6, <1>7, <1>8

\* clear() of a table that is frozen and not empty.
LEMMA ClearTrack ==
    ASSUME IInv, Mapped, Tracked, NEW th \in Threads, Store(th), Clears(th)
    PROVE  Mapped' /\ Tracked'
<1>1. /\ pc[th] = "store" /\ run[th].op = "clear" /\ t.frozen /\ t.entries # <<>> /\ IsMap(t)
      /\ before[th] # NoTable => IsMap(before[th]) /\ Follows("store", run[th], before[th], t, property)
  BY Knows DEF Clears
<1>2. /\ t' = Clear(t) /\ property' = property /\ Disturbs(th)
      /\ pc' = [pc EXCEPT ![th] = "done"] /\ run' = Stale(run, th)
      /\ pc \in [Threads -> Pcs]
  BY <1>1 DEF Store, Effect, Disturbs, Goto, IInv, Running
<1>3. IsMap(t') /\ t' # t
  <2>1. t = [entries |-> t.entries, frozen |-> t.frozen]
    BY <1>1, Shape
  <2>2. t' = [entries |-> <<>>, frozen |-> t.frozen]
    BY <1>1, <1>2, <2>1 DEF Clear
  <2>3. t'.entries = <<>>
    BY <2>2
  <2> QED BY <1>1, <1>2, <2>3, Emptied
<1>4. ASSUME NEW u \in Threads
      PROVE  run'[u].op = run[u].op /\ run'[u].pos = run[u].pos /\ run'[u].idx = run[u].idx /\ run'[u].vec = run[u].vec
             /\ run'[u].v = run[u].v
  <2>1. DOMAIN run[u] = Fields
    BY DEF IInv, Running, IsCall
  <2>2. run'[u] = [run[u] EXCEPT !.ref.stale = @ \/ (Clears(th) /\ run[u].ref.key # 0)]
    BY <1>2 DEF Stale
  <2>3. PICK ref : run'[u] = [run[u] EXCEPT !.ref = ref]
    BY <2>2
  <2> QED BY <2>1, <2>3 DEF Fields
<1>5. before' = [u \in Threads |-> before'[u]] /\ before'[th] = before[th]
      /\ \A u \in Threads \ {th} : before'[u] = NoTable
  BY <1>2, <1>3 DEF Disturbs
<1>6. pc'[th] = "done" /\ \A u \in Threads \ {th} : pc'[u] = pc[u]
  BY <1>2
<1>7. (IsMap(t))' /\ property' \in Nat
  BY <1>2, <1>3 DEF IsMap, Held, Mapped
<1>8. Mapped'
  BY <1>2, <1>4, <1>5, <1>6, <1>7 DEF Mapped
<1>9. ASSUME before[th] # NoTable PROVE Follows("done", run'[th], before[th], t', property)
  <2>1. t = before[th]
    BY <1>1, <1>9 DEF Follows, Singles, OneWrite
  <2>2. t' = Result(run'[th], before[th]) /\ run'[th].vec = Observed(run'[th], before[th])
    BY <1>1, <1>2, <1>4, <2>1 DEF Result, Observed
  <2> QED BY <2>2 DEF Follows
<1>10. ASSUME NEW u \in Threads, before'[u] # NoTable
      PROVE  IsMap(before'[u]) /\ Follows(pc'[u], run'[u], before'[u], t', property')
  <2>1. u = th
    BY <1>5, <1>10
  <2> QED BY <1>1, <1>2, <1>5, <1>6, <1>9, <1>10, <2>1
<1> QED BY <1>8, <1>10 DEF Tracked

\* insert writes a value, and goes on with the one that was there.
LEMMA PushTrack ==
    ASSUME IInv, Mapped, Tracked, NEW th \in Threads, Store(th), run[th].op = "insert"
    PROVE  Mapped' /\ Tracked'
<1> DEFINE q == run[th]
<1>0. q.op = "insert" /\ ~Clears(th)
  BY DEF Clears
<1>1. /\ DOMAIN q = Fields /\ run = [run EXCEPT ![th] = q] /\ run[th] = q /\ IsMap(t)
      /\ q.op # "none" => q.pos \in Positive /\ q.idx \in Positive
      /\ before[th] # NoTable => IsMap(before[th]) /\ Follows(pc[th], q, before[th], t, property)
  BY Knows
<1> HIDE DEF q
<1>2. /\ pc[th] = "store" /\ t' = Effect(q) /\ Resume(th) /\ Disturbs(th) /\ property' = property
  BY <1>0, <1>1 DEF Store, At, Disturbs
<1>3. q.pos \in Positive /\ q.idx \in Positive /\ q.idx + 1 \in Positive
  BY <1>0, <1>1 DEF Positive
<1>4. t' = Set(t, q.idx, q.val) /\ IsMap(t')
  <2>1. t' = Set(t, q.idx, q.val)
    BY <1>0, <1>2 DEF Effect
  <2> QED BY <1>1, <1>3, <2>1, Sets
<1> DEFINE r == [q EXCEPT !.idx = @ + 1, !.val = q.vec[1], !.vec = <<>>, !.ref = NoRef]
<1>5. Moves(th, "has", r)
  BY <1>0, <1>1, <1>2 DEF Resume, Moves
<1>6. /\ r.op = q.op /\ r.pos = q.pos /\ r.idx = q.idx + 1 /\ r.val = q.vec[1] /\ r.v = q.v /\ r.vec = <<>>
      /\ r.ref = NoRef
  BY <1>1 DEF Fields
<1> HIDE DEF r
<1>7. ASSUME before[th] # NoTable PROVE Follows("has", r, before[th], t', property)
  <2>1. PICK s : s = before[th] /\ IsMap(s)
    BY <1>1, <1>7
  <2>2. Pushing("store", q, s, t)
    BY <1>0, <1>1, <1>2, <1>7, <2>1 DEF Follows
  <2>3. Pushing("has", r, s, t')
    BY <1>3, <1>4, <1>6, <2>1, <2>2, PushGoes
  <2> QED BY <1>0, <1>6, <2>1, <2>3 DEF Follows, Singles, NoRef
<1> QED BY <1>2, <1>3, <1>4, <1>5, <1>6, <1>7, Writes

\* remove reads the value of the next key and writes it to this one.
LEMMA PullTrack ==
    ASSUME IInv, Mapped, Tracked, NEW th \in Threads, Store(th), run[th].op = "remove"
    PROVE  Mapped' /\ Tracked'
<1> DEFINE q == run[th]
<1>0. q.op = "remove" /\ ~Clears(th)
  BY DEF Clears
<1>1. /\ DOMAIN q = Fields /\ run = [run EXCEPT ![th] = q] /\ run[th] = q /\ IsMap(t)
      /\ q.op # "none" => q.pos \in Positive /\ q.idx \in Positive
      /\ before[th] # NoTable => IsMap(before[th]) /\ Follows(pc[th], q, before[th], t, property)
  BY Knows
<1> HIDE DEF q
<1>8. CASE q.ref.stale
  BY <1>0, <1>1, <1>8, FailsTrack DEF Store, Fails
<1>9. CASE ~q.ref.stale
  <2>1. /\ pc[th] = "store" /\ t' = Effect(q) /\ Resume(th) /\ Disturbs(th) /\ property' = property
    BY <1>0, <1>1, <1>9 DEF Store, At, Disturbs
  <2>2. q.pos \in Positive /\ q.idx \in Positive /\ q.idx + 1 \in Positive
    BY <1>0, <1>1 DEF Positive
  <2>3. PICK v : v = Value(q.ref)
    OBVIOUS
  <2>4. t' = Set(t, q.idx, v) /\ IsMap(t')
    <3>1. t' = Set(t, q.idx, v)
      BY <1>0, <2>1, <2>3 DEF Effect
    <3> QED BY <1>1, <2>2, <3>1, Sets
  <2> DEFINE r == [q EXCEPT !.idx = @ + 1, !.ref = NoRef]
  <2>5. Moves(th, "has", r)
    BY <1>0, <1>1, <2>1 DEF Resume, Moves
  <2>6. r.op = q.op /\ r.pos = q.pos /\ r.idx = q.idx + 1 /\ r.vec = q.vec /\ r.ref = NoRef
    BY <1>1 DEF Fields
  <2> HIDE DEF r
  <2>7. ASSUME before[th] # NoTable PROVE Follows("has", r, before[th], t', property)
    <3>1. PICK s : s = before[th] /\ IsMap(s)
      BY <1>1, <2>7
    <3>2. Pulling("store", q, s, t)
      BY <1>0, <1>1, <2>1, <2>7, <3>1 DEF Follows
    <3>3. PICK f : f = Pulls(q, s) /\ t = SetFrom(s, q.pos, Firsts(f, q.idx - q.pos))
      BY <3>2 DEF Pulling
    <3>4. q.idx >= q.pos /\ q.ref.key = KeyRef(s, q.idx + 1)
      BY <3>2 DEF Pulling, Writing
    <3>5. Get(t, q.idx + 1) = Get(s, q.idx + 1)
      <4>1. PICK p \in Positive, i \in Positive : p = q.pos /\ i = q.idx
        BY <2>2
      <4>2. PICK j \in Nat : j = i + 1 /\ j >= i
        BY DEF Positive
      <4> QED BY <3>1, <3>3, <3>4, <4>1, <4>2, Ahead
    <3>6. v = Get(s, q.idx + 1)
      BY <2>2, <2>3, <3>1, <3>4, <3>5, ValueOf
    <3>7. Pulling("has", r, s, t')
      BY <2>2, <2>4, <2>6, <3>1, <3>2, <3>6, PullGoes
    <3> QED BY <1>0, <2>6, <3>1, <3>7 DEF Follows, Singles, NoRef
  <2> QED BY <2>1, <2>2, <2>4, <2>5, <2>6, <2>7, Writes
<1> QED BY <1>8, <1>9

\* sort and move write the next of their values, which may be the last.
LEMMA FillTrack ==
    ASSUME IInv, Mapped, Tracked, NEW th \in Threads, Store(th), run[th].op \in {"sort", "move"}
    PROVE  Mapped' /\ Tracked'
<1> DEFINE q == run[th]
<1>0. q.op \in {"sort", "move"} /\ ~Clears(th)
  BY DEF Clears
<1>1. /\ DOMAIN q = Fields /\ run = [run EXCEPT ![th] = q] /\ run[th] = q /\ IsMap(t)
      /\ q.op # "clone" => Sequential(q.vec)
      /\ q.op # "none" => q.pos \in Positive /\ q.idx \in Positive
      /\ before[th] # NoTable => IsMap(before[th]) /\ Follows(pc[th], q, before[th], t, property)
  BY Knows
<1> HIDE DEF q
<1>2. /\ pc[th] = "store" /\ t' = Effect(q) /\ Resume(th) /\ Disturbs(th) /\ property' = property
  BY <1>0, <1>1 DEF Store, At, Disturbs
<1>3. q.pos \in Positive /\ q.idx \in Positive /\ q.idx + 1 \in Positive
  BY <1>0, <1>1 DEF Positive
<1>4. t' = Set(t, q.idx, q.val) /\ IsMap(t')
  <2>1. t' = Set(t, q.idx, q.val)
    BY <1>0, <1>2 DEF Effect
  <2> QED BY <1>1, <1>3, <2>1, Sets
<1>5. Len(q.vec) \in Nat /\ DOMAIN q.vec = 1..Len(q.vec) /\ q.vec = [i \in DOMAIN q.vec |-> q.vec[i]]
  <2>1. Sequential(q.vec)
    BY <1>0, <1>1
  <2> QED BY <2>1, InSeq DEF Sequential
<1>6. ASSUME before[th] # NoTable
      PROVE  /\ IsMap(before[th]) /\ ~q.ref.stale /\ Filling(q, before[th], t)
             /\ t' = SetFrom(before[th], q.pos, Firsts(q.vec, q.idx - q.pos + 1))
  <2>1. PICK s : s = before[th] /\ IsMap(s)
    BY <1>1, <1>6
  <2>2. ~q.ref.stale /\ Filling(q, s, t)
    BY <1>0, <1>1, <1>2, <1>6, <2>1 DEF Follows, Writing
  <2>3. t' = SetFrom(s, q.pos, Firsts(q.vec, q.idx - q.pos + 1))
    BY <1>3, <1>4, <1>5, <2>1, <2>2, FillGoes
  <2> QED BY <2>1, <2>2, <2>3
<1>7. CASE q.idx - q.pos + 1 < Len(q.vec)
  <2> DEFINE r == [q EXCEPT !.idx = @ + 1, !.val = q.vec[q.idx - q.pos + 2]]
  <2>4. /\ Goto(th, "lock")
        /\ run' = [run EXCEPT ![th].idx = @ + 1, ![th].val = q.vec[q.idx - q.pos + 2]]
    BY <1>0, <1>1, <1>2, <1>7 DEF Resume
  <2>1. Moves(th, "lock", r)
    BY <1>1, <2>4 DEF Moves
  <2>2. /\ r.op = q.op /\ r.pos = q.pos /\ r.idx = q.idx + 1 /\ r.v = q.v /\ r.vec = q.vec /\ r.ref = q.ref
        /\ r.val = q.vec[q.idx - q.pos + 2]
    BY <1>1 DEF Fields
  <2> HIDE DEF r
  <2>3. ASSUME before[th] # NoTable PROVE Follows("lock", r, before[th], t', property)
    <3>1. PICK n \in Nat : n = Len(q.vec)
      BY <1>5
    <3>2. PICK p \in Nat, i \in Nat : p = q.pos /\ i = q.idx
      BY <1>3 DEF Positive
    <3>3. i \in p..(p + n - 1) /\ i - p + 1 < n
      BY <1>6, <1>7, <2>3, <3>1, <3>2 DEF Filling
    <3>4. i + 1 \in p..(p + n - 1) /\ (i + 1) - p = i - p + 1 /\ (i + 1) - p + 1 = i - p + 2
      BY <3>3
    <3>5. /\ r.idx \in r.pos..(r.pos + Len(r.vec) - 1) /\ r.idx - r.pos = q.idx - q.pos + 1
          /\ r.idx - r.pos + 1 = q.idx - q.pos + 2
      BY <2>2, <3>1, <3>2, <3>4
    <3>6. Filling(r, before[th], t')
      BY <1>6, <2>2, <2>3, <3>5 DEF Filling
    <3>7. ~r.ref.stale /\ r.op \in {"sort", "move"}
      BY <1>0, <1>6, <2>2, <2>3
    <3> QED BY <3>6, <3>7 DEF Follows, Singles, Writing
  <2> QED BY <1>2, <1>3, <1>4, <2>1, <2>2, <2>3, Writes
<1>8. CASE ~(q.idx - q.pos + 1 < Len(q.vec))
  <2>1. Moves(th, "done", q)
    BY <1>0, <1>1, <1>2, <1>8 DEF Resume, Moves
  <2>2. ASSUME before[th] # NoTable PROVE Follows("done", q, before[th], t', property)
    <3>1. PICK n \in Nat : n = Len(q.vec)
      BY <1>5
    <3>2. PICK p \in Nat, i \in Nat : p = q.pos /\ i = q.idx
      BY <1>3 DEF Positive
    <3>3. i \in p..(p + n - 1) /\ ~(i - p + 1 < n)
      BY <1>6, <1>8, <2>2, <3>1, <3>2 DEF Filling
    <3>4. q.idx - q.pos + 1 = Len(q.vec)
      BY <3>1, <3>2, <3>3
    <3>5. Firsts(q.vec, Len(q.vec)) = q.vec
      BY <1>5 DEF Firsts
    <3>6. t' = SetFrom(before[th], q.pos, q.vec)
      BY <1>6, <2>2, <3>4, <3>5
    <3>7. t' = Result(q, before[th])
      BY <1>0, <1>6, <2>2, <3>6 DEF Filling, Result, Sort
    <3>8. q.vec = Observed(q, before[th])
      BY <1>0 DEF Observed
    <3> QED BY <3>7, <3>8 DEF Follows
  <2> QED BY <1>2, <1>3, <1>4, <2>1, <2>2, Writes
<1> QED BY <1>7, <1>8

\* What is written under the lock is what the operation would write.
LEMMA StoreTrack ==
    ASSUME IInv, Mapped, Tracked, NEW th \in Threads, Store(th)
    PROVE  Mapped' /\ Tracked'
<1>1. run[th].op \in Singles \cup {"insert", "remove", "sort", "move"}
  BY Knows DEF Store, At, Comes, Writing, Setting, Singles
<1>2. CASE Clears(th)
  BY <1>2, ClearTrack
<1>3. CASE ~Clears(th)
  BY <1>1, <1>3, OneGoes, PushTrack, PullTrack, FillTrack
<1> QED BY <1>2, <1>3

\* What an operation that nobody disturbs has done is known after every step.
LEMMA StepsTrack == ASSUME IInv, Mapped, Tracked, [Next]_vars PROVE Mapped' /\ Tracked'
<1>1. CASE UNCHANGED vars
  BY <1>1, FailsTrack DEF vars
<1>2. ASSUME NEW th \in Threads, NEW op, NEW pos \in Keys, NEW v, Start(th, op, pos, v)
      PROVE  Mapped' /\ Tracked'
  BY <1>2, StartTrack
<1>3. ASSUME NEW th \in Threads,
             \/ LenLock(th) \/ LenHas(th) \/ Pairs(th) \/ PairsNext(th) \/ NextEntry(th)
             \/ HasKey(th) \/ GetKey(th) \/ Peek(th) \/ IpairsBegin(th) \/ Copy(th) \/ Step(th)
      PROVE  Mapped' /\ Tracked'
  BY <1>3, LenTrack, VisitTrack, HasTrack, GetTrack, PeekTrack, BeginTrack, CopyTrack, StepTrack
<1>4. ASSUME NEW th \in Threads,
             \/ CloneTable(th) \/ AssignProperty(th) \/ ReadProperty(th)
             \/ Request(th) \/ Acquire(th) \/ Store(th) \/ Return(th)
      PROVE  Mapped' /\ Tracked'
  BY <1>4, CloneTrack, AssignTrack, PropertyTrack, WaitTrack, StoreTrack, ReturnTrack
<1> QED BY <1>1, <1>2, <1>3, <1>4 DEF Next

----------------------------------------------------------------------------
(* The values, and the references into the table. *)

AnyValue == Values \cup {Nil}
\* What a thread keeps is made of numbers and of stored values, its reference
\* finds its entry in the table x, and the loops keep the values they go on with.
Keeps(at, r, x) ==
    /\ r.op \in ops \cup {"none"} /\ (r.op = "none" => r.idx = 0)
    /\ r.ref \in [key : Nat, stale : BOOLEAN]
    /\ r.ref.key = 0 \/ r.ref.stale \/ Has(x, r.ref.key)
    /\ r.val \in AnyValue /\ r.vec \in Seq(AnyValue)
    /\ r.op = "sort" => r.pos = 1
    /\ r.op = "insert" /\ at \in Writing => Len(r.vec) >= 1
    /\ r.op = "sort" /\ at = "step" => Len(r.vec) >= 1
    /\ r.op \in {"sort", "move"} /\ at \in Writing => r.idx >= r.pos
Typed ==
    /\ t \in Ops!Maps(Positive, AnyValue)
    /\ policy \in Policies /\ ops \in Mixes
    /\ undefined \in BOOLEAN /\ cleared \in BOOLEAN
    /\ \A th \in Threads : Keeps(pc[th], run[th], t)

\* The values are numbers.
LEMMA ValuesOrdered == AnyValue \subseteq Nat /\ Nil \in AnyValue
BY ValuesAssumption DEF AnyValue, Nil

\* The lemmas of LuaTableProofs about sort() are about this one.
LEMMA AlikeSorted == ASSUME NEW e PROVE Ops!Sorted(e) = Sorted(e)
BY DEF Ops!Sorted, Sorted, Ops!Cardinality, Cardinality

\* sort() leaves no value that it was not given.
LEMMA SortedTyped ==
    ASSUME NEW e \in Seq(AnyValue)
    PROVE  Sorted(e) \in Seq(AnyValue) /\ Len(Sorted(e)) = Len(e)
<1>0. DOMAIN e = 1..Len(e) /\ Len(e) \in Nat /\ \A j \in 1..Len(e) : e[j] \in AnyValue
  OBVIOUS
<1>1. e \in Seq(Nat)
  BY Fits, Ops!SeqWider, ValuesOrdered
<1>2. /\ Ops!Sorted(e) \in Seq(Nat) /\ Len(Ops!Sorted(e)) = Len(e)
      /\ \A i \in 1..Len(e) : \E j \in 1..Len(e) : Ops!Sorted(e)[i] = e[j]
  BY <1>1, Fits, Ops!SortedSorts
<1>3. PICK b : b = Sorted(e)
  OBVIOUS
<1>4. b \in Seq(Nat) /\ Len(b) = Len(e) /\ \A i \in 1..Len(e) : \E j \in 1..Len(e) : b[i] = e[j]
  BY <1>2, <1>3, AlikeSorted
<1>5. \A i \in 1..Len(b) : b[i] \in AnyValue
  BY <1>0, <1>4
<1>6. b \in Seq(AnyValue)
  <2>1. b \in [1..Len(b) -> AnyValue] /\ Len(b) \in Nat
    BY <1>4, <1>5
  <2> QED BY <2>1
<1> QED BY <1>3, <1>4, <1>6

\* get(), and what a reference finds, are values.
LEMMA ValueTyped ==
    ASSUME t \in Ops!Maps(Positive, AnyValue), NEW ref
    PROVE  Value(ref) \in AnyValue
<1>1. PICK k : k = ref.key
  OBVIOUS
<1>2. \A i \in 1..Len(t.entries) : t.entries[i].value \in AnyValue
  BY Fits, Ops!MapShape
<1>3. /\ Ops!Has(t, k) => Ops!Position(t, k) \in 1..Len(t.entries)
      /\ ~Ops!Has(t, k) => Ops!Get(t, k) = Ops!Nil
  BY Fits, Ops!Located
<1>4. Get(t, k) \in AnyValue
  <2>1. Ops!Has(t, k) => Ops!Get(t, k) = t.entries[Ops!Position(t, k)].value
    BY DEF Ops!Get
  <2>2. Ops!Nil = Nil
    BY DEF Ops!Nil, Nil
  <2>3. Ops!Get(t, k) \in AnyValue
    BY <1>2, <1>3, <2>1, <2>2, ValuesOrdered
  <2> QED BY <2>3, Alike
<1> QED BY <1>1, <1>4, ValuesOrdered DEF Value

\* set() leaves a map of values, and every key that was there.
LEMMA SetTyped ==
    ASSUME t \in Ops!Maps(Positive, AnyValue), NEW k \in Positive, NEW v \in AnyValue
    PROVE  Set(t, k, v) \in Ops!Maps(Positive, AnyValue) /\ \A j : Has(t, j) => Has(Set(t, k, v), j)
<1>1. Ops!Set(t, k, v) \in Ops!Maps(Positive, AnyValue) /\ Ops!Later(Ops!Set(t, k, v), t)
  BY Fits, Ops!SetSets
<1>2. PICK s : s = Set(t, k, v)
  OBVIOUS
<1>3. s \in Ops!Maps(Positive, AnyValue) /\ Ops!Later(s, t)
  BY <1>1, <1>2, Alike
<1>4. ASSUME NEW j, Has(t, j) PROVE Has(s, j)
  <2>1. PICK i \in DOMAIN t.entries : t.entries[i].key = j
    BY <1>4 DEF Has
  <2>2. DOMAIN t.entries = 1..Len(t.entries) /\ Len(t.entries) \in Nat
    BY Fits, Ops!MapShape
  <2>3. DOMAIN s.entries = 1..Len(s.entries) /\ Len(s.entries) \in Nat
    BY <1>3, Fits, Ops!MapShape
  <2>4. i \in DOMAIN s.entries /\ s.entries[i].key = j
    BY <1>3, <2>1, <2>2, <2>3 DEF Ops!Later
  <2> QED BY <2>4 DEF Has
<1> QED BY <1>2, <1>3, <1>4

\* A step of one thread that takes no key out of the table.
LEMMA Retyped ==
    ASSUME IInv, Typed, NEW th \in Threads, NEW next, NEW r, Moves(th, next, r),
           t' \in Ops!Maps(Positive, AnyValue), \A k : Has(t, k) => Has(t', k),
           UNCHANGED <<policy, ops>>, undefined' \in BOOLEAN, cleared' \in BOOLEAN,
           Keeps(next, r, t')
    PROVE  Typed'
<1>1. /\ pc'[th] = next /\ run'[th] = r
      /\ \A u \in Threads \ {th} : pc'[u] = pc[u] /\ run'[u] = run[u]
  BY DEF IInv, Running, Moves, Goto
<1>2. ASSUME NEW u \in Threads PROVE Keeps(pc'[u], run'[u], t')
  <2>1. CASE u = th
    BY <1>1, <2>1
  <2>2. CASE u # th
    <3>1. Keeps(pc[u], run[u], t)
      BY DEF Typed
    <3> QED BY <1>1, <2>2, <3>1 DEF Keeps
  <2> QED BY <2>1, <2>2
<1>3. ASSUME NEW u \in Threads PROVE Keeps(pc[u], run[u], t)'
  BY <1>2 DEF Keeps
<1> QED BY <1>3 DEF Typed

\* What is known of a thread whose values have their types.
LEMMA Holds ==
    ASSUME IInv, Mapped, Typed, NEW th \in Threads
    PROVE  /\ DOMAIN run[th] = Fields /\ run = [run EXCEPT ![th] = run[th]]
           /\ run[th].op \in Comes(pc[th])
           /\ run[th].op # "none" => run[th].pos \in Positive /\ run[th].idx \in Positive
           /\ Keeps(pc[th], run[th], t) /\ IsMap(t)
BY DEF IInv, Running, IsCall, Mapped, Typed

\* A step that only reads, of an operation that does not go on with what it reads.
LEMMA Only ==
    ASSUME IInv, Typed, NEW th \in Threads, NEW next, NEW r, Moves(th, next, r),
           UNCHANGED <<t, policy, ops, undefined, cleared>>,
           r.op = run[th].op, r.op # "none", r.val = run[th].val, r.pos = run[th].pos,
           r.vec \in Seq(AnyValue), r.ref \in [key : Nat, stale : BOOLEAN],
           r.ref.key = 0 \/ r.ref.stale \/ Has(t, r.ref.key),
           r.op \in {"insert", "sort", "move"} => next \notin Writing \cup {"step"}
    PROVE  Typed'
<1>1. Keeps(pc[th], run[th], t) /\ t \in Ops!Maps(Positive, AnyValue)
      /\ undefined \in BOOLEAN /\ cleared \in BOOLEAN
  BY DEF Typed
<1>2. Keeps(next, r, t)
  BY <1>1 DEF Keeps
<1> QED BY <1>1, <1>2, Retyped

\* A reference that get() and the iterators hand out.
LEMMA ReferTyped ==
    ASSUME IsMap(t), NEW k
    PROVE  Refer(k) \in [key : Nat, stale : BOOLEAN] /\ (Refer(k).key = 0 \/ Has(t, Refer(k).key))
<1>1. Has(t, k) => k \in Nat
  BY Shape DEF Positive
<1>2. Refer(k) = [key |-> IF Has(t, k) THEN k ELSE 0, stale |-> FALSE]
  BY DEF Refer
<1>3. CASE Has(t, k)
  BY <1>1, <1>2, <1>3
<1>4. CASE ~Has(t, k)
  BY <1>2, <1>4
<1> QED BY <1>3, <1>4

\* The steps that read keys, and the ones that only take the lock.
LEMMA ReadTyped ==
    ASSUME IInv, Mapped, Typed, NEW th \in Threads, UNCHANGED <<policy, ops>>,
           \/ LenLock(th) \/ LenHas(th) \/ Pairs(th) \/ PairsNext(th) \/ NextEntry(th)
           \/ HasKey(th) \/ GetKey(th) \/ Peek(th) \/ IpairsBegin(th)
           \/ CloneTable(th) \/ AssignProperty(th) \/ ReadProperty(th)
    PROVE  Typed'
<1> DEFINE q == run[th]
<1>1. /\ DOMAIN q = Fields /\ run = [run EXCEPT ![th] = q] /\ run[th] = q /\ q.op \in Comes(pc[th])
      /\ Keeps(pc[th], q, t) /\ IsMap(t)
  BY Holds
<1>2. q.vec \in Seq(AnyValue) /\ q.ref \in [key : Nat, stale : BOOLEAN]
      /\ (q.ref.key = 0 \/ q.ref.stale \/ Has(t, q.ref.key))
  BY <1>1 DEF Keeps
<1> HIDE DEF q
<1>3. CASE LenLock(th) \/ Pairs(th) \/ HasKey(th) \/ AssignProperty(th)
  <2>1. PICK next \in {"len_has", "pairs_next", "done", "get", "peek", "keyed"} : Goto(th, next)
    BY <1>1, <1>3 DEF LenLock, Pairs, HasKey, AssignProperty, At, Comes, Writing
  <2>2. UNCHANGED <<run, t, undefined, cleared>> /\ pc[th] \in {"len", "pairs", "has", "assign"}
    BY <1>3 DEF LenLock, Pairs, HasKey, AssignProperty, At, Reads
  <2>3. Moves(th, next, q) /\ q.op \notin {"none", "sort", "move"} /\ next \notin Writing \cup {"step"}
    BY <1>1, <2>1, <2>2 DEF Moves, Comes, Writing
  <2> QED BY <1>1, <1>2, <2>2, <2>3, Only
<1>4. CASE LenHas(th) \/ ReadProperty(th)
  <2>1. PICK i : run' = [run EXCEPT ![th].idx = i]
    BY <1>4 DEF LenHas, ReadProperty
  <2>2. UNCHANGED <<t, undefined, cleared>> /\ Goto(th, "lock") /\ q.op \in {"append", "index"}
    BY <1>1, <1>4 DEF LenHas, ReadProperty, At, Reads, Comes, Writing
  <2> DEFINE r == [q EXCEPT !.idx = i]
  <2>3. Moves(th, "lock", r) /\ r.op = q.op /\ r.val = q.val /\ r.pos = q.pos /\ r.vec = q.vec /\ r.ref = q.ref
    BY <1>1, <2>1, <2>2 DEF Moves, Fields
  <2> HIDE DEF r
  <2> QED BY <1>1, <1>2, <2>2, <2>3, Only
<1>5. CASE PairsNext(th) \/ NextEntry(th)
  <2>1. PICK n : Visit(th, n)
    BY <1>5 DEF PairsNext, NextEntry
  <2>2. UNCHANGED <<t, undefined, cleared>> /\ q.op = "foreach"
    BY <1>1, <1>5 DEF PairsNext, NextEntry, At, Reads, Comes, Writing
  <2>3. CASE n = 0
    <3>1. Moves(th, "done", q)
      BY <1>1, <2>1, <2>3 DEF Visit, Moves
    <3> QED BY <1>1, <1>2, <2>2, <3>1, Only
  <2>4. CASE n # 0
    <3>1. PICK ref : ref = Refer(t.entries[n].key)
      OBVIOUS
    <3> DEFINE r == [q EXCEPT !.idx = n, !.ref = ref]
    <3>2. /\ Moves(th, "copy", r) /\ r.op = q.op /\ r.val = q.val /\ r.pos = q.pos
          /\ r.vec = q.vec /\ r.ref = ref
      BY <1>1, <2>1, <2>4, <3>1 DEF Visit, Moves, Fields
    <3> HIDE DEF r
    <3> QED BY <1>1, <1>2, <2>2, <3>1, <3>2, ReferTyped, Only
  <2> QED BY <2>3, <2>4
<1>6. CASE GetKey(th) \/ Peek(th) \/ IpairsBegin(th)
  <2>1. PICK k : run' = [run EXCEPT ![th].ref = Refer(k)]
    BY <1>1, <1>6 DEF GetKey, Peek, IpairsBegin
  <2>2. PICK next \in {"copy", "lock", "done"} : Goto(th, next) /\ (next = "lock" => pc[th] = "peek")
    BY <1>6 DEF GetKey, Peek, IpairsBegin, At
  <2>3. UNCHANGED <<t, undefined, cleared>> /\ pc[th] \in {"get", "peek", "ipairs"}
    BY <1>6 DEF GetKey, Peek, IpairsBegin, At, Reads
  <2>4. q.op # "none" /\ (next = "lock" => q.op = "remove")
    BY <1>1, <2>2, <2>3 DEF Comes, Writing
  <2>5. PICK ref : ref = Refer(k)
    OBVIOUS
  <2> DEFINE r == [q EXCEPT !.ref = ref]
  <2>6. /\ Moves(th, next, r) /\ r.op = q.op /\ r.val = q.val /\ r.pos = q.pos
        /\ r.vec = q.vec /\ r.ref = ref
    BY <1>1, <2>1, <2>2, <2>5 DEF Moves, Fields
  <2> HIDE DEF r
  <2>7. r.op \in {"insert", "sort", "move"} => next \notin Writing \cup {"step"}
    BY <2>4, <2>6 DEF Writing
  <2> QED BY <1>1, <1>2, <2>3, <2>4, <2>5, <2>6, <2>7, ReferTyped, Only
<1>7. CASE CloneTable(th)
  <2>1. UNCHANGED <<t, undefined, cleared>> /\ Goto(th, "done") /\ q.op = "clone"
        /\ run' = [run EXCEPT ![th].vec = <<>>]
    BY <1>1, <1>7, CloneIsEmpty DEF CloneTable, At, Reads, Comes, Writing
  <2> DEFINE r == [q EXCEPT !.vec = <<>>]
  <2>2. Moves(th, "done", r) /\ r.op = q.op /\ r.val = q.val /\ r.pos = q.pos /\ r.vec = <<>> /\ r.ref = q.ref
    BY <1>1, <2>1 DEF Moves, Fields
  <2>3. <<>> \in Seq(AnyValue)
    OBVIOUS
  <2> HIDE DEF r
  <2> QED BY <1>1, <1>2, <2>1, <2>2, <2>3, Only
<1> QED BY <1>3, <1>4, <1>5, <1>6, <1>7

\* Waiting for the lock, getting it, and the return.
LEMMA WaitTyped ==
    ASSUME IInv, Mapped, Typed, NEW th \in Threads, UNCHANGED <<policy, ops>>,
           Request(th) \/ Acquire(th) \/ Return(th)
    PROVE  Typed'
<1> DEFINE q == run[th]
<1>1. /\ run = [run EXCEPT ![th] = q] /\ Keeps(pc[th], q, t)
      /\ t \in Ops!Maps(Positive, AnyValue) /\ undefined \in BOOLEAN /\ cleared \in BOOLEAN
  BY Holds DEF Typed
<1> HIDE DEF q
<1>2. UNCHANGED <<t, undefined, cleared>>
  BY DEF Request, Acquire, Return, Reads
<1>3. CASE Request(th) \/ Acquire(th)
  <2>1. PICK next \in {"queued", "store"} : Goto(th, next)
    BY <1>3 DEF Request, Acquire
  <2>2. Moves(th, next, q) /\ pc[th] \in Writing /\ next \in Writing
    BY <1>1, <1>3, <2>1 DEF Request, Acquire, At, Writing, Moves
  <2>3. Keeps(next, q, t)
    BY <1>1, <2>2 DEF Keeps, Writing
  <2> QED BY <1>1, <1>2, <2>2, <2>3, Retyped
<1>4. CASE Return(th)
  <2>1. Moves(th, "idle", Done)
    BY <1>4 DEF Return, Moves
  <2>2. Done = [op |-> "none", pos |-> 0, v |-> Nil, idx |-> 0, val |-> Nil, vec |-> <<>>,
                ref |-> [key |-> 0, stale |-> FALSE]]
    BY DEF Done, Call, NoRef
  <2>3. Keeps("idle", Done, t)
    <3>1. <<>> \in Seq(AnyValue)
      OBVIOUS
    <3> QED BY <2>2, <3>1, ValuesOrdered DEF Keeps
  <2> QED BY <1>1, <1>2, <2>1, <2>3, Retyped
<1> QED BY <1>3, <1>4

\* A call begins.
LEMMA StartTyped ==
    ASSUME IInv, Mapped, Typed, UNCHANGED <<policy, ops>>, NEW th \in Threads,
           NEW op \in ops, NEW pos \in Keys, NEW v \in AnyValue, Start(th, op, pos, v)
    PROVE  Typed'
<1>1. PICK e : e = (IF op = "move" THEN <<v, Nil>> ELSE <<>>)
  OBVIOUS
<1>2. e \in Seq(AnyValue)
  BY <1>1, ValuesOrdered
<1> DEFINE r == [op |-> op, pos |-> pos, v |-> v, idx |-> pos, val |-> v, vec |-> e,
                 ref |-> NoRef]
<1>3. (IF op = "move" THEN MoveCall(pos, v) ELSE Call(op, pos, v)) = r
  <2>1. Call(op, pos, v) = [op |-> op, pos |-> pos, v |-> v, idx |-> pos, val |-> v,
                            vec |-> <<>>, ref |-> NoRef]
    BY DEF Call
  <2>2. MoveCall(pos, v) = [op |-> "move", pos |-> pos, v |-> v, idx |-> pos, val |-> v,
                            vec |-> <<v, Nil>>, ref |-> NoRef]
    BY DEF MoveCall, Call
  <2>3. CASE op = "move"
    BY <1>1, <2>2, <2>3
  <2>4. CASE op # "move"
    BY <1>1, <2>1, <2>4
  <2> QED BY <2>3, <2>4
<1>4. Moves(th, Entry[op], r) /\ UNCHANGED <<t, undefined, cleared>>
  BY <1>3 DEF Start, Moves
<1>5. /\ op = "sort" => pos = 1 /\ Entry[op] = "ipairs"
      /\ op = "insert" => Entry[op] = "has"
      /\ op # "none"
  BY DEF Start, Entry
<1>6. pos \in Nat /\ pos >= pos
  BY KeysAssumption DEF Keys
<1>7. Keeps(Entry[op], r, t)
  BY <1>2, <1>5, <1>6 DEF Keeps, Writing, NoRef
<1> HIDE DEF r
<1> QED BY <1>4, <1>7, Retyped DEF Typed

\* A value is copied, or read by the callback.
LEMMA CopyTyped ==
    ASSUME IInv, Mapped, Typed, NEW th \in Threads, UNCHANGED <<policy, ops>>,
           Copy(th), ~Broken(run[th].ref)
    PROVE  Typed'
<1> DEFINE q == run[th]
<1>1. /\ DOMAIN q = Fields /\ run = [run EXCEPT ![th] = q] /\ run[th] = q /\ q.op \in Comes(pc[th])
      /\ Keeps(pc[th], q, t) /\ t \in Ops!Maps(Positive, AnyValue)
      /\ undefined \in BOOLEAN /\ cleared \in BOOLEAN
  BY Holds DEF Typed
<1> HIDE DEF q
<1>2. PICK w \in AnyValue : w = Value(q.ref)
  BY <1>1, ValueTyped
<1>3. /\ run' = [run EXCEPT ![th].vec = Append(@, Value(q.ref))] /\ UNCHANGED <<t, undefined, cleared>>
      /\ q.op \in {"insert", "remove", "get", "sort", "concat", "foreach"}
  BY <1>1 DEF Copy, At, Reads, Comes, Writing
<1>4. PICK next \in {"done", "lock", "peek", "next", "step"} :
        Goto(th, next) /\ (next = "lock" => q.op = "insert")
  BY <1>1, <1>3 DEF Copy
<1>5. PICK e : e = Append(q.vec, w)
  OBVIOUS
<1>6. e \in Seq(AnyValue) /\ Len(e) >= 1
  <2>1. PICK d \in Seq(AnyValue) : d = q.vec
    BY <1>1 DEF Keeps
  <2> QED BY <1>5, <2>1
<1> DEFINE r == [q EXCEPT !.vec = e]
<1>7. /\ Moves(th, next, r) /\ r.op = q.op /\ r.val = q.val /\ r.pos = q.pos /\ r.idx = q.idx
      /\ r.vec = e /\ r.ref = q.ref
  BY <1>1, <1>2, <1>3, <1>4, <1>5 DEF Moves, Fields
<1> HIDE DEF r
<1>8. Keeps(next, r, t)
  BY <1>1, <1>3, <1>4, <1>6, <1>7 DEF Keeps, Writing
<1> QED BY <1>1, <1>3, <1>7, <1>8, Retyped

\* ++ of the iterator; sort() goes on to write what it has sorted.
LEMMA StepTyped ==
    ASSUME IInv, Mapped, Typed, NEW th \in Threads, UNCHANGED <<policy, ops>>,
           Step(th), ~WritesMap
    PROVE  Typed'
<1> DEFINE q == run[th]
<1>1. /\ DOMAIN q = Fields /\ run = [run EXCEPT ![th] = q] /\ run[th] = q /\ q.op \in Comes(pc[th])
      /\ Keeps(pc[th], q, t) /\ IsMap(t) /\ t \in Ops!Maps(Positive, AnyValue)
      /\ undefined \in BOOLEAN /\ cleared \in BOOLEAN
  BY Holds DEF Typed
<1> HIDE DEF q
<1>2. pc[th] = "step" /\ UNCHANGED <<t, undefined, cleared>> /\ q.op \in {"sort", "concat"}
  BY <1>1 DEF Step, At, Reads, Comes, Writing
<1>3. CASE Has(t, q.idx + 1)
  <2>1. PICK ref : ref = Refer(q.idx + 1)
    OBVIOUS
  <2> DEFINE r == [q EXCEPT !.idx = q.idx + 1, !.ref = ref]
  <2>6. Goto(th, "copy") /\ run' = [run EXCEPT ![th].idx = @ + 1, ![th].ref = ref]
    BY <1>1, <1>3, <2>1 DEF Step
  <2>7. Moves(th, "copy", r)
    BY <1>1, <2>6 DEF Moves
  <2>2. /\ Moves(th, "copy", r) /\ r.op = q.op /\ r.val = q.val /\ r.pos = q.pos
        /\ r.vec = q.vec /\ r.ref = ref
    BY <1>1, <2>7 DEF Fields
  <2> HIDE DEF r
  <2>3. ref \in [key : Nat, stale : BOOLEAN] /\ (ref.key = 0 \/ Has(t, ref.key))
    BY <1>1, <2>1, ReferTyped
  <2>4. r.vec \in Seq(AnyValue)
    BY <1>1, <2>2 DEF Keeps
  <2>5. "copy" \notin Writing \cup {"step"}
    BY DEF Writing
  <2> QED BY <1>1, <1>2, <2>2, <2>3, <2>4, <2>5, Only
<1>4. CASE ~Has(t, q.idx + 1) /\ q.op = "concat"
  <2>1. Moves(th, "done", q)
    BY <1>1, <1>4 DEF Step, Moves
  <2>2. q.vec \in Seq(AnyValue) /\ q.ref \in [key : Nat, stale : BOOLEAN]
        /\ (q.ref.key = 0 \/ q.ref.stale \/ Has(t, q.ref.key))
    BY <1>1 DEF Keeps
  <2> QED BY <1>1, <1>2, <1>4, <2>1, <2>2, Only
<1>5. CASE ~Has(t, q.idx + 1) /\ q.op = "sort"
  <2>1. PICK b : b = Sorted(q.vec)
    OBVIOUS
  <2>2. b \in Seq(AnyValue) /\ Len(b) >= 1
    <3>1. PICK d \in Seq(AnyValue) : d = q.vec /\ Len(d) >= 1
      BY <1>1, <1>2, <1>5 DEF Keeps
    <3> QED BY <2>1, <3>1, SortedTyped
  <2>3. b[1] \in AnyValue
    BY <2>2
  <2> DEFINE r == [q EXCEPT !.idx = 1, !.val = b[1], !.vec = b, !.ref = NoRef]
  <2>7. /\ Goto(th, "lock")
        /\ run' = [run EXCEPT ![th].idx = 1, ![th].val = b[1], ![th].vec = b, ![th].ref = NoRef]
    BY <1>1, <1>2, <1>5, <2>1 DEF Step
  <2>4. Moves(th, "lock", r)
    BY <1>1, <2>7 DEF Moves
  <2>5. r.op = "sort" /\ r.pos = 1 /\ r.idx = 1 /\ r.val = b[1] /\ r.vec = b
        /\ r.ref = [key |-> 0, stale |-> FALSE]
    BY <1>1, <1>5 DEF Fields, Keeps, NoRef
  <2> HIDE DEF r
  <2>6. Keeps("lock", r, t)
    BY <1>1, <1>5, <2>2, <2>3, <2>5 DEF Keeps, Writing
  <2> QED BY <1>1, <1>2, <2>4, <2>6, Retyped
<1> QED BY <1>2, <1>3, <1>4, <1>5

\* What a locked section writes: a map of values, and clear() alone takes keys out.
LEMMA EffectTyped ==
    ASSUME IInv, Mapped, Typed, NEW th \in Threads, NEW q, q = run[th], q.op # "none"
    PROVE  /\ Effect(q) \in Ops!Maps(Positive, AnyValue)
           /\ ~(q.op = "clear" /\ t.frozen /\ t.entries # <<>>) =>
                 \A k : Has(t, k) => Has(Effect(q), k)
<1>1. /\ q.idx \in Positive /\ q.val \in AnyValue /\ IsMap(t) /\ t \in Ops!Maps(Positive, AnyValue)
  BY Holds DEF Typed, Keeps
<1>2. PICK e : e = t.entries
  OBVIOUS
<1>3. PICK f \in BOOLEAN : f = t.frozen
  BY <1>1, Shape
<1>4. t = [entries |-> e, frozen |-> f] /\ e \in Seq(Ops!Entries(Positive, AnyValue))
      /\ \A i, j \in 1..Len(e) : e[i].key = e[j].key => i = j
  BY <1>1, <1>2, <1>3, Fits, Ops!MapShape
<1>5. CASE q.op = "clear"
  <2>1. Effect(q) = Clear(t)
    BY <1>5 DEF Effect
  <2>2. CASE f
    <3>1. Effect(q) = [entries |-> <<>>, frozen |-> f]
      BY <1>3, <1>4, <2>1, <2>2 DEF Clear
    <3>2. PICK d : d = <<>>
      OBVIOUS
    <3>3. d \in Seq(Ops!Entries(Positive, AnyValue)) /\ \A i, j \in 1..Len(d) : d[i].key = d[j].key => i = j
      BY <3>2
    <3>4. [entries |-> d, frozen |-> f] \in Ops!Maps(Positive, AnyValue)
      BY <3>3, Fits, Ops!MapBuilt
    <3>5. e = <<>> => Effect(q) = t
      BY <1>4, <3>1
    <3> QED BY <1>2, <1>3, <1>5, <2>2, <3>1, <3>2, <3>4, <3>5
  <2>3. CASE ~f
    BY <1>1, <1>3, <2>1, <2>3 DEF Clear
  <2> QED BY <2>2, <2>3
<1>6. CASE q.op \in {"freeze", "unfreeze"}
  <2>1. PICK b \in BOOLEAN : b = (q.op = "freeze")
    OBVIOUS
  <2>2. Effect(q) = [t EXCEPT !.frozen = b]
    BY <1>6, <2>1 DEF Effect
  <2>3. PICK s : s = [entries |-> e, frozen |-> b]
    OBVIOUS
  <2>4. Effect(q) = s
    BY <1>4, <2>2, <2>3
  <2>5. s \in Ops!Maps(Positive, AnyValue)
    BY <1>4, <2>3, Fits, Ops!MapBuilt
  <2>6. \A k : Has(t, k) => Has(s, k)
    BY <1>2, <2>3 DEF Has
  <2> QED BY <2>4, <2>5, <2>6
<1>7. CASE q.op \notin {"clear", "freeze", "unfreeze"}
  <2>1. PICK w \in AnyValue : w = IF q.op = "remove" THEN Value(q.ref) ELSE q.val
    BY <1>1, ValueTyped
  <2>2. Effect(q) = Set(t, q.idx, w)
    <3>1. CASE q.op = "remove"
      BY <2>1, <3>1 DEF Effect
    <3>2. CASE q.op # "remove"
      BY <1>7, <2>1, <3>2 DEF Effect
    <3> QED BY <3>1, <3>2
  <2>3. PICK i \in Positive : i = q.idx
    BY <1>1
  <2> QED BY <1>1, <2>2, <2>3, SetTyped
<1> QED BY <1>5, <1>6, <1>7

\* clear() marks the references into the table: they are stale from then on.
LEMMA ClearTyped ==
    ASSUME IInv, Mapped, Typed, NEW th \in Threads, UNCHANGED <<policy, ops>>, Store(th), Clears(th)
    PROVE  Typed'
<1>1. /\ run[th].op = "clear" /\ t' = Effect(run[th]) /\ Goto(th, "done") /\ run' = Stale(run, th)
      /\ cleared' = TRUE /\ UNCHANGED undefined
  BY DEF Store, Clears
<1>2. /\ t' \in Ops!Maps(Positive, AnyValue) /\ undefined' \in BOOLEAN /\ cleared' \in BOOLEAN
      /\ pc \in [Threads -> Pcs]
  BY <1>1, EffectTyped DEF Typed, IInv, Running
<1>3. ASSUME NEW u \in Threads PROVE Keeps(pc'[u], run'[u], t')
  <2> DEFINE q == run[u]
             b == q.ref.stale \/ q.ref.key # 0
             r == [q EXCEPT !.ref.stale = b]
  <2>1. DOMAIN q = Fields /\ Keeps(pc[u], q, t)
    BY Holds
  <2>2. run'[u] = r
    BY <1>1 DEF Stale
  <2>3. PICK f : f = q.ref
    OBVIOUS
  <2>4. f \in [key : Nat, stale : BOOLEAN]
    BY <2>1, <2>3 DEF Keeps
  <2>5. r.ref = [f EXCEPT !.stale = b] /\ r.op = q.op /\ r.val = q.val /\ r.pos = q.pos
        /\ r.idx = q.idx /\ r.vec = q.vec
    BY <2>1, <2>3 DEF Fields
  <2>6. b \in BOOLEAN /\ (b <=> f.stale \/ f.key # 0)
    BY <2>3, <2>4
  <2> HIDE DEF b, r, q
  <2>7. r.ref \in [key : Nat, stale : BOOLEAN] /\ (r.ref.key = 0 \/ r.ref.stale)
    BY <2>4, <2>5, <2>6
  <2>8. pc'[u] = pc[u] \/ (pc'[u] = "done" /\ "done" \notin Writing \cup {"step"})
    BY <1>1, <1>2 DEF Goto, Writing
  <2>9. Keeps(pc'[u], r, t')
    BY <2>1, <2>5, <2>7, <2>8 DEF Keeps
  <2> QED BY <2>2, <2>9
<1>4. ASSUME NEW u \in Threads PROVE Keeps(pc[u], run[u], t)'
  BY <1>1, <1>3 DEF Keeps
<1> QED BY <1>2, <1>4 DEF Typed

\* set(), freeze() and unfreeze() write, and the loops go on with what they keep.
LEMMA StoreTyped ==
    ASSUME IInv, Mapped, Typed, NEW th \in Threads, UNCHANGED <<policy, ops>>,
           Store(th), ~Clears(th), ~(run[th].op = "remove" /\ run[th].ref.stale)
    PROVE  Typed'
<1> DEFINE q == run[th]
<1>1. /\ DOMAIN q = Fields /\ run = [run EXCEPT ![th] = q] /\ run[th] = q /\ q.op \in Comes(pc[th])
      /\ Keeps(pc[th], q, t) /\ undefined \in BOOLEAN /\ cleared \in BOOLEAN
      /\ q.op # "none" => q.pos \in Positive /\ q.idx \in Positive
  BY Holds DEF Typed
<1>2. /\ pc[th] = "store" /\ t' = Effect(q) /\ Resume(th) /\ undefined' = undefined
      /\ cleared' \in BOOLEAN
  BY <1>1 DEF Store, At
<1>3. q.op # "none" /\ q.pos \in Positive /\ q.idx \in Positive
  BY <1>1, <1>2 DEF Comes, Writing, Setting
<1>4. ~(q.op = "clear" /\ t.frozen /\ t.entries # <<>>)
  BY <1>2 DEF Clears
<1>5. t' \in Ops!Maps(Positive, AnyValue) /\ \A k : Has(t, k) => Has(t', k)
  BY <1>2, <1>3, <1>4, EffectTyped
<1> HIDE DEF q
<1>6. PICK d \in Seq(AnyValue) : d = q.vec
  BY <1>1 DEF Keeps
<1>7. PICK p \in Positive : p = q.pos
  BY <1>3
<1>8. PICK i \in Positive : i = q.idx
  BY <1>3
<1>9. CASE q.op = "insert"
  <2>1. Len(d) >= 1
    BY <1>1, <1>2, <1>6, <1>9 DEF Keeps, Writing
  <2>2. PICK w \in AnyValue : w = d[1]
    BY <1>6, <2>1
  <2> DEFINE r == [q EXCEPT !.idx = i + 1, !.val = w, !.vec = <<>>, !.ref = NoRef]
  <2>6. w = q.vec[1]
    BY <1>6, <2>2
  <2>8. /\ Goto(th, "has")
        /\ run' = [run EXCEPT ![th].idx = @ + 1, ![th].val = w, ![th].vec = <<>>, ![th].ref = NoRef]
    BY <1>1, <1>2, <1>9, <2>6 DEF Resume
  <2>7. Moves(th, "has", r)
    BY <1>1, <1>8, <2>8 DEF Moves
  <2>3. r.op = q.op /\ r.val = w /\ r.pos = q.pos /\ r.vec = <<>> /\ r.ref = NoRef
    BY <1>1 DEF Fields
  <2> HIDE DEF r
  <2>4. <<>> \in Seq(AnyValue)
    OBVIOUS
  <2>5. Keeps("has", r, t')
    BY <1>1, <1>9, <2>3, <2>4 DEF Keeps, Writing, NoRef
  <2> QED BY <1>1, <1>2, <1>5, <2>7, <2>5, Retyped
<1>10. CASE q.op = "remove"
  <2> DEFINE r == [q EXCEPT !.idx = i + 1, !.ref = NoRef]
  <2>8. Goto(th, "has") /\ run' = [run EXCEPT ![th].idx = @ + 1, ![th].ref = NoRef]
    BY <1>1, <1>2, <1>10 DEF Resume
  <2>7. Moves(th, "has", r)
    BY <1>1, <1>8, <2>8 DEF Moves
  <2>3. r.op = q.op /\ r.val = q.val /\ r.pos = q.pos /\ r.vec = q.vec /\ r.ref = NoRef
    BY <1>1 DEF Fields
  <2> HIDE DEF r
  <2>5. Keeps("has", r, t')
    BY <1>1, <1>10, <2>3 DEF Keeps, Writing, NoRef
  <2> QED BY <1>1, <1>2, <1>5, <2>7, <2>5, Retyped
<1>11. CASE q.op \in {"sort", "move"} /\ q.idx - q.pos + 1 < Len(q.vec)
  <2>1. i >= p
    BY <1>1, <1>2, <1>7, <1>8, <1>11 DEF Keeps, Writing
  <2>2. PICK n \in Nat : n = i - p + 2
    BY <2>1 DEF Positive
  <2>3. i - p + 1 < Len(d)
    BY <1>6, <1>7, <1>8, <1>11
  <2>4. n \in 1..Len(d)
    BY <2>1, <2>2, <2>3 DEF Positive
  <2>5. PICK w \in AnyValue : w = d[n]
    BY <1>6, <2>4
  <2>6. w = q.vec[q.idx - q.pos + 2]
    BY <1>6, <1>7, <1>8, <2>2, <2>5
  <2> DEFINE r == [q EXCEPT !.idx = i + 1, !.val = w]
  <2>12. Goto(th, "lock") /\ run' = [run EXCEPT ![th].idx = @ + 1, ![th].val = w]
    BY <1>1, <1>2, <1>11, <2>6 DEF Resume
  <2>7. Moves(th, "lock", r)
    BY <1>1, <1>8, <2>12 DEF Moves
  <2>8. /\ r.op = q.op /\ r.val = w /\ r.pos = p /\ r.idx = i + 1 /\ r.vec = q.vec /\ r.ref = q.ref
    BY <1>1, <1>7 DEF Fields
  <2> HIDE DEF r
  <2>9. r.idx >= r.pos
    BY <2>1, <2>8 DEF Positive
  <2>10. q.ref.key = 0 \/ q.ref.stale \/ Has(t', q.ref.key)
    BY <1>1, <1>5 DEF Keeps
  <2>11. Keeps("lock", r, t')
    BY <1>1, <1>7, <1>11, <2>8, <2>9, <2>10 DEF Keeps, Writing
  <2> QED BY <1>1, <1>2, <1>5, <2>7, <2>11, Retyped
<1>12. CASE ~(q.op \in {"insert", "remove"} \/ (q.op \in {"sort", "move"} /\ q.idx - q.pos + 1 < Len(q.vec)))
  <2>1. Moves(th, "done", q)
    BY <1>1, <1>2, <1>12 DEF Resume, Moves
  <2>2. q.ref.key = 0 \/ q.ref.stale \/ Has(t', q.ref.key)
    BY <1>1, <1>5 DEF Keeps
  <2>3. Keeps("done", q, t')
    BY <1>1, <1>3, <2>2 DEF Keeps, Writing
  <2> QED BY <1>1, <1>2, <1>5, <2>1, <2>3, Retyped
<1> QED BY <1>9, <1>10, <1>11, <1>12

\* At first every value is one that the constructor was given.
LEMMA InitTyped == Init => Typed
<1> SUFFICES ASSUME Init PROVE Typed
  OBVIOUS
<1>1. PICK n \in 0..MaxKey, frozen \in BOOLEAN : \E values \in [1..n -> Values] :
        t = [entries |-> [i \in 1..n |-> [key |-> i, value |-> values[i]]], frozen |-> frozen]
  BY DEF Init
<1>2. PICK values \in [1..n -> Values] :
        t = [entries |-> [i \in 1..n |-> [key |-> i, value |-> values[i]]], frozen |-> frozen]
  BY <1>1
<1>3. n \in Nat
  BY KeysAssumption
<1>4. PICK e : e = [i \in 1..n |-> [key |-> i, value |-> values[i]]]
  OBVIOUS
<1>5. e \in Seq(Ops!Entries(Positive, AnyValue)) /\ Len(e) = n
  <2>1. \A i \in 1..n : e[i] \in Ops!Entries(Positive, AnyValue)
    BY <1>4 DEF Ops!Entries, Positive, AnyValue
  <2> QED BY <1>3, <1>4, <2>1
<1>6. \A i, j \in 1..Len(e) : e[i].key = e[j].key => i = j
  BY <1>4, <1>5
<1>7. t \in Ops!Maps(Positive, AnyValue)
  <2>1. [entries |-> e, frozen |-> frozen] \in Ops!Maps(Positive, AnyValue)
    BY <1>5, <1>6, Fits, Ops!MapBuilt
  <2> QED BY <1>2, <1>4, <2>1
<1>8. Done = [op |-> "none", pos |-> 0, v |-> Nil, idx |-> 0, val |-> Nil, vec |-> <<>>,
              ref |-> [key |-> 0, stale |-> FALSE]]
  BY DEF Done, Call, NoRef
<1>9. Keeps("idle", Done, t)
  <2>1. <<>> \in Seq(AnyValue)
    OBVIOUS
  <2> QED BY <1>8, <2>1, ValuesOrdered DEF Keeps
<1>10. /\ policy \in Policies /\ ops \in Mixes /\ undefined = FALSE /\ cleared = FALSE
       /\ \A th \in Threads : pc[th] = "idle" /\ run[th] = Done
  BY DEF Init
<1> QED BY <1>7, <1>9, <1>10 DEF Typed

\* An undefined read ends the run, and changes nothing else.
LEMMA FailsTyped == ASSUME Typed, Fails, UNCHANGED <<policy, ops>> PROVE Typed'
BY DEF Typed, Keeps, Fails

\* Every value has its type, and every reference its entry, after every step.
LEMMA StepsTyped == ASSUME IInv, Mapped, Typed, [Next]_vars PROVE Typed'
<1>1. CASE UNCHANGED vars
  BY <1>1 DEF vars, Typed, Keeps
<1>2. ASSUME UNCHANGED <<policy, ops>>, NEW th \in Threads, NEW op \in ops, NEW pos \in Keys,
             NEW v \in Values \cup {Nil}, Start(th, op, pos, v)
      PROVE  Typed'
  BY <1>2, StartTyped DEF AnyValue
<1>3. ASSUME UNCHANGED <<policy, ops>>, NEW th \in Threads,
             \/ LenLock(th) \/ LenHas(th) \/ Pairs(th) \/ PairsNext(th) \/ NextEntry(th)
             \/ HasKey(th) \/ GetKey(th) \/ Peek(th) \/ IpairsBegin(th)
             \/ CloneTable(th) \/ AssignProperty(th) \/ ReadProperty(th)
      PROVE  Typed'
  BY <1>3, ReadTyped
<1>4. ASSUME UNCHANGED <<policy, ops>>, NEW th \in Threads, Copy(th) \/ Step(th) PROVE Typed'
  <2>1. Fails \/ (Copy(th) /\ ~Broken(run[th].ref)) \/ (Step(th) /\ ~WritesMap)
    BY <1>4 DEF Copy, Step
  <2> QED BY <1>4, <2>1, FailsTyped, CopyTyped, StepTyped
<1>5. ASSUME UNCHANGED <<policy, ops>>, NEW th \in Threads, Store(th) PROVE Typed'
  <2>1. CASE run[th].op = "remove" /\ run[th].ref.stale
    BY <1>5, <2>1, FailsTyped DEF Store
  <2>2. CASE ~(run[th].op = "remove" /\ run[th].ref.stale)
    BY <1>5, <2>2, ClearTyped, StoreTyped
  <2> QED BY <2>1, <2>2
<1>6. ASSUME UNCHANGED <<policy, ops>>, NEW th \in Threads, Request(th) \/ Acquire(th) \/ Return(th)
      PROVE  Typed'
  BY <1>6, WaitTyped
<1> QED BY <1>1, <1>2, <1>3, <1>4, <1>5, <1>6 DEF Next

\* The inductive invariant gives the types.
LEMMA TypesFollow == ASSUME IInv, Mapped, Typed PROVE TypeOK
<1>1. /\ \A i, j \in DOMAIN t.entries : t.entries[i].key = t.entries[j].key => i = j
      /\ \A i \in DOMAIN t.entries : t.entries[i] \in [key : Nat \ {0}, value : Values \cup {Nil}]
  <2>1. PICK e : e = t.entries
    OBVIOUS
  <2>2. /\ DOMAIN e = 1..Len(e) /\ \A i, j \in 1..Len(e) : e[i].key = e[j].key => i = j
        /\ \A i \in 1..Len(e) : e[i] \in Ops!Entries(Positive, AnyValue)
    BY <2>1, Fits, Ops!MapShape DEF Typed
  <2> QED BY <2>1, <2>2 DEF Ops!Entries, Positive, AnyValue
<1>2. /\ lock.writer \in Threads \cup {NoThread} /\ lock.readers \subseteq Threads
      /\ lock.writer # NoThread => lock.readers = {} /\ pc[lock.writer] = "store"
  BY DEF IInv, Locked
<1>3. policy \in Policies /\ ops \in Mixes /\ property \in Nat /\ pc \in [Threads -> Pcs]
      /\ undefined \in BOOLEAN /\ cleared \in BOOLEAN
  BY DEF Typed, Mapped, IInv, Running
<1>4. ASSUME NEW th \in Threads
      PROVE  /\ run[th].op \in ops \cup {"none"} /\ run[th].idx \in Nat
             /\ ToSet(run[th].vec) \cup {run[th].val} \subseteq Values \cup {Nil}
             /\ run[th].ref.key \in Nat
  <2>1. PICK q : q = run[th]
    OBVIOUS
  <2>2. Keeps(pc[th], q, t) /\ (q.op # "none" => q.idx \in Positive)
    BY <2>1, Holds
  <2>3. q.idx \in Nat
    BY <2>2 DEF Keeps, Positive
  <2>4. ToSet(q.vec) \subseteq AnyValue
    BY <2>2 DEF Keeps, ToSet
  <2> QED BY <2>1, <2>2, <2>3, <2>4 DEF Keeps, AnyValue
<1> QED BY <1>1, <1>2, <1>3, <1>4 DEF TypeOK

----------------------------------------------------------------------------
(* The theorems. *)

\* The inductive invariant holds in every state: who is in which section, which
\* operation is at which step, and, until clear(), what each thread aims at.
THEOREM Invariance == Spec => []IInv
<1>1. IInv /\ [Next]_vars => IInv'
  <2> SUFFICES ASSUME IInv, [Next]_vars PROVE IInv'
    OBVIOUS
  <2>1. CASE UNCHANGED vars
    BY <2>1 DEF vars, IInv, Locked, Running, Aimed, Size
  <2>2. ASSUME NEW th \in Threads, NEW op, NEW pos \in Keys, NEW v, Start(th, op, pos, v)
        PROVE  IInv'
    BY <2>2, StartStep
  <2> QED BY <2>1, <2>2, ReadStep, LockStep, CopyStep, StepStep, AssignStep, StoreStep DEF Next
<1> QED BY <1>1, InitHolds, PTL DEF Spec

\* The keys of a table are 1..n whatever the threads interleave, until clear()
\* empties it (set, insert, remove, sort and move of table.hpp 411-530).
THEOREM ArrayKept == Spec => []ArrayUntilCleared
<1>1. IInv => ArrayUntilCleared
  BY ArrLenIsSize DEF IInv, Aimed, ArrayUntilCleared
<1> QED BY <1>1, Invariance, PTL

\* All threads wait for one another only behind a nested shared lock and a writer
\* that goes first (arr_len and pairs, table.hpp 428-433 and 453-458).
THEOREM StuckNested == Spec => []StuckOnlyWhenNested
<1>1. IInv => StuckOnlyWhenNested
  <2> SUFFICES ASSUME IInv, \A th \in Threads : WaitsFor(th)
               PROVE  /\ policy = "writers"
                      /\ \E th, u \in Threads : pc[th] \in {"len_has", "pairs_next"} /\ pc[u] = "queued"
    BY DEF StuckOnlyWhenNested
  <2>1. Locked
    BY DEF IInv
  <2>2. lock.writer = NoThread
    <3>1. ASSUME NEW w \in Threads, lock.writer = w PROVE FALSE
      <4>1. pc[w] = "store" /\ WaitsFor(w)
        BY <2>1, <3>1 DEF Locked
      <4> QED BY <4>1 DEF WaitsFor
    <3> QED BY <2>1, <3>1 DEF Locked
  <2>3. PICK u \in Threads : pc[u] = "queued"
    <3>1. PICK th \in Threads : WaitsFor(th)
      BY ThreadsAssumption
    <3>2. CASE pc[th] = "queued"
      BY <3>2
    <3>3. CASE ~CanRead
      BY <2>2, <3>3 DEF CanRead
    <3> QED BY <3>1, <3>2, <3>3 DEF WaitsFor
  <2>4. PICK th \in Threads : pc[th] \in Nested
    <3>1. lock.readers # {}
      BY <2>2, <2>3 DEF WaitsFor, CanWrite
    <3> QED BY <2>1, <3>1 DEF Locked
  <2>5. policy = "writers"
    <3>1. ~CanRead
      BY <2>4 DEF WaitsFor, Nested
    <3> QED BY <2>2, <3>1 DEF CanRead
  <2> QED BY <2>3, <2>4, <2>5 DEF Nested
<1> QED BY <1>1, Invariance, PTL

\* The rest of the inductive invariant holds in every state: what the operations
\* that nobody disturbs have done, and what the values and the references are.
THEOREM Followed == Spec => [](Mapped /\ Tracked /\ Typed)
<1>1. Init => IInv /\ Mapped /\ Tracked /\ Typed
  BY InitHolds, InitTracks, InitTyped
<1>2. IInv /\ (Mapped /\ Tracked /\ Typed) /\ [Next]_vars => (Mapped /\ Tracked /\ Typed)'
  BY StepsTrack, StepsTyped
<1> QED BY <1>1, <1>2, Invariance, PTL DEF Spec

\* An operation that nobody disturbs does in its locked steps what the member
\* function of LuaTable does at once (table.hpp 411-530).
THEOREM UndisturbedAtomic == Spec => []UndisturbedIsAtomic
<1>1. Mapped /\ Tracked => UndisturbedIsAtomic
  BY DEF Tracked, Follows, UndisturbedIsAtomic
<1> QED BY <1>1, Followed, PTL

\* A map keeps one entry per key, the lock its rules, and every value, copied or
\* stored, is one that somebody stored (table.hpp 397-530).
THEOREM TypeCorrect == Spec => []TypeOK
BY Followed, Invariance, TypesFollow, PTL

\* A reference finds its entry, unless clear() has freed it: what get() and the
\* iterators hand out outlives the lock (table.hpp 411-416 and 435-477).
THEOREM ReferencesHold == Spec => []OnlyClearFrees
<1>1. Typed => OnlyClearFrees
  BY DEF Typed, Keeps, OnlyClearFrees
<1> QED BY <1>1, Followed, PTL
=============================================================================
