----------------------------- MODULE SharedTable -----------------------------
(***************************************************************************)
(* SharedTable of src/core/table.hpp: a LuaTable used by several threads,  *)
(* with a std::shared_mutex.  has, get, set, arr_len, next, pairs, ipairs, *)
(* clear, freeze and unfreeze lock it; insert, remove, sort, find, concat  *)
(* and foreach are those of LuaTable, which call the former one by one.    *)
(*                                                                         *)
(*   - arr_len and pairs hold the lock shared while has and next lock it   *)
(*     once more.                                                          *)
(*   - get and the iterators hand out references, which are read after     *)
(*     the lock was given back.                                            *)
(*   - ipairs returns its iterator by value as a LuaIpairsIterator, so     *)
(*     that ++ is the one that does not lock.                              *)
(* Reading what another thread is writing, or an entry that clear() freed, *)
(* is undefined.  A read-only locked section waits for nothing inside, and *)
(* is one step; a section that writes is a step to take the lock and a     *)
(* step to write and to give it back.  The build has no DEV_ENABLED.       *)
(***************************************************************************)
EXTENDS LuaTableOps

CONSTANTS
    Threads,
    NoThread,
    MaxKey,         \* bound of the keys
    Values,         \* values other than Nil, ordered as numbers are
    Mixes,          \* the sets of operations the threads may call together
    Policies        \* who goes first, as std::shared_mutex leaves it open:
                    \* "readers", or "writers": a waiting writer stops new readers

ASSUME ThreadsAssumption == Threads # {} /\ NoThread \notin Threads
ASSUME KeysAssumption == MaxKey \in Nat
ASSUME ValuesAssumption == Values \subseteq Nat \ {Nil}

VARIABLES
    t,              \* the LuaTable
    lock,           \* [writer, readers]: readers between two of their steps
    policy, ops,    \* of Policies and of Mixes, chosen once
    property,       \* the key that operator[] keeps in the table
    pc,             \* what a thread executes next
    run,            \* run[th]: the operation it executes
    undefined,      \* an undefined read occurred
    before,         \* before[th]: t at the start of the operation, NoTable
                    \* once another thread has changed it
    cleared         \* clear() has emptied the table

vars == <<t, lock, policy, ops, property, pc, run, undefined, before, cleared>>

Keys == 1..MaxKey
NoTable == [entries |-> <<>>]

\* A reference to the value of a key; key 0 refers to NIL_OBJECT_REF.
Refer(k) == [key |-> IF Has(t, k) THEN k ELSE 0, stale |-> FALSE]
NoRef == [key |-> 0, stale |-> FALSE]

\* pos and v are the arguments; idx and val what is set next; vec what was read.
Call(op, pos, v) ==
    [op |-> op, pos |-> pos, v |-> v, idx |-> pos, val |-> v, vec |-> <<>>, ref |-> NoRef]
\* move() of a table with v at key 1, of the keys 1 and 2.
MoveCall(pos, v) == [Call("move", pos, v) EXCEPT !.vec = <<v, Nil>>]
Done == Call("none", 0, Nil)

Pcs == {"idle", "has", "get", "peek", "ipairs", "pairs", "pairs_next", "next", "len",
        "len_has", "copy", "step", "assign", "keyed", "clone", "lock", "queued", "store", "done"}

\* The map has one entry per key, the writer is alone inside its section, and all
\* values are values that the program stored.  Keys are any numbers: MaxKey is a
\* bound of the calls, not of the code.
TypeOK ==
    /\ \A i, j \in DOMAIN t.entries : t.entries[i].key = t.entries[j].key => i = j
    /\ \A i \in DOMAIN t.entries : t.entries[i] \in [key : Nat \ {0}, value : Values \cup {Nil}]
    /\ lock.writer \in Threads \cup {NoThread} /\ lock.readers \subseteq Threads
    /\ lock.writer # NoThread => lock.readers = {} /\ pc[lock.writer] = "store"
    /\ policy \in Policies /\ ops \in Mixes /\ property \in Nat
    /\ pc \in [Threads -> Pcs]
    /\ \A th \in Threads :
        /\ run[th].op \in ops \cup {"none"}
        /\ run[th].idx \in Nat
        /\ ToSet(run[th].vec) \cup {run[th].val} \subseteq Values \cup {Nil}
        /\ run[th].ref.key \in Nat
    /\ undefined \in BOOLEAN /\ cleared \in BOOLEAN

\* SharedTable(const LuaTable&), of an array.
Init ==
    /\ \E n \in 0..MaxKey, frozen \in BOOLEAN : \E values \in [1..n -> Values] :
        t = [entries |-> [i \in 1..n |-> [key |-> i, value |-> values[i]]], frozen |-> frozen]
    /\ lock = [writer |-> NoThread, readers |-> {}]
    /\ policy \in Policies /\ ops \in Mixes /\ property = 0
    /\ pc = [th \in Threads |-> "idle"]
    /\ run = [th \in Threads |-> Done]
    /\ undefined = FALSE
    /\ before = [th \in Threads |-> NoTable]
    /\ cleared = FALSE

----------------------------------------------------------------------------
(* The lock and the reads that it does not cover. *)

\* lock_shared() returns.
CanRead == lock.writer = NoThread /\ (policy = "writers" => \A u \in Threads : pc[u] # "queued")
\* Fault: a writer does not wait for the readers.
CanWriteAnyway == lock.writer = NoThread
\* lock() returns.
CanWrite == lock.writer = NoThread /\ lock.readers = {}

\* Thread u is about to free all entries, or to store at the key idx.
Clears(u) == pc[u] = "store" /\ t.frozen /\ run[u].op = "clear" /\ t.entries # <<>>
Stores(u) == pc[u] = "store" /\ t.frozen /\ run[u].op \notin {"clear", "freeze", "unfreeze"}
\* Somebody writes the value of a key, or links a new entry.
WritesValue(k) == \E u \in Threads : Clears(u) \/ (Stores(u) /\ run[u].idx = k)
WritesMap == \E u \in Threads : Clears(u) \/ (Stores(u) /\ ~Has(t, run[u].idx))

\* The value of a reference; Broken: it is undefined to read it.
Value(ref) == IF ref.key = 0 THEN Nil ELSE Get(t, ref.key)
Broken(ref) == ref.key # 0 /\ (ref.stale \/ WritesValue(ref.key))

At(th, op) == pc[th] = op /\ ~undefined
Goto(th, next) == pc' = [pc EXCEPT ![th] = next]
Fails == undefined' = TRUE /\ UNCHANGED <<t, property, lock, pc, run, before, cleared>>
\* A step that writes neither the table nor the lock.
Reads == UNCHANGED <<t, property, lock, undefined, before, cleared>>

----------------------------------------------------------------------------
(* The steps of the operations. *)

Entry == [set |-> "lock", clear |-> "lock", freeze |-> "lock", unfreeze |-> "lock",
          append |-> "len", insert |-> "has", remove |-> "has", get |-> "get",
          sort |-> "ipairs", concat |-> "ipairs", foreach |-> "pairs",
          index |-> "assign", move |-> "lock", clone |-> "clone"]

\* Bounds: a key is used when there is room for what the others may add.
Room == \A i \in DOMAIN t.entries : t.entries[i].key + Cardinality(Threads) <= MaxKey
Start(th, op, pos, v) ==
    /\ At(th, "idle")
    /\ \/ op \in {"set", "insert", "index"} /\ pos <= ArrLen(t) + 1 /\ (Has(t, pos) \/ Room)
       \/ op = "move" /\ Has(t, pos) /\ Has(t, pos + 1)
       \/ op \in {"get", "remove"} /\ v = Nil
       \/ op = "append" /\ pos = 1 /\ Room
       \/ op \in {"sort", "concat", "foreach", "clone", "clear", "freeze", "unfreeze"}
          /\ pos = 1 /\ v = Nil
    /\ v = Nil \/ op \in {"set", "index", "insert", "append", "move"}
    /\ run' = [run EXCEPT ![th] = IF op = "move" THEN MoveCall(pos, v) ELSE Call(op, pos, v)]
    /\ before' = [before EXCEPT ![th] = t]
    /\ Goto(th, Entry[op])
    /\ UNCHANGED <<t, property, lock, undefined, cleared>>

\* arr_len(): locks, and has() locks again for each key; one such step stands
\* for all, for the table cannot change in between.
LenLock(th) ==
    /\ At(th, "len") /\ CanRead
    /\ lock' = [lock EXCEPT !.readers = @ \cup {th}]
    /\ Goto(th, "len_has")
    /\ UNCHANGED <<t, property, run, undefined, before, cleared>>
\* Fault: arr_len() returns the first missing key.
LenHasNext(th) ==
    /\ At(th, "len_has") /\ CanRead
    /\ lock' = [lock EXCEPT !.readers = @ \ {th}]
    /\ run' = [run EXCEPT ![th].idx = ArrLen(t) + 2]
    /\ Goto(th, "lock")
    /\ UNCHANGED <<t, property, undefined, before, cleared>>
LenHas(th) ==
    /\ At(th, "len_has") /\ CanRead
    /\ lock' = [lock EXCEPT !.readers = @ \ {th}]
    /\ run' = [run EXCEPT ![th].idx = ArrLen(t) + 1]
    /\ Goto(th, "lock")
    /\ UNCHANGED <<t, property, undefined, before, cleared>>

\* pairs(): locks, and next() locks again.
Pairs(th) ==
    /\ At(th, "pairs") /\ CanRead
    /\ lock' = [lock EXCEPT !.readers = @ \cup {th}]
    /\ Goto(th, "pairs_next")
    /\ UNCHANGED <<t, property, run, undefined, before, cleared>>

\* An iteration at entry n, or the end.
Visit(th, n) ==
    IF n = 0 THEN Goto(th, "done") /\ UNCHANGED run
    ELSE Goto(th, "copy") /\ run' = [run EXCEPT ![th].idx = n,
                                                ![th].ref = Refer(t.entries[n].key)]
\* Fault: the outer lock is kept when the table is empty.
PairsNextKeeps(th) ==
    /\ At(th, "pairs_next") /\ CanRead
    /\ lock' = IF t.entries = <<>> THEN lock ELSE [lock EXCEPT !.readers = @ \ {th}]
    /\ Visit(th, First(t))
    /\ UNCHANGED <<t, property, undefined, before, cleared>>
PairsNext(th) ==
    /\ At(th, "pairs_next") /\ CanRead
    /\ lock' = [lock EXCEPT !.readers = @ \ {th}]
    /\ Visit(th, First(t))
    /\ UNCHANGED <<t, property, undefined, before, cleared>>
\* next(it).
NextEntry(th) == At(th, "next") /\ CanRead /\ Visit(th, Next1(t, run[th].idx)) /\ Reads

\* Fault: insert() stops at a missing key before it has set pos.
HasKeyOnly(th) ==
    /\ At(th, "has") /\ CanRead
    /\ LET r == run[th]
       IN  Goto(th, IF ~Has(t, r.idx) THEN "done"
                    ELSE IF r.op = "insert" \/ r.idx = r.pos THEN "get" ELSE "peek")
    /\ UNCHANGED run /\ Reads
\* The head of the loops of insert and remove: has(idx).
HasKey(th) ==
    /\ At(th, "has") /\ CanRead
    /\ LET r == run[th]
       IN  Goto(th, CASE r.op = "insert" -> IF Has(t, r.idx) \/ r.idx = r.pos THEN "get" ELSE "done"
                      [] r.op = "remove" -> IF ~Has(t, r.idx) THEN "done"
                                            ELSE IF r.idx = r.pos THEN "get" ELSE "peek")
    /\ UNCHANGED run /\ Reads
\* get(idx); remove also takes get(1 + idx), to be read inside set.
GetKey(th) ==
    /\ At(th, "get") /\ CanRead
    /\ run' = [run EXCEPT ![th].ref = Refer(run[th].idx)]
    /\ Goto(th, "copy") /\ Reads
Peek(th) ==
    /\ At(th, "peek") /\ CanRead
    /\ run' = [run EXCEPT ![th].ref = Refer(run[th].idx + 1)]
    /\ Goto(th, "lock") /\ Reads
\* Fault: ipairs() starts at key 1 even when there is none.
IpairsAlways(th) ==
    /\ At(th, "ipairs") /\ CanRead
    /\ run' = [run EXCEPT ![th].ref = Refer(1)]
    /\ Goto(th, "copy") /\ Reads
\* ipairs(); sort and concat are done when there is no key 1.
IpairsBegin(th) ==
    /\ At(th, "ipairs") /\ CanRead
    /\ run' = [run EXCEPT ![th].ref = Refer(1)]
    /\ Goto(th, IF Has(t, 1) THEN "copy" ELSE "done") /\ Reads

\* A value is copied, or read by the callback, through a reference.
Copy(th) ==
    /\ At(th, "copy")
    /\ IF Broken(run[th].ref) THEN Fails
       ELSE /\ run' = [run EXCEPT ![th].vec = Append(@, Value(run[th].ref))]
            /\ Goto(th, CASE run[th].op = "get" -> "done"
                          [] run[th].op = "insert" -> "lock"
                          [] run[th].op = "remove" -> "peek"
                          [] run[th].op = "foreach" -> "next"
                          [] run[th].op \in {"sort", "concat"} -> "step")
            /\ Reads

\* ++ of the iterator; after the last value, sort() starts to write.
Step(th) ==
    /\ At(th, "step")
    /\ IF WritesMap THEN Fails
       ELSE LET r == run[th]
            IN  /\ IF Has(t, r.idx + 1)
                   THEN /\ run' = [run EXCEPT ![th].idx = @ + 1, ![th].ref = Refer(r.idx + 1)]
                        /\ Goto(th, "copy")
                   ELSE IF r.op = "concat" THEN Goto(th, "done") /\ UNCHANGED run
                   ELSE /\ LET sorted == Sorted(r.vec)
                           IN  run' = [run EXCEPT ![th].idx = 1, ![th].val = sorted[1],
                                                  ![th].vec = sorted, ![th].ref = NoRef]
                        /\ Goto(th, "lock")
                /\ Reads

\* clone(): set() of the fresh table stores nothing, for it is not frozen.
CloneTable(th) ==
    /\ At(th, "clone") /\ CanRead
    /\ run' = [run EXCEPT ![th].vec = KeysOf(Clone(t))]
    /\ Goto(th, "done") /\ Reads

\* t[pos] = v: property.assign(pos), and then set() of the key found there.  (The
\* assignment of a LuaObject has no body in the repository: it is one step.)
AssignProperty(th) ==
    /\ At(th, "assign")
    /\ property' = run[th].pos
    /\ before' = [u \in Threads |-> IF u # th /\ pc[u] = "keyed" /\ run[u].pos # run[th].pos
                                    THEN NoTable ELSE before[u]]
    /\ Goto(th, "keyed")
    /\ UNCHANGED <<t, lock, run, undefined, cleared>>
ReadProperty(th) ==
    /\ At(th, "keyed")
    /\ run' = [run EXCEPT ![th].idx = property]
    /\ Goto(th, "lock") /\ Reads

\* lock(): the thread waits in line, and gets the lock.
Request(th) == At(th, "lock") /\ Goto(th, "queued") /\ UNCHANGED run /\ Reads
Acquire(th) ==
    /\ At(th, "queued") /\ CanWrite
    /\ lock' = [lock EXCEPT !.writer = th]
    /\ Goto(th, "store")
    /\ UNCHANGED <<t, property, run, undefined, before, cleared>>

\* Fault: remove() takes the last key of the run out instead of setting it to NIL.
EffectErases(r) ==
    CASE r.op = "clear" -> Clear(t)
      [] r.op \in {"freeze", "unfreeze"} -> [t EXCEPT !.frozen = r.op = "freeze"]
      [] r.op = "remove" ->
            IF t.frozen /\ r.ref.key = 0
            THEN [t EXCEPT !.entries = SelectSeq(@, LAMBDA e : e.key # r.idx)]
            ELSE Set(t, r.idx, Value(r.ref))
      [] OTHER -> Set(t, r.idx, r.val)
\* What set(), clear(), freeze() and unfreeze() write.
Effect(r) ==
    CASE r.op = "clear" -> Clear(t)
      [] r.op \in {"freeze", "unfreeze"} -> [t EXCEPT !.frozen = r.op = "freeze"]
      [] r.op = "remove" -> Set(t, r.idx, Value(r.ref))
      [] OTHER -> Set(t, r.idx, r.val)

\* What the operation does after its set(): the loops go on.
Resume(th) ==
    LET r == run[th]
    IN  CASE r.op = "insert" ->
                 /\ run' = [run EXCEPT ![th].idx = @ + 1, ![th].val = r.vec[1],
                                       ![th].vec = <<>>, ![th].ref = NoRef]
                 /\ Goto(th, "has")
          [] r.op = "remove" ->
                 /\ run' = [run EXCEPT ![th].idx = @ + 1, ![th].ref = NoRef]
                 /\ Goto(th, "has")
          [] r.op \in {"sort", "move"} /\ r.idx - r.pos + 1 < Len(r.vec) ->
                 /\ run' = [run EXCEPT ![th].idx = @ + 1, ![th].val = r.vec[r.idx - r.pos + 2]]
                 /\ Goto(th, "lock")
          [] OTHER -> Goto(th, "done") /\ UNCHANGED run

\* References into a cleared table are stale.
Stale(runs, th) ==
    [u \in Threads |-> [runs[u] EXCEPT !.ref.stale = @ \/ (Clears(th) /\ runs[u].ref.key # 0)]]
Store(th) ==
    /\ At(th, "store")
    /\ IF run[th].op = "remove" /\ run[th].ref.stale THEN Fails
       ELSE /\ t' = Effect(run[th])
            /\ lock' = [lock EXCEPT !.writer = NoThread]
            /\ IF Clears(th) THEN Goto(th, "done") /\ run' = Stale(run, th) ELSE Resume(th)
            /\ before' = [u \in Threads |-> IF u # th /\ t' # t THEN NoTable ELSE before[u]]
            /\ cleared' = (cleared \/ Clears(th))
            /\ UNCHANGED <<property, undefined>>

Return(th) ==
    /\ At(th, "done") /\ Goto(th, "idle")
    /\ run' = [run EXCEPT ![th] = Done]
    /\ before' = [before EXCEPT ![th] = NoTable]
    /\ UNCHANGED <<t, property, lock, undefined, cleared>>

Next ==
    /\ \E th \in Threads :
        \/ \E op \in ops, pos \in Keys, v \in Values \cup {Nil} : Start(th, op, pos, v)
        \/ LenLock(th) \/ LenHas(th) \/ Pairs(th) \/ PairsNext(th) \/ NextEntry(th)
        \/ HasKey(th) \/ GetKey(th) \/ Peek(th) \/ IpairsBegin(th) \/ Copy(th) \/ Step(th)
        \/ CloneTable(th) \/ AssignProperty(th) \/ ReadProperty(th)
        \/ Request(th) \/ Acquire(th) \/ Store(th) \/ Return(th)
    /\ UNCHANGED <<policy, ops>>

Spec == Init /\ [][Next]_vars

----------------------------------------------------------------------------
(* Properties. *)

\* What the operator of LuaTableOps leaves of table s, and what it reads there.
Result(r, s) ==
    CASE r.op \in {"set", "index"} -> Set(s, r.pos, r.v)
      [] r.op = "append" -> InsertEnd(s, r.v)
      [] r.op = "insert" -> Insert(s, r.pos, r.v)
      [] r.op = "remove" -> RemoveKey(s, r.pos)
      [] r.op = "sort" -> Sort(s)
      [] r.op = "move" -> SetFrom(s, r.pos, <<r.v, Nil>>)
      [] r.op = "clear" -> Clear(s)
      [] r.op \in {"freeze", "unfreeze"} -> [s EXCEPT !.frozen = r.op = "freeze"]
      [] OTHER -> s
Observed(r, s) ==
    CASE r.op = "get" -> <<Get(s, r.pos)>>
      [] r.op = "remove" -> IF Has(s, r.pos) THEN <<Get(s, r.pos)>> ELSE <<>>
      [] r.op = "concat" -> Ipairs(s, 1)
      [] r.op = "clone" -> <<>>
      [] r.op = "foreach" -> [i \in DOMAIN s.entries |-> s.entries[i].value]
      [] OTHER -> r.vec

\* An operation in which no other thread changed the table did, with all its
\* locked steps, exactly what the member function of LuaTable does at once.
UndisturbedIsAtomic ==
    \A th \in Threads : pc[th] = "done" /\ before[th] # NoTable =>
        t = Result(run[th], before[th]) /\ run[th].vec = Observed(run[th], before[th])

\* An array stays an array (its keys are 1..n) whatever the threads interleave,
\* as long as clear() does not empty it between the two halves of an insert.
ArrayUntilCleared == ~cleared => ArrLen(t) = Len(t.entries)

\* A reference finds its entry for as long as somebody may read it: only clear()
\* frees entries, and no other call takes a key out (get, the iterators and
\* pairs hand out references, table.hpp 411-416 and 435-470).
OnlyClearFrees ==
    \A th \in Threads :
        LET ref == run[th].ref
        IN  ref.key = 0 \/ ref.stale \/ Has(t, ref.key)

\* All threads wait for one another only when one of them holds the lock shared
\* and wants it shared once more, behind a waiting writer that goes first
\* (arr_len and pairs, table.hpp 428-433 and 453-458).
WaitsFor(th) ==
    \/ pc[th] \in {"len", "len_has", "pairs", "pairs_next", "next", "has", "get", "peek", "ipairs"}
       /\ ~CanRead
    \/ pc[th] = "queued" /\ ~CanWrite
StuckOnlyWhenNested ==
    (\A th \in Threads : WaitsFor(th)) =>
        /\ policy = "writers"
        /\ \E th, u \in Threads : pc[th] \in {"len_has", "pairs_next"} /\ pc[u] = "queued"
=============================================================================
