---------------------------- MODULE LuaTableOps ----------------------------
(***************************************************************************)
(* The member functions of LuaTable, src/core/table.hpp, as operators on   *)
(* a table: the entries of its Godot HashMap, in insertion order, and its  *)
(* frozen flag.  Every write goes through set() and clear(), whose guards  *)
(*     DEV_ASSERT(!frozen); ERR_FAIL_COND(!frozen);                        *)
(* let only a frozen table be written: the second returns when !frozen     *)
(* holds.  The trap of the first is left to the actions.                   *)
(*                                                                         *)
(* The operators named after a fault are the definitions next to them with *)
(* a plausible bug; nothing but a comparison with them uses them.          *)
(***************************************************************************)
EXTENDS Integers, SequencesExt, FiniteSetsExt

Nil == 0            \* a value, less than the others
NameKey == 0        \* a key that is not a number

Table == [entries |-> <<>>, frozen |-> FALSE]

----------------------------------------------------------------------------
(* Member functions that read. *)

KeysOf(t) == [i \in DOMAIN t.entries |-> t.entries[i].key]
Has(t, k) == \E i \in DOMAIN t.entries : t.entries[i].key = k
Position(t, k) == CHOOSE i \in DOMAIN t.entries : t.entries[i].key = k
Get(t, k) == IF Has(t, k) THEN t.entries[Position(t, k)].value ELSE Nil

\* The number of consecutive keys from k on.
RunFrom(t, k) == Max({n \in 0..Len(t.entries) : \A i \in k..(k + n - 1) : Has(t, i)})
ArrLen(t) == RunFrom(t, 1)
\* ipairs(k), as the values it meets: it ends at a missing key, not at a NIL.
Ipairs(t, k) == [i \in 1..RunFrom(t, k) |-> Get(t, k + i - 1)]

\* find: the key, or NIL.
Find(t, needle, k) ==
    LET hits == {i \in 1..RunFrom(t, k) : Ipairs(t, k)[i] = needle}
    IN  IF hits = {} THEN Nil ELSE k + Min(hits) - 1

\* next(): an iteration is the position of its entry, 0 when it is not valid.
First(t) == IF t.entries = <<>> THEN 0 ELSE 1
\* Fault: stops at the last entry instead of after it.
Next1Short(t, idx) == IF idx + 1 < Len(t.entries) THEN idx + 1 ELSE 0
\* next(iteration): walk idx steps from the beginning.
Next1(t, idx) == IF idx + 1 <= Len(t.entries) THEN idx + 1 ELSE 0
\* next(key): the loop never advances its iterator, so it ends only on an
\* empty table and on the first key, for which it returns that same entry.
NextHangs(t, k) == t.entries # <<>> /\ t.entries[1].key # k

\* concat: the bytes reserved and the bytes written for strings of the given
\* lengths.  The separator is left out while nothing has been written.
Reserved(lens, sep) ==
    LET sum[n \in 0..Len(lens)] == IF n = 0 THEN 0 ELSE sum[n - 1] + lens[n]
    IN  sum[Len(lens)] + IF lens = <<>> THEN 0 ELSE sep * (Len(lens) - 1)
\* Fault: a separator before every string.
WrittenAlways(lens, sep) ==
    LET offset[n \in 0..Len(lens)] == IF n = 0 THEN 0 ELSE offset[n - 1] + sep + lens[n]
    IN  offset[Len(lens)]
Written(lens, sep) ==
    LET offset[n \in 0..Len(lens)] ==
            IF n = 0 THEN 0
            ELSE offset[n - 1] + (IF offset[n - 1] = 0 THEN 0 ELSE sep) + lens[n]
    IN  offset[Len(lens)]

----------------------------------------------------------------------------
(* Member functions that write. *)

\* Fault: a known key is added again.
PutTwice(t, k, v) == [t EXCEPT !.entries = Append(@, [key |-> k, value |-> v])]
\* HashMap::insert: a known key keeps its place.
Put(t, k, v) ==
    IF Has(t, k) THEN [t EXCEPT !.entries[Position(t, k)].value = v]
    ELSE [t EXCEPT !.entries = Append(@, [key |-> k, value |-> v])]

\* set() in a build that goes on after it.
Set(t, k, v) == IF ~t.frozen THEN t ELSE Put(t, k, v)
Clear(t) == IF ~t.frozen THEN t ELSE [t EXCEPT !.entries = <<>>]

\* set() for the keys k, k+1, ... in turn.
SetFrom(t, k, values) ==
    LET s[n \in 0..Len(values)] == IF n = 0 THEN t ELSE Set(s[n - 1], k + n - 1, values[n])
    IN  s[Len(values)]

\* Fault: the value found at pos is not moved up.
InsertOverwrites(t, pos, v) == SetFrom(t, pos, <<v>>)
\* insert(pos, v): sets pos, and then moves each value up to the next key as long
\* as there is one; the last value of the run has nowhere to go.
Insert(t, pos, v) ==
    SetFrom(t, pos,
            <<v>> \o [i \in 1..RunFrom(t, pos + 1) |-> Get(t, pos + i - 1)])
InsertEnd(t, v) == Set(t, ArrLen(t) + 1, v)

\* Fault: the last key of the run keeps its value.
RemoveKeepsLast(t, pos) ==
    IF ~Has(t, pos) THEN t ELSE SetFrom(t, pos, Tail(Ipairs(t, pos)))
\* remove(pos): each value moves down; the last key of the run keeps a NIL.
RemoveKey(t, pos) ==
    IF ~Has(t, pos) THEN t ELSE SetFrom(t, pos, Append(Tail(Ipairs(t, pos)), Nil))

\* sort() of the Godot vector: position i gets the value that i values do not
\* follow, where equal values follow in the order of their positions.
Sorted(values) ==
    LET Rank(j) == Cardinality({i \in DOMAIN values :
                       values[i] < values[j] \/ (values[i] = values[j] /\ i <= j)})
    IN  [i \in DOMAIN values |-> values[CHOOSE j \in DOMAIN values : Rank(j) = i]]
\* Fault: the vector is written back from key 0.
SortFromZero(t) == SetFrom(t, 0, Sorted(Ipairs(t, 1)))
\* sort(): the values that ipairs meets, in order.
Sort(t) == SetFrom(t, 1, Sorted(Ipairs(t, 1)))

\* Fault: the range excludes b.
MoveHalfOpen(t, src, own, a, b, k) ==
    LET count == IF a <= b THEN b - a ELSE 0
        s[n \in 0..count] ==
            IF n = 0 THEN t
            ELSE Set(s[n - 1], k + n - 1, Get(IF own THEN s[n - 1] ELSE src, a + n - 1))
    IN  s[count]
\* move(src, a, b, k), with the table itself as src when own holds.
Move(t, src, own, a, b, k) ==
    LET count == IF a <= b THEN b - a + 1 ELSE 0
        s[n \in 0..count] ==
            IF n = 0 THEN t
            ELSE Set(s[n - 1], k + n - 1, Get(IF own THEN s[n - 1] ELSE src, a + n - 1))
    IN  s[count]

\* clone() and create() fill a fresh table with t[k] = v, that is with set().
Clone(t) ==
    LET s[n \in 0..Len(t.entries)] ==
            IF n = 0 THEN Table ELSE Set(s[n - 1], t.entries[n].key, t.entries[n].value)
    IN  s[Len(t.entries)]
Create(count, v) == SetFrom(Table, 1, [i \in 1..count |-> v])
=============================================================================
