------------------------------ MODULE LuaTable ------------------------------
(***************************************************************************)
(* A few LuaTable objects (src/core/table.hpp) and the calls of one        *)
(* thread, in a build with DEV_ENABLED or without.  A foreach may be       *)
(* running, whose callback calls anything else.                            *)
(***************************************************************************)
EXTENDS LuaTableOps

CONSTANTS
    Tables,         \* LuaTable objects
    NoTable,
    Keys,           \* number keys 1..n, and NameKey
    Values,         \* values other than Nil, ordered as numbers
    Builds          \* of BOOLEAN: TRUE is a build with DEV_ENABLED

ASSUME TablesAssumption == NoTable \notin Tables
\* create() and insert_end() use the key 1.
ASSUME KeysAssumption == Keys \subseteq Nat /\ {NameKey, 1} \subseteq Keys /\ \A k \in Keys : 0..k \subseteq Keys
ASSUME ValuesAssumption == Values \subseteq Nat \ {Nil}
ASSUME BuildsAssumption == Builds \subseteq BOOLEAN

VARIABLES
    dev,            \* the build, chosen once
    tables,         \* tables[n]: [entries, frozen]
    it,             \* the running foreach
    status          \* "ok", "trap" or "hang"

vars == <<dev, tables, it, status>>

NoLoop == [on |-> NoTable, idx |-> 0, seen |-> <<>>, cleared |-> FALSE]

\* A map has one entry per key.
TypeOK ==
    /\ dev \in Builds
    /\ \A n \in Tables :
        /\ \A i \in DOMAIN tables[n].entries :
            tables[n].entries[i] \in [key : Keys, value : Values \cup {Nil}]
        /\ \A i, j \in DOMAIN tables[n].entries :
            tables[n].entries[i].key = tables[n].entries[j].key => i = j
        /\ tables[n].frozen \in BOOLEAN
    /\ it.on \in Tables \cup {NoTable}
    /\ status \in {"ok", "trap", "hang"}

Init ==
    /\ dev \in Builds
    /\ tables = [n \in Tables |-> Table]
    /\ it = NoLoop
    /\ status = "ok"

----------------------------------------------------------------------------
(* Actions. *)

\* A member function that leaves t in table n; writes: it calls set or clear.
Apply(n, t, writes) ==
    IF writes /\ dev /\ tables[n].frozen
    THEN status' = "trap" /\ UNCHANGED <<dev, tables, it>>
    ELSE tables' = [tables EXCEPT ![n] = t] /\ UNCHANGED <<dev, it, status>>

SetKey(n, k, v) == Apply(n, Set(tables[n], k, v), TRUE)
InsertAtKey(n, k, v) ==
    Apply(n, Insert(tables[n], k, v), TRUE)
InsertLast(n, v) == ArrLen(tables[n]) + 1 \in Keys /\ Apply(n, InsertEnd(tables[n], v), TRUE)
Remove1(n, k) == Apply(n, RemoveKey(tables[n], k), Has(tables[n], k))
SortArray(n) == Apply(n, Sort(tables[n]), ArrLen(tables[n]) > 0)
MoveRange(n, m, a, b, k) ==
    k + b - a \in Keys /\ Apply(n, Move(tables[n], tables[m], n = m, a, b, k), a <= b)
ClearTable(n) ==
    IF dev /\ tables[n].frozen THEN status' = "trap" /\ UNCHANGED <<dev, tables, it>>
    ELSE /\ tables' = [tables EXCEPT ![n] = Clear(@)]
         /\ it' = IF it.on = n /\ tables[n].frozen
                  THEN [it EXCEPT !.cleared = TRUE, !.seen = <<>>] ELSE it
         /\ UNCHANGED <<dev, status>>

Freeze(n, on) == Apply(n, [tables[n] EXCEPT !.frozen = on], FALSE)

\* A table object is constructed: as a copy, as a clone or by create.
Construct(n) ==
    /\ it.on # n /\ tables[n] = Table
    /\ \/ \E m \in Tables : Apply(n, tables[m], FALSE) \/ Apply(n, Clone(tables[m]), FALSE)
       \/ \E c \in 0..1, v \in Values : Apply(n, Create(c, v), FALSE)

\* foreach: the callback is called for the first entry, and then for the next.
\* A history of the keys visited is kept until the callback clears the table.
Visit(n, idx) ==
    it' = IF idx = 0 THEN NoLoop
          ELSE [it EXCEPT !.on = n, !.idx = idx,
                          !.seen = IF it.cleared THEN <<>>
                                   ELSE Append(@, tables[n].entries[idx].key)]
Foreach(n) == it.on = NoTable /\ Visit(n, First(tables[n])) /\ UNCHANGED <<dev, tables, status>>
Advance ==
    /\ it.on # NoTable
    /\ Visit(it.on, Next1(tables[it.on], it.idx))
    /\ UNCHANGED <<dev, tables, status>>

NextKey(n, k) ==
    status' = (IF NextHangs(tables[n], k) THEN "hang" ELSE status) /\ UNCHANGED <<dev, tables, it>>

Next ==
    \/ /\ status = "ok"
       /\ \/ \E n \in Tables :
               \/ \E k \in Keys, v \in Values : SetKey(n, k, v)
               \/ \E k \in Keys \ {NameKey}, v \in Values : InsertAtKey(n, k, v)
               \/ \E v \in Values : InsertLast(n, v)
               \/ \E k \in Keys \ {NameKey} : Remove1(n, k)
               \/ \E m \in Tables, a, b, k \in Keys \ {NameKey} : MoveRange(n, m, a, b, k)
               \/ SortArray(n) \/ ClearTable(n) \/ Construct(n) \/ Foreach(n)
               \/ \E on \in BOOLEAN : Freeze(n, on)
               \/ \E k \in Keys : NextKey(n, k)
          \/ Advance
    \/ status # "ok" /\ UNCHANGED vars

Spec == Init /\ [][Next]_vars

----------------------------------------------------------------------------
(* Properties. *)

\* The table a member function writes, were it frozen in a release build.
Writable(n) == [tables[n] EXCEPT !.frozen = TRUE]
Contents(t) == [k \in Keys |-> Get(t, k)]

\* foreach meets every entry exactly once and in order, also those that its
\* callback adds, unless the callback clears the table (table.hpp 181-189).
ForeachVisitsAll ==
    [][(it.on # NoTable /\ it'.on = NoTable /\ ~it.cleared) =>
        it.seen = KeysOf(tables[it.on])]_vars

\* sort() leaves the values of the array part in order, each as often as it
\* was there, and the rest of the table as it was (table.hpp 359-377).
SortIsSorting ==
    \A n \in Tables :
        LET t == Writable(n)
            s == Sort(t)
            a == Ipairs(t, 1)
            b == Ipairs(s, 1)
        IN  /\ Len(a) = Len(b) /\ \A i \in 1..(Len(b) - 1) : b[i] <= b[i + 1]
            /\ \A v \in ToSet(a) \cup ToSet(b) :
                Cardinality({i \in DOMAIN a : a[i] = v}) = Cardinality({i \in DOMAIN b : b[i] = v})
            /\ \A k \in Keys \ (1..Len(a)) : Get(s, k) = Get(t, k)

\* insert(pos, v) is table.insert of Luau without its last step: the value that
\* would get a new key is lost, so the array never grows past its last key, and
\* into a gap it pushes a NIL up the run that follows (table.hpp 314-325).
InsertLosesLast ==
    \A n \in Tables : \A pos \in Keys \ {NameKey}, v \in Values :
        LET t   == Writable(n)
            run == RunFrom(t, pos + 1) + 1
            s   == Insert(t, pos, v)
        IN  /\ ToSet(KeysOf(s)) = ToSet(KeysOf(t)) \cup {pos}
            /\ Contents(s) = [k \in Keys |->
                 IF k = pos THEN v
                 ELSE IF k \in (pos + 1)..(pos + run - 1) THEN Get(t, k - 1)
                 ELSE Get(t, k)]

\* remove(pos) undoes an insert(pos) up to the last value of the run, and never
\* removes a key (table.hpp 346-358).
RemoveUndoesInsert ==
    \A n \in Tables : \A pos \in Keys \ {NameKey}, v \in Values :
        LET t    == Writable(n)
            last == pos + RunFrom(t, pos + 1)
            s    == RemoveKey(Insert(t, pos, v), pos)
        IN  /\ Contents(s) = [Contents(t) EXCEPT ![last] = Nil]
            /\ ArrLen(s) = ArrLen(Insert(t, pos, v))

\* move copies the values that were there before, except within one table when
\* the target starts inside the source range: then the first ones are repeated.
MoveCopies ==
    \A n, m \in Tables : \A a, b, k \in Keys \ {NameKey} :
        LET t == Writable(n)
            s == Move(t, Writable(m), n = m, a, b, k)
        IN  \A i \in a..b : k + i - a \in Keys =>
                Get(s, k + i - a) =
                    IF n = m /\ a < k /\ k <= b
                    THEN Get(t, a + ((i - a) % (k - a))) ELSE Get(Writable(m), i)

\* concat(sep, k) fills its buffer, or leaves one separator per leading empty
\* string unwritten (table.hpp 213-271): on every table, where the value 1 stands
\* for the empty string and NIL for "nil".
Length(v) == CASE v = Nil -> 3 [] v = 1 -> 0 [] OTHER -> v
ConcatFillsBuffer ==
    \A n \in Tables : \A k \in Keys \ {NameKey}, sep \in 0..2 :
        LET values == Ipairs(tables[n], k)
            lens   == [i \in DOMAIN values |-> Length(values[i])]
            empty  == {i \in DOMAIN lens : \A j \in 1..i : lens[j] = 0}
        IN  Written(lens, sep) = Reserved(lens, sep)
                - sep * (IF empty = DOMAIN lens /\ lens # <<>> THEN Len(lens) - 1 ELSE Cardinality(empty))

\* The assertion of set() and clear(), table.hpp:151 and 202: a frozen table is
\* not written.
FrozenIsNotWritten ==
    [][\A n \in Tables : (tables[n].frozen /\ tables'[n].frozen)
        => tables'[n].entries = tables[n].entries]_vars
=============================================================================
