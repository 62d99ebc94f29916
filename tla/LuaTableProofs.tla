-------------------------- MODULE LuaTableProofs --------------------------
(***************************************************************************)
(* Theorems about LuaTable for any tables, keys and values: what its       *)
(* member functions leave in any table that calls can build, and what a    *)
(* foreach meets.  Every loop of set() is a function on 0..n in the model; *)
(* Counting is the induction over its steps, by the least number at which  *)
(* a statement would fail.  Row says what such a loop has written so far.  *)
(***************************************************************************)
EXTENDS LuaTable, FiniteSetTheorems, TLAPS

----------------------------------------------------------------------------
(* Counting. *)

\* A set of naturals has a least element.
LEMMA LeastNatural ==
    ASSUME NEW T \in SUBSET Nat, T # {}
    PROVE  \E m \in T : \A k \in T : m <= k
<1> DEFINE F == {0..k : k \in T}
<1>1. F \subseteq FiniteSubsetsOf(Nat) /\ F # {}
  <2>1. \A k \in T : 0..k \in SUBSET Nat /\ IsFiniteSet(0..k)
    BY FS_Interval
  <2> QED BY <2>1 DEF FiniteSubsetsOf
<1>2. IsWellFoundedOn(StrictSubsetOrdering(Nat), FiniteSubsetsOf(Nat))
  BY FS_StrictSubsetOrderingWellFounded
<1> HIDE DEF F
<1>3. PICK x \in F : \A y \in F : ~ (<<y, x>> \in StrictSubsetOrdering(Nat))
  BY <1>1, <1>2, WFMin
<1>4. PICK m \in T : x = 0..m
  BY <1>3 DEF F
<1>5. ASSUME NEW k \in T, k < m PROVE FALSE
  <2>1. 0..k \in F /\ 0..k \subseteq Nat /\ x \subseteq Nat
    BY <1>4 DEF F
  <2>2. 0..k \subseteq x /\ m \in x /\ m \notin 0..k
    BY <1>4, <1>5
  <2>3. <<0..k, x>> \in StrictSubsetOrdering(Nat)
    BY <2>1, <2>2 DEF StrictSubsetOrdering
  <2> QED BY <1>3, <2>1, <2>3
<1> QED BY <1>5

\* g takes the steps F[1], ..., F[N] one after the other from s.
Takes(g, N, s, F) == g[0] = s /\ \A n \in 1..N : g[n] = F[n][g[n - 1]]

\* There is always such a g.
LEMMA Iterated ==
    ASSUME NEW S, NEW N \in Nat, NEW s \in S, NEW F \in [1..N -> [S -> S]]
    PROVE  \E g \in [0..N -> S] : Takes(g, N, s, F)
<1> DEFINE Does(g, m) == \A n \in 0..m : g[n] = IF n = 0 THEN s ELSE F[n][g[n - 1]]
           T == {m \in 0..N : ~\E g \in [0..m -> S] : Does(g, m)}
<1>1. ASSUME T # {} PROVE FALSE
  <2>1. T \in SUBSET Nat
    OBVIOUS
  <2>2. PICK m \in T : \A k \in T : m <= k
    <3> HIDE DEF T
    <3> QED BY <1>1, <2>1, LeastNatural
  <2>3. CASE m = 0
    <3>1. [n \in 0..0 |-> s] \in [0..m -> S] /\ Does([n \in 0..0 |-> s], m)
      BY <2>3
    <3> QED BY <3>1
  <2>4. CASE m # 0
    <3>1. m \in 1..N /\ m - 1 \in 0..N /\ m - 1 \notin T
      <4>1. m \in 1..N
        BY <2>2, <2>4
      <4>2. m - 1 \in 0..N /\ ~(m <= m - 1)
        BY <4>1
      <4> HIDE DEF T
      <4> QED BY <2>2, <4>1, <4>2
    <3>2. PICK g \in [0..(m - 1) -> S] : Does(g, m - 1)
      BY <3>1
    <3> DEFINE h == [n \in 0..m |-> IF n = m THEN F[m][g[m - 1]] ELSE g[n]]
    <3>3. h \in [0..m -> S]
      BY <3>1
    <3>4. Does(h, m)
      <4> SUFFICES ASSUME NEW n \in 0..m PROVE h[n] = IF n = 0 THEN s ELSE F[n][h[n - 1]]
        OBVIOUS
      <4>1. CASE n = m
        BY <3>1, <4>1
      <4>2. CASE n # m
        <5>1. n \in 0..(m - 1) /\ (n # 0 => n - 1 \in 0..(m - 1))
          BY <3>1, <4>2
        <5>2. h[n] = g[n] /\ (n # 0 => h[n - 1] = g[n - 1])
          BY <3>1, <4>2, <5>1
        <5> QED BY <3>2, <5>1, <5>2
      <4> QED BY <4>1, <4>2
    <3> QED BY <3>3, <3>4
  <2> QED BY <2>3, <2>4
<1>2. N \notin T
  BY <1>1
<1>3. PICK g \in [0..N -> S] : Does(g, N)
  BY <1>2
<1>4. Takes(g, N, s, F)
  BY <1>3 DEF Takes
<1> QED BY <1>4

\* What holds of 0, and of a number when it holds of the one before, holds of all.
LEMMA Counting ==
    ASSUME NEW N \in Nat, NEW T \in SUBSET (0..N), 0 \in T, \A n \in 1..N : n - 1 \in T => n \in T
    PROVE  T = 0..N
<1> SUFFICES ASSUME T # 0..N PROVE FALSE
  OBVIOUS
<1> DEFINE B == (0..N) \ T
<1>1. B \in SUBSET Nat /\ B # {}
  <2>1. \E x \in 0..N : x \notin T
    OBVIOUS
  <2> QED BY <2>1
<1>2. PICK m \in B : \A k \in B : m <= k
  <2> HIDE DEF B
  <2> QED BY <1>1, LeastNatural
<1>3. m \in 1..N /\ m - 1 \in 0..N /\ m - 1 \notin B
  BY <1>2
<1> QED BY <1>3

----------------------------------------------------------------------------
(* Loops. *)

\* The tables that a loop of set() goes through.
SetLoop(g, t, k, values, S) ==
    /\ g[0] = t /\ SetFrom(t, k, values) = g[Len(values)]
    /\ \A n \in 0..Len(values) : g[n] \in S
    /\ \A n \in 1..Len(values) : g[n] = Set(g[n - 1], k + n - 1, values[n])

LEMMA SetFromLoops ==
    ASSUME NEW S, NEW t \in S, NEW k, NEW values, Len(values) \in Nat,
           \A n \in 1..Len(values), s \in S : Set(s, k + n - 1, values[n]) \in S
    PROVE  \E g : SetLoop(g, t, k, values, S)
<1> DEFINE N == Len(values)
           Is(g) == g = [n \in 0..N |-> IF n = 0 THEN t
                                       ELSE Set(g[n - 1], k + n - 1, values[n])]
           s == CHOOSE g : Is(g)
           F == [n \in 1..N |-> [x \in S |-> Set(x, k + n - 1, values[n])]]
<1>1. N \in Nat
  OBVIOUS
<1>2. F \in [1..N -> [S -> S]]
  OBVIOUS
<1>3. PICK g \in [0..N -> S] : Takes(g, N, t, F)
  <2> HIDE DEF F, N
  <2> QED BY <1>1, <1>2, Iterated
<1>4. g[0] = t /\ \A n \in 1..N : g[n] = F[n][g[n - 1]]
  <2> HIDE DEF F, N
  <2> QED BY <1>3 DEF Takes
<1>5. \A n \in 1..N : n - 1 \in 0..N /\ n \in 0..N
  BY <1>1
<1>6. \A n \in 1..N : g[n] = Set(g[n - 1], k + n - 1, values[n])
  <2> SUFFICES ASSUME NEW n \in 1..N PROVE g[n] = Set(g[n - 1], k + n - 1, values[n])
    OBVIOUS
  <2>1. F[n][g[n - 1]] = Set(g[n - 1], k + n - 1, values[n])
    BY <1>3, <1>5
  <2> HIDE DEF F
  <2> QED BY <1>4, <2>1
<1>7. Is(g)
  <2>1. g = [n \in 0..N |-> g[n]] /\ \A n \in 0..N : n = 0 \/ n \in 1..N
    BY <1>1
  <2> HIDE DEF F, N
  <2> QED BY <1>4, <1>6, <2>1
<1>8. Is(s)
  <2> HIDE DEF Is
  <2> QED BY <1>7
<1>9. s[0] = t /\ \A n \in 1..N : s[n] = Set(s[n - 1], k + n - 1, values[n])
  <2> HIDE DEF s
  <2>1. s = [n \in 0..N |-> IF n = 0 THEN t
                           ELSE Set(s[n - 1], k + n - 1, values[n])]
    BY <1>8
  <2>2. 0 \in 0..N /\ \A n \in 1..N : n # 0
    BY <1>1
  <2> HIDE DEF N
  <2> QED BY <1>5, <2>1, <2>2
<1>10. {n \in 0..N : s[n] \in S} = 0..N
  <2> HIDE DEF s
  <2> DEFINE T == {n \in 0..N : s[n] \in S}
  <2>1. T \in SUBSET (0..N) /\ 0 \in T
    BY <1>1, <1>9
  <2>2. \A n \in 1..N : n - 1 \in T => n \in T
    BY <1>5, <1>9
  <2> HIDE DEF T, N
  <2>3. T = 0..N
    BY <1>1, <2>1, <2>2, Counting
  <2> QED BY <2>3 DEF T
<1>11. SetFrom(t, k, values) = s[N]
  BY DEF SetFrom
<1> HIDE DEF s
<1> QED BY <1>9, <1>10, <1>11 DEF SetLoop

\* move() takes this many steps.
Steps(a, b) == IF a <= b THEN b - a + 1 ELSE 0
\* The tables that move() goes through.
MoveLoop(g, t, src, own, a, b, k, S) ==
    /\ g[0] = t /\ Move(t, src, own, a, b, k) = g[Steps(a, b)]
    /\ \A n \in 0..Steps(a, b) : g[n] \in S
    /\ \A n \in 1..Steps(a, b) : g[n] = Set(g[n - 1], k + n - 1, Get(IF own THEN g[n - 1] ELSE src, a + n - 1))

LEMMA MoveLoops ==
    ASSUME NEW S, NEW t \in S, NEW src, NEW own, NEW a \in Int, NEW b \in Int, NEW k, Steps(a, b) \in Nat,
           \A n \in 1..Steps(a, b), s \in S : Set(s, k + n - 1, Get(IF own THEN s ELSE src, a + n - 1)) \in S
    PROVE  \E g : MoveLoop(g, t, src, own, a, b, k, S)
<1> DEFINE N == Steps(a, b)
           Is(g) == g = [n \in 0..N |-> IF n = 0 THEN t
                                       ELSE Set(g[n - 1], k + n - 1, Get(IF own THEN g[n - 1] ELSE src, a + n - 1))]
           s == CHOOSE g : Is(g)
           F == [n \in 1..N |-> [x \in S |-> Set(x, k + n - 1, Get(IF own THEN x ELSE src, a + n - 1))]]
<1>1. N \in Nat
  OBVIOUS
<1>2. F \in [1..N -> [S -> S]]
  OBVIOUS
<1>3. PICK g \in [0..N -> S] : Takes(g, N, t, F)
  <2> HIDE DEF F, N
  <2> QED BY <1>1, <1>2, Iterated
<1>4. g[0] = t /\ \A n \in 1..N : g[n] = F[n][g[n - 1]]
  <2> HIDE DEF F, N
  <2> QED BY <1>3 DEF Takes
<1>5. \A n \in 1..N : n - 1 \in 0..N /\ n \in 0..N
  BY <1>1
<1>6. \A n \in 1..N : g[n] = Set(g[n - 1], k + n - 1, Get(IF own THEN g[n - 1] ELSE src, a + n - 1))
  <2> SUFFICES ASSUME NEW n \in 1..N PROVE g[n] = Set(g[n - 1], k + n - 1, Get(IF own THEN g[n - 1] ELSE src, a + n - 1))
    OBVIOUS
  <2>1. F[n][g[n - 1]] = Set(g[n - 1], k + n - 1, Get(IF own THEN g[n - 1] ELSE src, a + n - 1))
    BY <1>3, <1>5
  <2> HIDE DEF F
  <2> QED BY <1>4, <2>1
<1>7. Is(g)
  <2>1. g = [n \in 0..N |-> g[n]] /\ \A n \in 0..N : n = 0 \/ n \in 1..N
    BY <1>1
  <2> HIDE DEF F, N
  <2> QED BY <1>4, <1>6, <2>1
<1>8. Is(s)
  <2> HIDE DEF Is
  <2> QED BY <1>7
<1>9. s[0] = t /\ \A n \in 1..N : s[n] = Set(s[n - 1], k + n - 1, Get(IF own THEN s[n - 1] ELSE src, a + n - 1))
  <2> HIDE DEF s
  <2>1. s = [n \in 0..N |-> IF n = 0 THEN t
                           ELSE Set(s[n - 1], k + n - 1, Get(IF own THEN s[n - 1] ELSE src, a + n - 1))]
    BY <1>8
  <2>2. 0 \in 0..N /\ \A n \in 1..N : n # 0
    BY <1>1
  <2> HIDE DEF N
  <2> QED BY <1>5, <2>1, <2>2
<1>10. {n \in 0..N : s[n] \in S} = 0..N
  <2> HIDE DEF s
  <2> DEFINE T == {n \in 0..N : s[n] \in S}
  <2>1. T \in SUBSET (0..N) /\ 0 \in T
    BY <1>1, <1>9
  <2>2. \A n \in 1..N : n - 1 \in T => n \in T
    BY <1>5, <1>9
  <2> HIDE DEF T, N
  <2>3. T = 0..N
    BY <1>1, <2>1, <2>2, Counting
  <2> QED BY <2>3 DEF T
<1>11. Move(t, src, own, a, b, k) = s[N]
  BY DEF Move, Steps
<1> HIDE DEF s
<1> QED BY <1>9, <1>10, <1>11 DEF MoveLoop

\* The tables that clone() goes through.
CloneLoop(g, t, S) ==
    /\ g[0] = Table /\ Clone(t) = g[Len(t.entries)]
    /\ \A n \in 0..Len(t.entries) : g[n] \in S
    /\ \A n \in 1..Len(t.entries) : g[n] = Set(g[n - 1], t.entries[n].key, t.entries[n].value)

LEMMA CloneLoops ==
    ASSUME NEW S, Table \in S, NEW t, Len(t.entries) \in Nat,
           \A n \in 1..Len(t.entries), s \in S : Set(s, t.entries[n].key, t.entries[n].value) \in S
    PROVE  \E g : CloneLoop(g, t, S)
<1> DEFINE N == Len(t.entries)
           Is(g) == g = [n \in 0..N |-> IF n = 0 THEN Table
                                       ELSE Set(g[n - 1], t.entries[n].key, t.entries[n].value)]
           s == CHOOSE g : Is(g)
           F == [n \in 1..N |-> [x \in S |-> Set(x, t.entries[n].key, t.entries[n].value)]]
<1>1. N \in Nat
  OBVIOUS
<1>2. F \in [1..N -> [S -> S]]
  OBVIOUS
<1>3. PICK g \in [0..N -> S] : Takes(g, N, Table, F)
  <2> HIDE DEF F, N
  <2> QED BY <1>1, <1>2, Iterated
<1>4. g[0] = Table /\ \A n \in 1..N : g[n] = F[n][g[n - 1]]
  <2> HIDE DEF F, N
  <2> QED BY <1>3 DEF Takes
<1>5. \A n \in 1..N : n - 1 \in 0..N /\ n \in 0..N
  BY <1>1
<1>6. \A n \in 1..N : g[n] = Set(g[n - 1], t.entries[n].key, t.entries[n].value)
  <2> SUFFICES ASSUME NEW n \in 1..N PROVE g[n] = Set(g[n - 1], t.entries[n].key, t.entries[n].value)
    OBVIOUS
  <2>1. F[n][g[n - 1]] = Set(g[n - 1], t.entries[n].key, t.entries[n].value)
    BY <1>3, <1>5
  <2> HIDE DEF F
  <2> QED BY <1>4, <2>1
<1>7. Is(g)
  <2>1. g = [n \in 0..N |-> g[n]] /\ \A n \in 0..N : n = 0 \/ n \in 1..N
    BY <1>1
  <2> HIDE DEF F, N
  <2> QED BY <1>4, <1>6, <2>1
<1>8. Is(s)
  <2> HIDE DEF Is
  <2> QED BY <1>7
<1>9. s[0] = Table /\ \A n \in 1..N : s[n] = Set(s[n - 1], t.entries[n].key, t.entries[n].value)
  <2> HIDE DEF s
  <2>1. s = [n \in 0..N |-> IF n = 0 THEN Table
                           ELSE Set(s[n - 1], t.entries[n].key, t.entries[n].value)]
    BY <1>8
  <2>2. 0 \in 0..N /\ \A n \in 1..N : n # 0
    BY <1>1
  <2> HIDE DEF N
  <2> QED BY <1>5, <2>1, <2>2
<1>10. {n \in 0..N : s[n] \in S} = 0..N
  <2> HIDE DEF s
  <2> DEFINE T == {n \in 0..N : s[n] \in S}
  <2>1. T \in SUBSET (0..N) /\ 0 \in T
    BY <1>1, <1>9
  <2>2. \A n \in 1..N : n - 1 \in T => n \in T
    BY <1>5, <1>9
  <2> HIDE DEF T, N
  <2>3. T = 0..N
    BY <1>1, <2>1, <2>2, Counting
  <2> QED BY <2>3 DEF T
<1>11. Clone(t) = s[N]
  BY DEF Clone
<1> HIDE DEF s
<1> QED BY <1>9, <1>10, <1>11 DEF CloneLoop

----------------------------------------------------------------------------
(* Maps. *)

\* A table with keys in K and values in V has one entry per key.
Entries(K, V) == [key : K, value : V]
Maps(K, V) ==
    {t \in [entries : Seq(Entries(K, V)), frozen : BOOLEAN] :
        \A i, j \in 1..Len(t.entries) : t.entries[i].key = t.entries[j].key => i = j}

\* s is t after writes: the keys stay where they are, new ones come after them.
Later(s, t) ==
    /\ s.frozen = t.frozen
    /\ Len(s.entries) >= Len(t.entries)
    /\ \A i \in 1..Len(t.entries) : s.entries[i].key = t.entries[i].key
\* s is t with one value set.
Puts(s, t, k, v) ==
    /\ Later(s, t)
    /\ Has(t, k) => Len(s.entries) = Len(t.entries)
    /\ \A j : Has(s, j) <=> Has(t, j) \/ j = k
    /\ \A j : Get(s, j) = IF j = k THEN v ELSE Get(t, j)

LEMMA MapShape ==
    ASSUME NEW K, NEW V, NEW t \in Maps(K, V)
    PROVE  /\ t.entries \in Seq(Entries(K, V)) /\ Len(t.entries) \in Nat /\ t.frozen \in BOOLEAN
           /\ DOMAIN t.entries = 1..Len(t.entries) /\ DOMAIN t = {"entries", "frozen"}
           /\ t = [entries |-> t.entries, frozen |-> t.frozen]
           /\ \A i \in 1..Len(t.entries) :
                 /\ t.entries[i] \in Entries(K, V) /\ t.entries[i].key \in K /\ t.entries[i].value \in V
                 /\ t.entries[i] = [key |-> t.entries[i].key, value |-> t.entries[i].value]
           /\ \A i, j \in 1..Len(t.entries) : t.entries[i].key = t.entries[j].key => i = j
<1>1. t.entries \in Seq(Entries(K, V)) /\ t.frozen \in BOOLEAN /\ DOMAIN t = {"entries", "frozen"}
      /\ t = [entries |-> t.entries, frozen |-> t.frozen]
      /\ \A i, j \in 1..Len(t.entries) : t.entries[i].key = t.entries[j].key => i = j
  BY DEF Maps
<1>2. PICK e \in Seq(Entries(K, V)) : e = t.entries
  BY <1>1
<1>3. Len(e) \in Nat /\ DOMAIN e = 1..Len(e) /\ \A i \in 1..Len(e) : e[i] \in Entries(K, V)
  OBVIOUS
<1>4. \A x \in Entries(K, V) : x.key \in K /\ x.value \in V /\ x = [key |-> x.key, value |-> x.value]
  BY DEF Entries
<1> QED BY <1>1, <1>2, <1>3, <1>4

\* A map is built of its parts.
LEMMA MapBuilt ==
    ASSUME NEW K, NEW V, NEW e \in Seq(Entries(K, V)), NEW f \in BOOLEAN,
           \A i, j \in 1..Len(e) : e[i].key = e[j].key => i = j
    PROVE  [entries |-> e, frozen |-> f] \in Maps(K, V)
BY DEF Maps

\* Where a key is.
LEMMA Located ==
    ASSUME NEW K, NEW V, NEW t \in Maps(K, V), NEW k
    PROVE  /\ Has(t, k) <=> \E i \in 1..Len(t.entries) : t.entries[i].key = k
           /\ \A i \in 1..Len(t.entries) : t.entries[i].key = k =>
                 Has(t, k) /\ Position(t, k) = i /\ Get(t, k) = t.entries[i].value
           /\ Has(t, k) => Position(t, k) \in 1..Len(t.entries) /\ t.entries[Position(t, k)].key = k
           /\ ~Has(t, k) => Get(t, k) = Nil
<1>1. DOMAIN t.entries = 1..Len(t.entries)
      /\ \A i, j \in 1..Len(t.entries) : t.entries[i].key = t.entries[j].key => i = j
  BY MapShape
<1>2. Has(t, k) <=> \E i \in 1..Len(t.entries) : t.entries[i].key = k
  BY <1>1 DEF Has
<1>3. Has(t, k) => Position(t, k) \in 1..Len(t.entries) /\ t.entries[Position(t, k)].key = k
  BY <1>1, <1>2 DEF Position
<1>4. ASSUME NEW i \in 1..Len(t.entries), t.entries[i].key = k
      PROVE  Has(t, k) /\ Position(t, k) = i /\ Get(t, k) = t.entries[i].value
  BY <1>1, <1>2, <1>3, <1>4 DEF Get
<1>5. ~Has(t, k) => Get(t, k) = Nil
  BY DEF Get
<1> QED BY <1>2, <1>3, <1>4, <1>5

LEMMA GetTyped ==
    ASSUME NEW K, NEW V, NEW t \in Maps(K, V), NEW k, Nil \in V
    PROVE  Get(t, k) \in V
<1>1. CASE Has(t, k)
  <2>1. PICK i \in 1..Len(t.entries) : t.entries[i].key = k
    BY <1>1, Located
  <2>2. Get(t, k) = t.entries[i].value
    BY <2>1, Located
  <2>3. t.entries[i].value \in V
    BY MapShape
  <2> QED BY <2>2, <2>3
<1>2. CASE ~Has(t, k)
  BY <1>2, Located
<1> QED BY <1>1, <1>2

LEMMA PutPuts ==
    ASSUME NEW K, NEW V, NEW t \in Maps(K, V), NEW k \in K, NEW v \in V
    PROVE  Put(t, k, v) \in Maps(K, V) /\ Puts(Put(t, k, v), t, k, v)
<1>1. PICK e \in Seq(Entries(K, V)) : e = t.entries
  BY MapShape
<1>2. PICK n \in Nat : n = Len(e)
  OBVIOUS
<1>3. /\ DOMAIN e = 1..n /\ t = [entries |-> e, frozen |-> t.frozen] /\ t.frozen \in BOOLEAN
      /\ \A i \in 1..n : e[i] \in Entries(K, V)
      /\ \A i, j \in 1..n : e[i].key = e[j].key => i = j
  BY <1>1, <1>2, MapShape
<1>4. PICK x \in Entries(K, V) : x = [key |-> k, value |-> v]
  BY DEF Entries
<1>5. CASE Has(t, k)
  <2>1. PICK p \in 1..n : p = Position(t, k) /\ e[p].key = k
    BY <1>1, <1>2, <1>5, Located
  <2>2. [e[p] EXCEPT !.value = v] = x
    BY <1>3, <1>4, <2>1 DEF Entries
  <2>3. PICK d : d = [e EXCEPT ![p] = x]
    OBVIOUS
  <2>4. /\ d \in Seq(Entries(K, V)) /\ Len(d) = n /\ d[p] = x
        /\ \A i \in 1..n : i # p => d[i] = e[i]
    BY <1>2, <1>3, <2>1, <2>3
  <2>5. \A i \in 1..n : d[i].key = e[i].key
    BY <1>4, <2>1, <2>4
  <2>6. PICK s : s = [entries |-> d, frozen |-> t.frozen]
    OBVIOUS
  <2>7. Put(t, k, v) = s
    <3>1. Put(t, k, v) = [t EXCEPT !.entries = [t.entries EXCEPT ![Position(t, k)] = [t.entries[Position(t, k)] EXCEPT !.value = v]]]
      BY <1>5 DEF Put
    <3>2. Put(t, k, v) = [t EXCEPT !.entries = d]
      BY <1>1, <2>1, <2>2, <2>3, <3>1
    <3>3. [t EXCEPT !.entries = d] = s
      BY <1>3, <2>6
    <3> QED BY <3>2, <3>3
  <2>8. s \in Maps(K, V) /\ s.entries = d /\ s.frozen = t.frozen
    BY <1>3, <2>4, <2>5, <2>6, MapBuilt
  <2>9. Later(s, t) /\ Len(s.entries) = Len(t.entries)
    BY <1>1, <1>2, <2>4, <2>5, <2>8 DEF Later
  <2>10. \A j : Has(s, j) <=> Has(t, j) \/ j = k
    <3>1. \A j : Has(s, j) <=> \E i \in 1..n : d[i].key = j
      BY <2>4, <2>8, Located
    <3>2. \A j : Has(t, j) <=> \E i \in 1..n : e[i].key = j
      BY <1>1, <1>2, Located
    <3> QED BY <2>1, <2>5, <3>1, <3>2
  <2>11. ASSUME NEW j PROVE Get(s, j) = IF j = k THEN v ELSE Get(t, j)
    <3>1. CASE j = k
      BY <1>4, <2>1, <2>4, <2>5, <2>8, <3>1, Located
    <3>2. CASE j # k /\ Has(t, j)
      <4>1. PICK i \in 1..n : e[i].key = j
        BY <1>1, <1>2, <3>2, Located
      <4>2. Get(t, j) = e[i].value
        BY <1>1, <1>2, <4>1, Located
      <4>3. d[i] = e[i]
        BY <2>1, <2>4, <3>2, <4>1
      <4>4. Get(s, j) = d[i].value
        BY <2>4, <2>8, <4>1, <4>3, Located
      <4> QED BY <3>2, <4>2, <4>3, <4>4
    <3>3. CASE j # k /\ ~Has(t, j)
      BY <2>8, <2>10, <3>3, Located
    <3> QED BY <3>1, <3>2, <3>3
  <2> QED BY <2>7, <2>8, <2>9, <2>10, <2>11 DEF Puts
<1>6. CASE ~Has(t, k)
  <2>1. PICK d : d = Append(e, x)
    OBVIOUS
  <2>2. /\ d \in Seq(Entries(K, V)) /\ Len(d) = n + 1 /\ d[n + 1] = x
        /\ \A i \in 1..n : d[i] = e[i]
    BY <1>2, <2>1
  <2>3. PICK s : s = [entries |-> d, frozen |-> t.frozen]
    OBVIOUS
  <2>4. Put(t, k, v) = s
    <3>1. [t EXCEPT !.entries = d] = s
      BY <1>3, <2>3
    <3> QED BY <1>1, <1>4, <1>6, <2>1, <3>1 DEF Put
  <2>5. \A i \in 1..n : e[i].key # k
    BY <1>1, <1>2, <1>6, Located
  <2>6. \A i, j \in 1..(n + 1) : d[i].key = d[j].key => i = j
    <3> SUFFICES ASSUME NEW i \in 1..(n + 1), NEW j \in 1..(n + 1), d[i].key = d[j].key PROVE i = j
      OBVIOUS
    <3>1. (i \in 1..n \/ i = n + 1) /\ (j \in 1..n \/ j = n + 1)
      OBVIOUS
    <3>2. x.key = k
      BY <1>4
    <3> QED BY <1>3, <2>2, <2>5, <3>1, <3>2
  <2>7. s \in Maps(K, V) /\ s.entries = d /\ s.frozen = t.frozen
    BY <1>3, <2>2, <2>3, <2>6, MapBuilt
  <2>8. Later(s, t)
    BY <1>1, <1>2, <2>2, <2>7 DEF Later
  <2>9. \A i \in 1..(n + 1) : i \in 1..n \/ i = n + 1
    OBVIOUS
  <2>10. \A j : Has(s, j) <=> Has(t, j) \/ j = k
    <3>1. \A j : Has(s, j) <=> \E i \in 1..(n + 1) : d[i].key = j
      BY <2>2, <2>7, Located
    <3>2. \A j : Has(t, j) <=> \E i \in 1..n : e[i].key = j
      BY <1>1, <1>2, Located
    <3>3. x.key = k /\ n + 1 \in 1..(n + 1) /\ \A i \in 1..n : i \in 1..(n + 1)
      BY <1>4
    <3> QED BY <2>2, <2>9, <3>1, <3>2, <3>3
  <2>11. ASSUME NEW j PROVE Get(s, j) = IF j = k THEN v ELSE Get(t, j)
    <3>1. CASE j = k
      <4>1. x.key = k /\ x.value = v /\ n + 1 \in 1..(n + 1)
        BY <1>4
      <4> QED BY <2>2, <2>7, <3>1, <4>1, Located
    <3>2. CASE j # k /\ Has(t, j)
      <4>1. PICK i \in 1..n : e[i].key = j
        BY <1>1, <1>2, <3>2, Located
      <4>2. Get(t, j) = e[i].value
        BY <1>1, <1>2, <4>1, Located
      <4>3. i \in 1..(n + 1) /\ d[i] = e[i]
        BY <2>2
      <4>4. Get(s, j) = d[i].value
        BY <2>2, <2>7, <4>1, <4>3, Located
      <4> QED BY <3>2, <4>2, <4>3, <4>4
    <3>3. CASE j # k /\ ~Has(t, j)
      BY <2>7, <2>10, <3>3, Located
    <3> QED BY <3>1, <3>2, <3>3
  <2> QED BY <1>6, <2>4, <2>7, <2>8, <2>10, <2>11 DEF Puts
<1> QED BY <1>5, <1>6

----------------------------------------------------------------------------
(* Runs of keys. *)

\* A set of naturals below N has a greatest element, which Max chooses.
LEMMA Greatest ==
    ASSUME NEW N \in Nat, NEW R \in SUBSET (0..N), R # {}
    PROVE  Max(R) \in R /\ \A x \in R : x <= Max(R)
<1> DEFINE T == {N - x : x \in R}
<1>1. T \in SUBSET Nat /\ T # {}
  <2>1. \A x \in R : x \in Nat /\ N - x \in Nat
    OBVIOUS
  <2>2. PICK x \in R : TRUE
    OBVIOUS
  <2>3. N - x \in T
    OBVIOUS
  <2> QED BY <2>1, <2>3
<1>2. PICK m \in T : \A y \in T : m <= y
  <2> HIDE DEF T
  <2> QED BY <1>1, LeastNatural
<1>3. PICK x \in R : m = N - x
  BY <1>2
<1>4. \A y \in R : x >= y
  <2> SUFFICES ASSUME NEW y \in R PROVE x >= y
    OBVIOUS
  <2>1. x \in Nat /\ y \in Nat
    OBVIOUS
  <2>2. N - y \in T
    OBVIOUS
  <2>3. N - x <= N - y
    BY <1>2, <1>3, <2>2
  <2> QED BY <2>1, <2>3
<1>5. Max(R) \in R /\ \A y \in R : Max(R) >= y
  BY <1>4 DEF Max
<1> QED BY <1>5

\* The run of keys from k on, and the missing key that ends it.
IsRun(t, k, r) == r \in Nat /\ (\A i \in k..(k + r - 1) : Has(t, i)) /\ ~Has(t, k + r)

\* A map has no more keys in a row than entries.
LEMMA RowFits ==
    ASSUME NEW K, NEW V, NEW t \in Maps(K, V), NEW k \in Nat, NEW n \in Nat, \A i \in k..(k + n - 1) : Has(t, i)
    PROVE  n <= Len(t.entries)
<1> DEFINE S == k..(k + n - 1)
           T == 1..Len(t.entries)
           f == [i \in S |-> Position(t, i)]
<1>1. Len(t.entries) \in Nat
  BY MapShape
<1>2. \A i \in S : Position(t, i) \in T /\ t.entries[Position(t, i)].key = i
  BY Located
<1>3. f \in Injection(S, T)
  <2>1. f \in [S -> T]
    BY <1>2
  <2>2. ASSUME NEW i \in S, NEW j \in S, f[i] = f[j] PROVE i = j
    <3>1. Position(t, i) = Position(t, j)
      BY <2>2
    <3> HIDE DEF f, S
    <3> QED BY <1>2, <3>1
  <2>3. DOMAIN f = S
    OBVIOUS
  <2> HIDE DEF f, S, T
  <2> QED BY <2>1, <2>2, <2>3 DEF Injection, IsInjective
<1>4. IsFiniteSet(T) /\ Cardinality(T) = Len(t.entries)
  BY <1>1, FS_Interval
<1>5. Cardinality(S) = n
  BY FS_Interval
<1>6. Cardinality(S) <= Cardinality(T)
  <2> HIDE DEF f, S, T
  <2> QED BY <1>3, <1>4, FS_Injection
<1> QED BY <1>4, <1>5, <1>6

\* RunFrom finds the run.
LEMMA RunFound ==
    ASSUME NEW K, NEW V, NEW t \in Maps(K, V), NEW k \in Nat
    PROVE  IsRun(t, k, RunFrom(t, k))
<1> DEFINE R == {n \in 0..Len(t.entries) : \A i \in k..(k + n - 1) : Has(t, i)}
<1>1. Len(t.entries) \in Nat
  BY MapShape
<1>2. R \in SUBSET (0..Len(t.entries)) /\ R # {}
  <2>1. 0 \in 0..Len(t.entries) /\ k..(k + 0 - 1) = {}
    BY <1>1
  <2> QED BY <2>1
<1>3. PICK r : r = RunFrom(t, k)
  OBVIOUS
<1>4. r \in R /\ \A n \in R : n <= r
  <2>1. r = Max(R)
    BY <1>3 DEF RunFrom
  <2> HIDE DEF R
  <2> QED BY <1>1, <1>2, <2>1, Greatest
<1>5. r \in Nat /\ \A i \in k..(k + r - 1) : Has(t, i)
  BY <1>1, <1>4
<1>6. ASSUME Has(t, k + r) PROVE FALSE
  <2>1. \A i \in k..(k + (r + 1) - 1) : i \in k..(k + r - 1) \/ i = k + r
    BY <1>5
  <2>2. \A i \in k..(k + (r + 1) - 1) : Has(t, i)
    BY <1>5, <1>6, <2>1
  <2>3. r + 1 <= Len(t.entries)
    <3>1. PICK n \in Nat : n = r + 1
      BY <1>5
    <3>2. \A i \in k..(k + n - 1) : Has(t, i)
      BY <2>2, <3>1
    <3>3. n <= Len(t.entries)
      BY <3>2, RowFits
    <3> QED BY <3>1, <3>3
  <2>4. r + 1 \in 0..Len(t.entries)
    BY <1>1, <1>5, <2>3
  <2>5. r + 1 \in R
    BY <2>2, <2>4
  <2> HIDE DEF R
  <2> QED BY <1>4, <1>5, <2>5
<1> QED BY <1>3, <1>5, <1>6 DEF IsRun

\* There is one run from k on.
LEMMA RunUnique ==
    ASSUME NEW K, NEW V, NEW t \in Maps(K, V), NEW k \in Nat, NEW r, IsRun(t, k, r)
    PROVE  RunFrom(t, k) = r
<1>1. PICK q : q = RunFrom(t, k)
  OBVIOUS
<1>2. IsRun(t, k, q)
  BY <1>1, RunFound
<1>3. q \in Nat /\ r \in Nat
  BY <1>2 DEF IsRun
<1>4. ~(q < r)
  <2>1. q < r => k + q \in k..(k + r - 1)
    BY <1>3
  <2> QED BY <1>2, <2>1 DEF IsRun
<1>5. ~(r < q)
  <2>1. r < q => k + r \in k..(k + q - 1)
    BY <1>3
  <2> QED BY <1>2, <2>1 DEF IsRun
<1> QED BY <1>1, <1>3, <1>4, <1>5

\* Tables with the same keys have the same runs.
LEMMA SameRuns ==
    ASSUME NEW K, NEW V, NEW t \in Maps(K, V), NEW s \in Maps(K, V), NEW k \in Nat, \A j : Has(s, j) <=> Has(t, j)
    PROVE  RunFrom(s, k) = RunFrom(t, k)
<1>1. PICK r : r = RunFrom(t, k)
  OBVIOUS
<1>2. IsRun(s, k, r)
  BY <1>1, RunFound DEF IsRun
<1> QED BY <1>1, <1>2, RunUnique

----------------------------------------------------------------------------
(* Loops that write a row of keys. *)

\* s is t with the values of e at k, k + 1, ..., k + n - 1.
Row(s, t, k, n, e) ==
    /\ Later(s, t)
    /\ \A j : Has(s, j) <=> Has(t, j) \/ j \in k..(k + n - 1)
    /\ \A j : Get(s, j) = IF j \in k..(k + n - 1) THEN e[j - k + 1] ELSE Get(t, j)

LEMMA LaterItself == ASSUME NEW t, Len(t.entries) \in Nat PROVE Later(t, t)
BY DEF Later

LEMMA LaterJoins ==
    ASSUME NEW r, NEW s, NEW t, Later(r, s), Later(s, t), 
           Len(r.entries) \in Nat, Len(s.entries) \in Nat, Len(t.entries) \in Nat
    PROVE  Later(r, t)
BY DEF Later

LEMMA RowStarts ==
    ASSUME NEW t, NEW k \in Nat, NEW e, Len(t.entries) \in Nat
    PROVE  Row(t, t, k, 0, e)
<1>1. k..(k + 0 - 1) = {}
  OBVIOUS
<1> QED BY <1>1, LaterItself DEF Row

\* One more key is written.
LEMMA RowGrows ==
    ASSUME NEW K, NEW V, NEW t \in Maps(K, V), NEW s \in Maps(K, V), NEW r \in Maps(K, V),
           NEW k \in Nat, NEW n \in Nat \ {0}, NEW e,
           Row(s, t, k, n - 1, e), Puts(r, s, k + n - 1, e[n])
    PROVE  Row(r, t, k, n, e)
<1>1. Later(r, t)
  BY MapShape, LaterJoins DEF Row, Puts
<1>2. \A j : j \in k..(k + n - 1) <=> j \in k..(k + (n - 1) - 1) \/ j = k + n - 1
  OBVIOUS
<1>3. k + n - 1 \notin k..(k + (n - 1) - 1) /\ (k + n - 1) - k + 1 = n
  OBVIOUS
<1>4. \A j : Has(r, j) <=> Has(t, j) \/ j \in k..(k + n - 1)
  BY <1>2 DEF Row, Puts
<1>5. ASSUME NEW j PROVE Get(r, j) = IF j \in k..(k + n - 1) THEN e[j - k + 1] ELSE Get(t, j)
  <2>1. CASE j = k + n - 1
    <3>1. Get(r, j) = e[n]
      BY <2>1 DEF Puts
    <3> QED BY <1>2, <1>3, <2>1, <3>1
  <2>2. CASE j # k + n - 1
    <3>1. Get(r, j) = Get(s, j)
      BY <2>2 DEF Puts
    <3>2. Get(s, j) = IF j \in k..(k + (n - 1) - 1) THEN e[j - k + 1] ELSE Get(t, j)
      BY DEF Row
    <3> QED BY <1>2, <2>2, <3>1, <3>2
  <2> QED BY <2>1, <2>2
<1> QED BY <1>1, <1>4, <1>5 DEF Row

\* set() on a map, in a build that goes on after it.
LEMMA SetSets ==
    ASSUME NEW K, NEW V, NEW t \in Maps(K, V), NEW k \in K, NEW v \in V
    PROVE  /\ Set(t, k, v) \in Maps(K, V) /\ Later(Set(t, k, v), t)
           /\ t.frozen => Puts(Set(t, k, v), t, k, v)
<1>1. CASE t.frozen
  <2>1. Set(t, k, v) = Put(t, k, v)
    BY <1>1 DEF Set
  <2> QED BY <2>1, PutPuts DEF Puts
<1>2. CASE ~t.frozen
  <2>1. Set(t, k, v) = t
    BY <1>2 DEF Set
  <2> QED BY <1>2, <2>1, MapShape, LaterItself
<1> QED BY <1>1, <1>2

\* The tables that come of writes to t.
After(K, V, t) == {s \in Maps(K, V) : Later(s, t)}

LEMMA AfterItself == ASSUME NEW K, NEW V, NEW t \in Maps(K, V) PROVE t \in After(K, V, t)
BY MapShape, LaterItself DEF After

LEMMA AfterSet ==
    ASSUME NEW K, NEW V, NEW t \in Maps(K, V), NEW s \in After(K, V, t), NEW k \in K, NEW v \in V
    PROVE  Set(s, k, v) \in After(K, V, t)
<1>1. s \in Maps(K, V) /\ Later(s, t)
  BY DEF After
<1>2. PICK r : r = Set(s, k, v)
  OBVIOUS
<1>3. r \in Maps(K, V) /\ Later(r, s)
  BY <1>1, <1>2, SetSets
<1>4. Later(r, t)
  BY <1>1, <1>3, MapShape, LaterJoins
<1> QED BY <1>2, <1>3, <1>4 DEF After

LEMMA SetFromAfter ==
    ASSUME NEW K, NEW V, NEW t \in Maps(K, V), NEW k, NEW values, Len(values) \in Nat,
           \A n \in 1..Len(values) : k + n - 1 \in K /\ values[n] \in V
    PROVE  SetFrom(t, k, values) \in After(K, V, t)
<1>1. \A n \in 1..Len(values), s \in After(K, V, t) : Set(s, k + n - 1, values[n]) \in After(K, V, t)
  BY AfterSet
<1>2. t \in After(K, V, t)
  BY AfterItself
<1>3. PICK g : SetLoop(g, t, k, values, After(K, V, t))
  BY <1>1, <1>2, SetFromLoops
<1>4. Len(values) \in 0..Len(values)
  OBVIOUS
<1> QED BY <1>3, <1>4 DEF SetLoop

\* A row of writes to a table that can be written.
LEMMA SetFromRow ==
    ASSUME NEW K, NEW V, NEW t \in Maps(K, V), t.frozen, NEW k \in Nat, NEW values, Len(values) \in Nat,
           \A n \in 1..Len(values) : k + n - 1 \in K /\ values[n] \in V
    PROVE  Row(SetFrom(t, k, values), t, k, Len(values), values)
<1>1. \A n \in 1..Len(values), s \in After(K, V, t) : Set(s, k + n - 1, values[n]) \in After(K, V, t)
  BY AfterSet
<1>2. t \in After(K, V, t)
  BY AfterItself
<1>3. PICK g : SetLoop(g, t, k, values, After(K, V, t))
  BY <1>1, <1>2, SetFromLoops
<1>4. PICK N \in Nat : N = Len(values)
  OBVIOUS
<1>5. /\ g[0] = t /\ SetFrom(t, k, values) = g[N]
      /\ \A n \in 0..N : g[n] \in After(K, V, t)
      /\ \A n \in 1..N : g[n] = Set(g[n - 1], k + n - 1, values[n])
  BY <1>3, <1>4 DEF SetLoop
<1>6. \A n \in 0..N : g[n] \in Maps(K, V) /\ g[n].frozen
  BY <1>5 DEF After, Later
<1> DEFINE T == {n \in 0..N : Row(g[n], t, k, n, values)}
<1>7. 0 \in T
  BY <1>5, MapShape, RowStarts
<1>8. ASSUME NEW n \in 1..N, n - 1 \in T PROVE n \in T
  <2>1. n \in 0..N /\ n - 1 \in 0..N /\ n \in Nat \ {0}
    OBVIOUS
  <2>2. PICK s \in Maps(K, V) : s = g[n - 1] /\ s.frozen
    BY <1>6, <2>1
  <2>3. PICK r \in Maps(K, V) : r = g[n]
    BY <1>6, <2>1
  <2>4. Puts(r, s, k + n - 1, values[n])
    BY <1>4, <1>5, <2>2, <2>3, SetSets
  <2>5. Row(s, t, k, n - 1, values)
    BY <1>8, <2>2
  <2>6. Row(r, t, k, n, values)
    BY <2>1, <2>4, <2>5, RowGrows
  <2> QED BY <2>1, <2>3, <2>6
<1>9. T = 0..N
  <2>1. T \in SUBSET (0..N)
    OBVIOUS
  <2> HIDE DEF T
  <2> QED BY <1>7, <1>8, <2>1, Counting
<1>10. Row(g[N], t, k, N, values)
  BY <1>9
<1> QED BY <1>4, <1>5, <1>10

\* move() on maps, in a build that goes on after it.
LEMMA MoveAfter ==
    ASSUME NEW K, NEW V, NEW t \in Maps(K, V), NEW src \in Maps(K, V), NEW own \in BOOLEAN,
           NEW a \in Nat, NEW b \in Nat, NEW k \in Nat, Nil \in V,
           \A n \in 1..Steps(a, b) : k + n - 1 \in K
    PROVE  Move(t, src, own, a, b, k) \in After(K, V, t)
<1>1. Steps(a, b) \in Nat /\ a \in Int /\ b \in Int
  BY DEF Steps
<1>2. ASSUME NEW n \in 1..Steps(a, b), NEW s \in After(K, V, t)
      PROVE  Set(s, k + n - 1, Get(IF own THEN s ELSE src, a + n - 1)) \in After(K, V, t)
  <2>1. PICK v : v = Get(IF own THEN s ELSE src, a + n - 1)
    OBVIOUS
  <2>2. v \in V
    BY <2>1, GetTyped DEF After
  <2> QED BY <2>1, <2>2, AfterSet
<1>3. t \in After(K, V, t)
  BY AfterItself
<1>4. PICK g : MoveLoop(g, t, src, own, a, b, k, After(K, V, t))
  BY <1>1, <1>2, <1>3, MoveLoops
<1>5. Steps(a, b) \in 0..Steps(a, b)
  BY <1>1
<1> QED BY <1>4, <1>5 DEF MoveLoop

\* move() writes the values e, if e is what its steps read.
LEMMA MoveRow ==
    ASSUME NEW K, NEW V, NEW t \in Maps(K, V), t.frozen, NEW src \in Maps(K, V), NEW own \in BOOLEAN,
           NEW a \in Nat, NEW b \in Nat, NEW k \in Nat, Nil \in V,
           \A n \in 1..Steps(a, b) : k + n - 1 \in K, NEW e,
           \A n \in 1..Steps(a, b), s \in Maps(K, V) :
               Row(s, t, k, n - 1, e) => Get(IF own THEN s ELSE src, a + n - 1) = e[n]
    PROVE  Row(Move(t, src, own, a, b, k), t, k, Steps(a, b), e)
<1>0. Steps(a, b) \in Nat /\ a \in Int /\ b \in Int
  BY DEF Steps
<1>1. PICK N \in Nat : N = Steps(a, b)
  BY <1>0
<1>2. ASSUME NEW n \in 1..Steps(a, b), NEW s \in After(K, V, t)
      PROVE  Set(s, k + n - 1, Get(IF own THEN s ELSE src, a + n - 1)) \in After(K, V, t)
  <2>1. PICK v : v = Get(IF own THEN s ELSE src, a + n - 1)
    OBVIOUS
  <2>2. v \in V
    BY <2>1, GetTyped DEF After
  <2> QED BY <2>1, <2>2, AfterSet
<1>3. t \in After(K, V, t)
  BY AfterItself
<1>4. PICK g : MoveLoop(g, t, src, own, a, b, k, After(K, V, t))
  BY <1>0, <1>2, <1>3, MoveLoops
<1>5. /\ g[0] = t /\ Move(t, src, own, a, b, k) = g[N]
      /\ \A n \in 0..N : g[n] \in After(K, V, t)
      /\ \A n \in 1..N : g[n] = Set(g[n - 1], k + n - 1, Get(IF own THEN g[n - 1] ELSE src, a + n - 1))
  BY <1>1, <1>4 DEF MoveLoop
<1>6. \A n \in 0..N : g[n] \in Maps(K, V) /\ g[n].frozen
  BY <1>5 DEF After, Later
<1> DEFINE T == {n \in 0..N : Row(g[n], t, k, n, e)}
<1>7. 0 \in T
  BY <1>5, MapShape, RowStarts
<1>8. ASSUME NEW n \in 1..N, n - 1 \in T PROVE n \in T
  <2>1. n \in 0..N /\ n - 1 \in 0..N /\ n \in Nat \ {0} /\ n \in 1..Steps(a, b)
    BY <1>1
  <2>2. PICK s \in Maps(K, V) : s = g[n - 1] /\ s.frozen
    BY <1>6, <2>1
  <2>3. PICK r \in Maps(K, V) : r = g[n]
    BY <1>6, <2>1
  <2>4. Row(s, t, k, n - 1, e)
    BY <1>8, <2>2
  <2>5. PICK v : v = Get(IF own THEN s ELSE src, a + n - 1)
    OBVIOUS
  <2>6. v = e[n] /\ v \in V
    BY <2>1, <2>4, <2>5, GetTyped
  <2>7. r = Set(s, k + n - 1, v)
    BY <1>5, <2>2, <2>3, <2>5
  <2>8. Puts(r, s, k + n - 1, v)
    BY <2>1, <2>2, <2>6, <2>7, SetSets
  <2>9. Row(r, t, k, n, e)
    BY <2>1, <2>4, <2>6, <2>8, RowGrows
  <2> QED BY <2>1, <2>3, <2>9
<1>9. T = 0..N
  <2>1. T \in SUBSET (0..N)
    OBVIOUS
  <2> HIDE DEF T
  <2> QED BY <1>7, <1>8, <2>1, Counting
<1>10. Row(g[N], t, k, N, e)
  BY <1>9
<1> QED BY <1>1, <1>5, <1>10

\* clone() leaves a map.
LEMMA CloneTyped ==
    ASSUME NEW K, NEW V, NEW t \in Maps(K, V)
    PROVE  Table \in Maps(K, V) /\ Clone(t) \in Maps(K, V)
<1>1. Table \in Maps(K, V)
  BY DEF Table, Maps
<1>2. Len(t.entries) \in Nat
  BY MapShape
<1>3. \A n \in 1..Len(t.entries), s \in Maps(K, V) : Set(s, t.entries[n].key, t.entries[n].value) \in Maps(K, V)
  BY MapShape, SetSets
<1>4. PICK g : CloneLoop(g, t, Maps(K, V))
  BY <1>1, <1>2, <1>3, CloneLoops
<1>5. Len(t.entries) \in 0..Len(t.entries)
  BY <1>2
<1> QED BY <1>1, <1>4, <1>5 DEF CloneLoop

----------------------------------------------------------------------------
(* The array functions. *)

LEMMA KeyTyped == ASSUME NEW K, NEW V, NEW t \in Maps(K, V), NEW i, Has(t, i) PROVE i \in K
<1>1. PICK n \in 1..Len(t.entries) : t.entries[n].key = i
  BY Located
<1>2. t.entries[n].key \in K
  BY MapShape
<1> QED BY <1>1, <1>2

LEMMA IpairsRuns ==
    ASSUME NEW V, NEW t \in Maps(Nat, V), Nil \in V, NEW k \in Nat
    PROVE  /\ Ipairs(t, k) \in Seq(V) /\ Len(Ipairs(t, k)) = RunFrom(t, k) /\ RunFrom(t, k) \in Nat
           /\ DOMAIN Ipairs(t, k) = 1..RunFrom(t, k)
           /\ \A i \in 1..RunFrom(t, k) : Ipairs(t, k)[i] = Get(t, k + i - 1)
<1>1. PICK r \in Nat : r = RunFrom(t, k)
  BY RunFound DEF IsRun
<1>2. Ipairs(t, k) = [i \in 1..r |-> Get(t, k + i - 1)]
  BY <1>1 DEF Ipairs
<1>3. \A i \in 1..r : Get(t, k + i - 1) \in V
  BY GetTyped
<1> QED BY <1>1, <1>2, <1>3

\* What insert(pos, v) leaves.
Inserted(s, t, pos, v) ==
    /\ \A j : Has(s, j) <=> Has(t, j) \/ j = pos
    /\ \A j : Get(s, j) = IF j = pos THEN v
                          ELSE IF j \in (pos + 1)..(pos + RunFrom(t, pos + 1)) THEN Get(t, j - 1)
                          ELSE Get(t, j)

LEMMA InsertAfter ==
    ASSUME NEW K \in SUBSET Nat, NEW V, NEW t \in Maps(K, V), Nil \in V, NEW pos \in K, NEW v \in V
    PROVE  Insert(t, pos, v) \in After(K, V, t)
           /\ (t.frozen => Inserted(Insert(t, pos, v), t, pos, v))
<1>1. PICK r \in Nat : r = RunFrom(t, pos + 1) /\ IsRun(t, pos + 1, r)
  <2>1. pos + 1 \in Nat
    OBVIOUS
  <2> QED BY <2>1, RunFound DEF IsRun
<1>2. PICK tail : tail = [i \in 1..r |-> Get(t, pos + i - 1)]
  OBVIOUS
<1>3. tail \in Seq(V) /\ Len(tail) = r /\ \A i \in 1..r : tail[i] = Get(t, pos + i - 1)
  <2>1. \A i \in 1..r : Get(t, pos + i - 1) \in V
    BY GetTyped
  <2> QED BY <1>2, <2>1
<1>4. PICK values : values = <<v>> \o tail
  OBVIOUS
<1>5. /\ values \in Seq(V) /\ Len(values) = r + 1 /\ values[1] = v
      /\ \A i \in 2..(r + 1) : values[i] = Get(t, pos + i - 2)
  <2>1. /\ values \in Seq(V) /\ Len(values) = r + 1 /\ values[1] = v
        /\ \A i \in 2..(r + 1) : values[i] = tail[i - 1]
    BY <1>3, <1>4
  <2>2. \A i \in 2..(r + 1) : i - 1 \in 1..r /\ pos + (i - 1) - 1 = pos + i - 2
    OBVIOUS
  <2> QED BY <1>3, <2>1, <2>2
<1>6. Insert(t, pos, v) = SetFrom(t, pos, values)
  BY <1>1, <1>2, <1>4 DEF Insert
<1>7. \A i \in (pos + 1)..(pos + 1 + r - 1) : i \in K
  <2>1. \A i \in (pos + 1)..(pos + 1 + r - 1) : Has(t, i)
    BY <1>1 DEF IsRun
  <2>2. \A i : Has(t, i) => i \in K
    BY KeyTyped
  <2> QED BY <2>1, <2>2
<1>8. \A n \in 1..(r + 1) : pos + n - 1 \in K /\ values[n] \in V
  <2>1. \A n \in 1..(r + 1) : n = 1 \/ pos + n - 1 \in (pos + 1)..(pos + 1 + r - 1)
    BY <1>1
  <2>2. pos + 1 - 1 = pos /\ \A n \in 1..(r + 1) : values[n] \in V
    BY <1>5
  <2> QED BY <1>7, <2>1, <2>2
<1>9. SetFrom(t, pos, values) \in After(K, V, t)
  BY <1>5, <1>8, SetFromAfter
<1>10. ASSUME t.frozen PROVE Inserted(Insert(t, pos, v), t, pos, v)
  <2>1. PICK s : s = Insert(t, pos, v)
    OBVIOUS
  <2>2. Row(s, t, pos, r + 1, values)
    <3>1. pos \in Nat /\ Len(values) \in Nat /\ \A n \in 1..Len(values) : pos + n - 1 \in K /\ values[n] \in V
      BY <1>5, <1>8
    <3>2. Row(SetFrom(t, pos, values), t, pos, Len(values), values)
      BY <1>10, <3>1, SetFromRow
    <3> QED BY <1>5, <1>6, <2>1, <3>2
  <2>3. \A j : j \in pos..(pos + (r + 1) - 1) <=> j = pos \/ j \in (pos + 1)..(pos + r)
    OBVIOUS
  <2>4. \A j \in (pos + 1)..(pos + r) : Has(t, j)
    BY <1>1 DEF IsRun
  <2>5. \A j : Has(s, j) <=> Has(t, j) \/ j = pos
    BY <2>2, <2>3, <2>4 DEF Row
  <2>6. ASSUME NEW j
        PROVE  Get(s, j) = IF j = pos THEN v ELSE IF j \in (pos + 1)..(pos + r) THEN Get(t, j - 1) ELSE Get(t, j)
    <3>1. Get(s, j) = IF j \in pos..(pos + (r + 1) - 1) THEN values[j - pos + 1] ELSE Get(t, j)
      BY <2>2 DEF Row
    <3>2. CASE j = pos
      <4>1. pos - pos + 1 = 1
        OBVIOUS
      <4> QED BY <1>5, <2>3, <3>1, <3>2, <4>1
    <3>3. CASE j \in (pos + 1)..(pos + r)
      <4>1. j # pos /\ j - pos + 1 \in 2..(r + 1) /\ pos + (j - pos + 1) - 2 = j - 1
        BY <3>3
      <4> QED BY <1>5, <2>3, <3>1, <3>3, <4>1
    <3>4. CASE j # pos /\ j \notin (pos + 1)..(pos + r)
      BY <2>3, <3>1, <3>4
    <3> QED BY <3>2, <3>3, <3>4
  <2> QED BY <1>1, <2>1, <2>5, <2>6 DEF Inserted
<1> QED BY <1>6, <1>9, <1>10

\* What remove(pos) leaves, when there is that key: r values moved down.
Removed(s, t, pos, r) ==
    /\ \A j : Has(s, j) <=> Has(t, j)
    /\ \A j : Get(s, j) = IF j \in pos..(pos + r - 2) THEN Get(t, j + 1)
                          ELSE IF j = pos + r - 1 THEN Nil ELSE Get(t, j)

LEMMA RemoveAfter ==
    ASSUME NEW K \in SUBSET Nat, NEW V, NEW t \in Maps(K, V), Nil \in V, NEW pos \in Nat
    PROVE  RemoveKey(t, pos) \in After(K, V, t)
           /\ (t.frozen /\ Has(t, pos) => Removed(RemoveKey(t, pos), t, pos, RunFrom(t, pos)))
<1>1. CASE ~Has(t, pos)
  <2>1. RemoveKey(t, pos) = t
    BY <1>1 DEF RemoveKey
  <2> QED BY <1>1, <2>1, AfterItself
<1>2. CASE Has(t, pos)
  <2>1. PICK r \in Nat : r = RunFrom(t, pos) /\ IsRun(t, pos, r)
    BY RunFound DEF IsRun
  <2>2. r # 0
    BY <1>2, <2>1 DEF IsRun
  <2>3. PICK p : p = Ipairs(t, pos)
    OBVIOUS
  <2>4. p \in Seq(V) /\ Len(p) = r /\ \A i \in 1..r : p[i] = Get(t, pos + i - 1)
    <3>1. \A i \in 1..r : Get(t, pos + i - 1) \in V
      BY GetTyped
    <3>2. p = [i \in 1..r |-> Get(t, pos + i - 1)]
      BY <2>1, <2>3 DEF Ipairs
    <3> QED BY <3>1, <3>2
  <2>5. PICK q : q = Tail(p)
    OBVIOUS
  <2>6. q \in Seq(V) /\ Len(q) = r - 1 /\ \A i \in 1..(r - 1) : q[i] = p[i + 1]
    BY <2>2, <2>4, <2>5
  <2>7. PICK values : values = Append(q, Nil)
    OBVIOUS
  <2>8. /\ values \in Seq(V) /\ Len(values) = r /\ values[r] = Nil
        /\ \A i \in 1..(r - 1) : values[i] = Get(t, pos + i)
    <3>1. /\ values \in Seq(V) /\ Len(values) = r /\ values[r] = Nil
          /\ \A i \in 1..(r - 1) : values[i] = q[i]
      BY <2>2, <2>6, <2>7
    <3>2. \A i \in 1..(r - 1) : i + 1 \in 1..r /\ pos + (i + 1) - 1 = pos + i
      BY <2>2
    <3> QED BY <2>4, <2>6, <3>1, <3>2
  <2>9. RemoveKey(t, pos) = SetFrom(t, pos, values)
    BY <1>2, <2>3, <2>5, <2>7 DEF RemoveKey
  <2>10. \A n \in 1..r : pos + n - 1 \in K /\ values[n] \in V
    <3>1. \A n \in 1..r : pos + n - 1 \in pos..(pos + r - 1)
      BY <2>1
    <3>2. \A i : Has(t, i) => i \in K
      BY KeyTyped
    <3>3. \A n \in 1..r : values[n] \in V
      BY <2>8
    <3> QED BY <2>1, <3>1, <3>2, <3>3 DEF IsRun
  <2>11. SetFrom(t, pos, values) \in After(K, V, t)
    BY <2>8, <2>10, SetFromAfter
  <2>12. ASSUME t.frozen PROVE Removed(RemoveKey(t, pos), t, pos, r)
    <3>1. PICK s : s = RemoveKey(t, pos)
      OBVIOUS
    <3>2. Row(s, t, pos, r, values)
      BY <2>8, <2>9, <2>10, <2>12, <3>1, SetFromRow
    <3>3. \A j : Has(s, j) <=> Has(t, j)
      BY <2>1, <3>2 DEF Row, IsRun
    <3>4. ASSUME NEW j
          PROVE  Get(s, j) = IF j \in pos..(pos + r - 2) THEN Get(t, j + 1)
                             ELSE IF j = pos + r - 1 THEN Nil ELSE Get(t, j)
      <4>1. Get(s, j) = IF j \in pos..(pos + r - 1) THEN values[j - pos + 1] ELSE Get(t, j)
        BY <3>2 DEF Row
      <4>2. j \in pos..(pos + r - 1) <=> j \in pos..(pos + r - 2) \/ j = pos + r - 1
        BY <2>2
      <4>3. CASE j \in pos..(pos + r - 2)
        <5>1. j - pos + 1 \in 1..(r - 1) /\ pos + (j - pos + 1) = j + 1
          BY <4>3
        <5> QED BY <2>8, <4>1, <4>2, <4>3, <5>1
      <4>4. CASE j = pos + r - 1
        <5>1. j - pos + 1 = r /\ j \notin pos..(pos + r - 2)
          BY <4>4
        <5> QED BY <2>8, <4>1, <4>2, <4>4, <5>1
      <4>5. CASE j # pos + r - 1 /\ j \notin pos..(pos + r - 2)
        BY <4>1, <4>2, <4>5
      <4> QED BY <4>3, <4>4, <4>5
    <3> QED BY <3>1, <3>3, <3>4 DEF Removed
  <2> QED BY <2>1, <2>9, <2>11, <2>12
<1> QED BY <1>1, <1>2

----------------------------------------------------------------------------
(* Sorting. *)

\* The positions whose values do not follow that of j.
NotAfter(values, j) ==
    {i \in DOMAIN values : values[i] < values[j] \/ (values[i] = values[j] /\ i <= j)}
Rank(values, j) == Cardinality(NotAfter(values, j))

LEMMA Ranks ==
    ASSUME NEW values \in Seq(Nat), NEW N \in Nat, N = Len(values)
    PROVE  /\ \A j \in 1..N : Rank(values, j) \in 1..N
           /\ \A i, j \in 1..N : values[i] < values[j] \/ (values[i] = values[j] /\ i < j)
                                    => Rank(values, i) < Rank(values, j)
<1>1. DOMAIN values = 1..N /\ \A j \in 1..N : values[j] \in Nat
  OBVIOUS
<1>2. IsFiniteSet(1..N) /\ Cardinality(1..N) = N
  <2>1. 1 \in Int /\ N \in Int
    OBVIOUS
  <2>2. IsFiniteSet(1..N) /\ Cardinality(1..N) = IF 1 > N THEN 0 ELSE N - 1 + 1
    BY <2>1, FS_Interval
  <2> QED BY <2>2
<1>3. ASSUME NEW j \in 1..N
      PROVE  j \in NotAfter(values, j) /\ NotAfter(values, j) \in SUBSET (1..N)
  BY <1>1 DEF NotAfter
<1>4. ASSUME NEW j \in 1..N
      PROVE  IsFiniteSet(NotAfter(values, j)) /\ Rank(values, j) \in 1..N
  <2>1. PICK B : B = NotAfter(values, j)
    OBVIOUS
  <2>2. IsFiniteSet(B) /\ Cardinality(B) <= N
    BY <1>2, <1>3, <2>1, FS_Subset
  <2>3. Cardinality(B) \in Nat
    BY <2>2, FS_CardinalityType
  <2>4. Cardinality(B) # 0
    BY <1>3, <2>1, <2>2, FS_EmptySet
  <2> QED BY <2>1, <2>2, <2>3, <2>4 DEF Rank
<1>5. ASSUME NEW i \in 1..N, NEW j \in 1..N, values[i] < values[j] \/ (values[i] = values[j] /\ i < j)
      PROVE  Rank(values, i) < Rank(values, j)
  <2>1. PICK A : A = NotAfter(values, i)
    OBVIOUS
  <2>2. PICK B : B = NotAfter(values, j)
    OBVIOUS
  <2>3. A \in SUBSET B /\ j \in B /\ j \notin A
    BY <1>1, <1>5, <2>1, <2>2 DEF NotAfter
  <2>4. IsFiniteSet(B) /\ A # B
    BY <1>4, <2>2, <2>3
  <2>5. Cardinality(A) <= Cardinality(B) /\ Cardinality(A) # Cardinality(B)
    BY <2>3, <2>4, FS_Subset
  <2>6. Cardinality(A) \in 1..N /\ Cardinality(B) \in 1..N
    BY <1>4, <2>1, <2>2 DEF Rank
  <2>7. Cardinality(A) < Cardinality(B)
    BY <2>5, <2>6
  <2> QED BY <2>1, <2>2, <2>7 DEF Rank
<1> QED BY <1>4, <1>5

\* The position of the value that comes i-th.
Place(values, i) == CHOOSE j \in DOMAIN values : Rank(values, j) = i

LEMMA Places ==
    ASSUME NEW values \in Seq(Nat), NEW N \in Nat, N = Len(values)
    PROVE  /\ \A i \in 1..N : Place(values, i) \in 1..N /\ Rank(values, Place(values, i)) = i
           /\ \A j \in 1..N : Place(values, Rank(values, j)) = j
<1> DEFINE f == [j \in 1..N |-> Rank(values, j)]
<1>1. \A j \in 1..N : Rank(values, j) \in 1..N
  BY Ranks
<1>2. \A i, j \in 1..N : Rank(values, i) = Rank(values, j) => i = j
  <2> SUFFICES ASSUME NEW i \in 1..N, NEW j \in 1..N, i # j PROVE Rank(values, i) # Rank(values, j)
    OBVIOUS
  <2>1. \/ values[i] < values[j] \/ (values[i] = values[j] /\ i < j)
        \/ values[j] < values[i] \/ (values[j] = values[i] /\ j < i)
    OBVIOUS
  <2>2. Rank(values, i) < Rank(values, j) \/ Rank(values, j) < Rank(values, i)
    BY <2>1, Ranks
  <2> QED BY <1>1, <2>2
<1>3. f \in Injection(1..N, 1..N)
  BY <1>1, <1>2 DEF Injection, IsInjective
<1>4. f \in Surjection(1..N, 1..N)
  <2>1. IsFiniteSet(1..N)
    BY FS_Interval
  <2> HIDE DEF f
  <2> QED BY <1>3, <2>1, FS_Injection
<1>5. \A i \in 1..N : \E j \in 1..N : Rank(values, j) = i
  BY <1>4 DEF Surjection
<1>6. DOMAIN values = 1..N
  OBVIOUS
<1>7. \A i \in 1..N : Place(values, i) \in 1..N /\ Rank(values, Place(values, i)) = i
  BY <1>5, <1>6 DEF Place
<1>8. \A j \in 1..N : Place(values, Rank(values, j)) = j
  BY <1>1, <1>2, <1>7
<1> QED BY <1>7, <1>8

\* b has the values of a in order, each as often.
Sorts(b, a) ==
    /\ Len(b) = Len(a) /\ \A i \in 1..(Len(b) - 1) : b[i] <= b[i + 1]
    /\ \A v : Cardinality({i \in DOMAIN a : a[i] = v}) = Cardinality({i \in DOMAIN b : b[i] = v})

LEMMA SortedSorts ==
    ASSUME NEW values \in Seq(Nat)
    PROVE  /\ Sorted(values) \in Seq(Nat) /\ Len(Sorted(values)) = Len(values) /\ Sorts(Sorted(values), values)
           /\ \A i \in 1..Len(values) : \E j \in 1..Len(values) : Sorted(values)[i] = values[j]
<1>1. PICK N \in Nat : N = Len(values)
  OBVIOUS
<1>2. DOMAIN values = 1..N /\ \A j \in 1..N : values[j] \in Nat
  BY <1>1
<1>3. PICK b : b = Sorted(values)
  OBVIOUS
<1>4. b = [i \in 1..N |-> values[Place(values, i)]]
  BY <1>2, <1>3 DEF Sorted, Place, Rank, NotAfter
<1>5. \A i \in 1..N : Place(values, i) \in 1..N /\ Rank(values, Place(values, i)) = i
  BY <1>1, Places
<1>6. b \in Seq(Nat) /\ Len(b) = N /\ DOMAIN b = 1..N /\ \A i \in 1..N : b[i] = values[Place(values, i)]
  BY <1>2, <1>4, <1>5
<1>7. ASSUME NEW i \in 1..(N - 1) PROVE b[i] <= b[i + 1]
  <2>1. i \in 1..N /\ i + 1 \in 1..N
    OBVIOUS
  <2>2. PICK p \in 1..N : p = Place(values, i) /\ Rank(values, p) = i
    BY <1>5, <2>1
  <2>3. PICK q \in 1..N : q = Place(values, i + 1) /\ Rank(values, q) = i + 1
    BY <1>5, <2>1
  <2>4. ~(values[q] < values[p])
    <3>1. values[q] < values[p] => Rank(values, q) < Rank(values, p)
      BY <1>1, Ranks
    <3> QED BY <2>2, <2>3, <3>1
  <2> QED BY <1>2, <1>6, <2>1, <2>2, <2>3, <2>4
<1>8. ASSUME NEW v
      PROVE  Cardinality({i \in 1..N : values[i] = v}) = Cardinality({i \in 1..N : b[i] = v})
  <2> DEFINE A == {i \in 1..N : values[i] = v}
             B == {i \in 1..N : b[i] = v}
             f == [j \in A |-> Rank(values, j)]
  <2>1. \A j \in 1..N : Rank(values, j) \in 1..N /\ Place(values, Rank(values, j)) = j
    BY <1>1, Places, Ranks
  <2>2. \A j \in A : Rank(values, j) \in B
    BY <1>6, <2>1
  <2>3. \A i \in B : Place(values, i) \in A /\ Rank(values, Place(values, i)) = i
    BY <1>5, <1>6
  <2>4. \A i, j \in A : Rank(values, i) = Rank(values, j) => i = j
    BY <2>1
  <2>5. f \in Bijection(A, B)
    <3> HIDE DEF A, B
    <3>1. f \in [A -> B]
      BY <2>2
    <3>2. f \in Injection(A, B)
      BY <2>4, <3>1 DEF Injection, IsInjective
    <3>3. f \in Surjection(A, B)
      BY <2>3, <3>1 DEF Surjection
    <3> QED BY <3>2, <3>3 DEF Bijection
  <2>6. IsFiniteSet(A)
    <3>1. A \in SUBSET (1..N) /\ IsFiniteSet(1..N)
      BY FS_Interval
    <3> HIDE DEF A
    <3> QED BY <3>1, FS_Subset
  <2>7. Cardinality(A) = Cardinality(B)
    <3>1. ExistsBijection(A, B)
      BY <2>5 DEF ExistsBijection
    <3> HIDE DEF A, B
    <3> QED BY <2>6, <3>1, FS_Bijection
  <2> QED BY <2>7
<1> QED BY <1>1, <1>2, <1>3, <1>5, <1>6, <1>7, <1>8 DEF Sorts

\* A sequence over a set is one over a larger set, and a map likewise.
LEMMA SeqWider == ASSUME NEW A, NEW B, A \subseteq B, NEW e \in Seq(A) PROVE e \in Seq(B)
OBVIOUS

LEMMA MapsWider ==
    ASSUME NEW K, NEW V, NEW L, NEW W, K \subseteq L, V \subseteq W, NEW t \in Maps(K, V)
    PROVE  t \in Maps(L, W)
<1>1. Entries(K, V) \subseteq Entries(L, W)
  BY DEF Entries
<1>2. t.entries \in Seq(Entries(L, W))
  BY <1>1, MapShape, SeqWider
<1> QED BY <1>2, MapShape, MapBuilt

\* sort() on a map.
LEMMA SortAfter ==
    ASSUME NEW K \in SUBSET Nat, NEW V \in SUBSET Nat, NEW t \in Maps(K, V), Nil \in V
    PROVE  /\ Sort(t) \in After(K, V, t)
           /\ t.frozen => /\ Sorts(Ipairs(Sort(t), 1), Ipairs(t, 1))
                          /\ \A k : k \notin 1..Len(Ipairs(t, 1)) => Get(Sort(t), k) = Get(t, k)
<1>1. PICK a : a = Ipairs(t, 1)
  OBVIOUS
<1>2. PICK r \in Nat : r = RunFrom(t, 1) /\ IsRun(t, 1, r)
  BY RunFound DEF IsRun
<1>3. t \in Maps(Nat, V) /\ 1 \in Nat
  BY MapsWider
<1>4. a \in Seq(V) /\ Len(a) = r
  BY <1>1, <1>2, <1>3, IpairsRuns
<1>5. a \in Seq(Nat)
  BY <1>4, SeqWider
<1>6. PICK values : values = Sorted(a)
  OBVIOUS
<1>7. /\ values \in Seq(Nat) /\ Len(values) = r /\ Sorts(values, a)
      /\ \A i \in 1..r : \E j \in 1..r : values[i] = a[j]
  BY <1>4, <1>5, <1>6, SortedSorts
<1>8. \A i \in 1..r : values[i] \in V
  BY <1>4, <1>7
<1>9. \A i \in 1..r : 1 + i - 1 = i /\ i \in K
  <2>1. \A i \in 1..r : i \in 1..(1 + r - 1) /\ 1 + i - 1 = i
    OBVIOUS
  <2>2. \A i \in 1..r : Has(t, i)
    BY <1>2, <2>1 DEF IsRun
  <2> QED BY <2>1, <2>2, KeyTyped
<1>10. PICK s : s = Sort(t)
  OBVIOUS
<1>11. s = SetFrom(t, 1, values)
  BY <1>1, <1>6, <1>10 DEF Sort
<1>12. s \in After(K, V, t)
  BY <1>7, <1>8, <1>9, <1>11, SetFromAfter
<1>13. ASSUME t.frozen
       PROVE  Sorts(Ipairs(s, 1), a) /\ \A k : k \notin 1..r => Get(s, k) = Get(t, k)
  <2>1. Row(s, t, 1, r, values)
    <3>1. \A n \in 1..Len(values) : 1 + n - 1 \in K /\ values[n] \in V
      BY <1>7, <1>8, <1>9
    <3>2. Row(SetFrom(t, 1, values), t, 1, Len(values), values)
      BY <1>3, <1>7, <1>13, <3>1, SetFromRow
    <3> QED BY <1>7, <1>11, <3>2
  <2>2. 1..(1 + r - 1) = 1..r
    OBVIOUS
  <2>3. s \in Maps(K, V) /\ s \in Maps(Nat, V)
    BY <1>12, MapsWider DEF After
  <2>4. \A j : Has(s, j) <=> Has(t, j)
    BY <1>2, <2>1, <2>2 DEF Row, IsRun
  <2>5. RunFrom(s, 1) = r
    BY <1>2, <1>3, <2>3, <2>4, SameRuns
  <2>6. PICK b : b = Ipairs(s, 1)
    OBVIOUS
  <2>7. b = [i \in 1..r |-> Get(s, 1 + i - 1)]
    BY <2>5, <2>6 DEF Ipairs
  <2>8. \A i \in 1..r : Get(s, 1 + i - 1) = values[i]
    BY <1>9, <2>1, <2>2 DEF Row
  <2>9. b = values
    BY <1>7, <2>7, <2>8
  <2> QED BY <1>7, <2>1, <2>2, <2>6, <2>9 DEF Row
<1> QED BY <1>1, <1>4, <1>10, <1>12, <1>13

----------------------------------------------------------------------------
(* Moving. *)

LEMMA Wraps ==
    ASSUME NEW x \in Nat, NEW d \in Nat, d > 0, x >= d
    PROVE  x % d = (x - d) % d
<1>1. PICK y \in Nat : y = x - d
  OBVIOUS
<1>2. PICK q \in Int : y = d * q + (y % d)
  <2>1. y \div d \in Int
    OBVIOUS
  <2>2. y = d * (y \div d) + (y % d)
    OBVIOUS
  <2> QED BY <2>1, <2>2
<1>3. y % d \in 0..(d - 1)
  OBVIOUS
<1>4. PICK r \in 0..(d - 1) : r = y % d
  BY <1>3
<1>5. x = d * (q + 1) + r
  BY <1>1, <1>2, <1>4
<1>6. \A p \in Int : x = d * p + r => x % d = r
  OBVIOUS
<1>7. x % d = r
  BY <1>5, <1>6
<1> QED BY <1>1, <1>4, <1>7

\* What move() within one table, or from another one, leaves.
LEMMA MoveSets ==
    ASSUME NEW V, NEW t \in Maps(Nat, V), t.frozen, NEW src \in Maps(Nat, V), NEW own \in BOOLEAN, own => src = t,
           Nil \in V, NEW a \in Nat, NEW b \in Nat, NEW k \in Nat, NEW i \in a..b
    PROVE  Get(Move(t, src, own, a, b, k), k + i - a) =
               IF own /\ a < k /\ k <= b THEN Get(t, a + ((i - a) % (k - a))) ELSE Get(src, i)
<1>1. PICK N \in Nat : N = Steps(a, b) /\ N = b - a + 1
  BY DEF Steps
<1>2. PICK e : e = [n \in 1..N |-> IF own /\ a < k /\ k <= b THEN Get(t, a + ((n - 1) % (k - a)))
                                  ELSE Get(src, a + n - 1)]
  OBVIOUS
<1>3. ASSUME NEW n \in 1..N, NEW s \in Maps(Nat, V), Row(s, t, k, n - 1, e)
      PROVE  Get(IF own THEN s ELSE src, a + n - 1) = e[n]
  <2>1. \A j : Get(s, j) = IF j \in k..(k + (n - 1) - 1) THEN e[j - k + 1] ELSE Get(t, j)
    BY <1>3 DEF Row
  <2>2. CASE ~own
    BY <1>2, <2>2
  <2>3. CASE own /\ ~(a < k /\ k <= b)
    <3>1. a + n - 1 \notin k..(k + (n - 1) - 1)
      BY <1>1, <2>3
    <3> QED BY <1>2, <2>1, <2>3, <3>1
  <2>4. CASE own /\ a < k /\ k <= b /\ n - 1 < k - a
    <3>1. a + n - 1 \notin k..(k + (n - 1) - 1)
      BY <2>4
    <3>2. n - 1 \in Nat /\ k - a \in Nat /\ k - a > 0
      BY <2>4
    <3>3. (n - 1) % (k - a) = n - 1
      <4> DEFINE x == n - 1
                 d == k - a
      <4>1. x \in Nat /\ d \in Nat /\ d > 0 /\ x < d
        BY <2>4, <3>2
      <4> HIDE DEF x, d
      <4>2. x % d = x
        BY <4>1
      <4> QED BY <4>2 DEF x, d
    <3>4. e[n] = Get(t, a + (n - 1))
      BY <1>2, <2>4, <3>3
    <3>5. a + (n - 1) = a + n - 1
      OBVIOUS
    <3> QED BY <2>1, <2>4, <3>1, <3>4, <3>5
  <2>5. CASE own /\ a < k /\ k <= b /\ n - 1 >= k - a
    <3>1. PICK d \in Nat : d = k - a /\ d > 0
      BY <2>5
    <3>2. PICK m \in 1..N : m = n - d
      BY <2>5, <3>1
    <3>3. a + n - 1 \in k..(k + (n - 1) - 1) /\ (a + n - 1) - k + 1 = m
      BY <2>5, <3>1, <3>2
    <3>4. Get(s, a + n - 1) = e[m]
      BY <2>1, <3>3
    <3>5. (n - 1) % d = (m - 1) % d
      <4>1. PICK x \in Nat : x = n - 1 /\ x >= d /\ x - d = m - 1
        BY <2>5, <3>1, <3>2
      <4>2. x % d = (x - d) % d
        BY <3>1, <4>1, Wraps
      <4> QED BY <4>1, <4>2
    <3>6. e[m] = Get(t, a + ((m - 1) % d)) /\ e[n] = Get(t, a + ((n - 1) % d))
      BY <1>2, <2>5, <3>1
    <3> QED BY <2>5, <3>4, <3>5, <3>6
  <2> QED BY <2>2, <2>3, <2>4, <2>5
<1>4. \A n \in 1..Steps(a, b) : k + n - 1 \in Nat
  OBVIOUS
<1>5. \A n \in 1..Steps(a, b), s \in Maps(Nat, V) :
          Row(s, t, k, n - 1, e) => Get(IF own THEN s ELSE src, a + n - 1) = e[n]
  BY <1>1, <1>3
<1>6. Row(Move(t, src, own, a, b, k), t, k, N, e)
  <2>1. Row(Move(t, src, own, a, b, k), t, k, Steps(a, b), e)
    BY <1>4, <1>5, MoveRow
  <2> QED BY <1>1, <2>1
<1>7. i - a + 1 \in 1..N /\ k + i - a \in k..(k + N - 1) /\ (k + i - a) - k + 1 = i - a + 1
  BY <1>1
<1>8. Get(Move(t, src, own, a, b, k), k + i - a) = e[i - a + 1]
  BY <1>6, <1>7 DEF Row
<1>9. (i - a + 1) - 1 = i - a /\ a + (i - a + 1) - 1 = i
  OBVIOUS
<1> QED BY <1>2, <1>7, <1>8, <1>9

----------------------------------------------------------------------------
(* The bytes that concat() writes. *)

\* A sum over the numbers 1..n for each n.
LEMMA SumLoop ==
    ASSUME NEW lens \in Seq(Nat), NEW sep \in Nat, NEW N \in Nat, N = Len(lens)
    PROVE  \E g \in [0..N -> Nat] :
              /\ g[0] = 0 /\ \A n \in 1..N : g[n] = g[n - 1] + lens[n]
              /\ Reserved(lens, sep) = g[N] + IF lens = <<>> THEN 0 ELSE sep * (N - 1)
<1> DEFINE Is(g) == g = [n \in 0..N |-> IF n = 0 THEN 0 ELSE g[n - 1] + lens[n]]
           s == CHOOSE g : Is(g)
           F == [n \in 1..N |-> [x \in Nat |-> x + lens[n]]]
<1>1. \A n \in 1..N : lens[n] \in Nat /\ n - 1 \in 0..N /\ n \in 0..N /\ n # 0
  OBVIOUS
<1>2. F \in [1..N -> [Nat -> Nat]]
  <2>1. \A n \in 1..N, x \in Nat : x + lens[n] \in Nat
    BY <1>1
  <2> QED BY <2>1
<1>3. PICK g \in [0..N -> Nat] : Takes(g, N, 0, F)
  <2>1. 0 \in Nat
    OBVIOUS
  <2> HIDE DEF F
  <2> QED BY <1>2, <2>1, Iterated
<1>4. g[0] = 0 /\ \A n \in 1..N : g[n] = g[n - 1] + lens[n]
  <2>1. g[0] = 0 /\ \A n \in 1..N : g[n] = F[n][g[n - 1]]
    <3> HIDE DEF F
    <3> QED BY <1>3 DEF Takes
  <2>2. \A n \in 1..N : g[n - 1] \in Nat
    BY <1>1
  <2> QED BY <2>1, <2>2
<1>5. Is(g)
  <2>1. g = [n \in 0..N |-> g[n]] /\ \A n \in 0..N : n = 0 \/ n \in 1..N
    OBVIOUS
  <2> QED BY <1>4, <2>1
<1>6. Is(s)
  <2> HIDE DEF Is
  <2> QED BY <1>5
<1>7. Reserved(lens, sep) = s[N] + IF lens = <<>> THEN 0 ELSE sep * (N - 1)
  BY DEF Reserved
<1> HIDE DEF s
<1>8. s[0] = 0 /\ \A n \in 1..N : s[n] = s[n - 1] + lens[n]
  <2>1. s = [n \in 0..N |-> IF n = 0 THEN 0 ELSE s[n - 1] + lens[n]]
    BY <1>6
  <2>2. 0 \in 0..N
    OBVIOUS
  <2>3. s[0] = 0
    BY <2>1, <2>2
  <2>4. \A n \in 1..N : s[n] = s[n - 1] + lens[n]
    BY <1>1, <2>1
  <2> QED BY <2>3, <2>4
<1>9. DOMAIN s = 0..N /\ s = [n \in 0..N |-> s[n]]
  BY <1>6
<1>10. {n \in 0..N : s[n] \in Nat} = 0..N
  <2> DEFINE T == {n \in 0..N : s[n] \in Nat}
  <2>1. T \in SUBSET (0..N) /\ 0 \in T
    BY <1>8
  <2>2. \A n \in 1..N : n - 1 \in T => n \in T
    BY <1>1, <1>8
  <2> HIDE DEF T
  <2>3. T = 0..N
    BY <2>1, <2>2, Counting
  <2> QED BY <2>3 DEF T
<1>11. s \in [0..N -> Nat]
  BY <1>9, <1>10
<1> QED BY <1>7, <1>8, <1>11

LEMMA WriteLoop ==
    ASSUME NEW lens \in Seq(Nat), NEW sep \in Nat, NEW N \in Nat, N = Len(lens)
    PROVE  \E g \in [0..N -> Nat] :
              /\ g[0] = 0 /\ \A n \in 1..N : g[n] = g[n - 1] + (IF g[n - 1] = 0 THEN 0 ELSE sep) + lens[n]
              /\ Written(lens, sep) = g[N]
<1> DEFINE Is(g) == g = [n \in 0..N |-> IF n = 0 THEN 0 ELSE g[n - 1] + (IF g[n - 1] = 0 THEN 0 ELSE sep) + lens[n]]
           s == CHOOSE g : Is(g)
           F == [n \in 1..N |-> [x \in Nat |-> x + (IF x = 0 THEN 0 ELSE sep) + lens[n]]]
<1>1. \A n \in 1..N : lens[n] \in Nat /\ n - 1 \in 0..N /\ n \in 0..N /\ n # 0
  OBVIOUS
<1>2. F \in [1..N -> [Nat -> Nat]]
  <2>1. \A n \in 1..N, x \in Nat : x + (IF x = 0 THEN 0 ELSE sep) + lens[n] \in Nat
    BY <1>1
  <2> QED BY <2>1
<1>3. PICK g \in [0..N -> Nat] : Takes(g, N, 0, F)
  <2>1. 0 \in Nat
    OBVIOUS
  <2> HIDE DEF F
  <2> QED BY <1>2, <2>1, Iterated
<1>4. g[0] = 0 /\ \A n \in 1..N : g[n] = g[n - 1] + (IF g[n - 1] = 0 THEN 0 ELSE sep) + lens[n]
  <2>1. g[0] = 0 /\ \A n \in 1..N : g[n] = F[n][g[n - 1]]
    <3> HIDE DEF F
    <3> QED BY <1>3 DEF Takes
  <2>2. \A n \in 1..N : g[n - 1] \in Nat
    BY <1>1
  <2> QED BY <2>1, <2>2
<1>5. Is(g)
  <2>1. g = [n \in 0..N |-> g[n]] /\ \A n \in 0..N : n = 0 \/ n \in 1..N
    OBVIOUS
  <2> QED BY <1>4, <2>1
<1>6. Is(s)
  <2> HIDE DEF Is
  <2> QED BY <1>5
<1>7. Written(lens, sep) = s[N]
  BY DEF Written
<1> HIDE DEF s
<1>8. s[0] = 0 /\ \A n \in 1..N : s[n] = s[n - 1] + (IF s[n - 1] = 0 THEN 0 ELSE sep) + lens[n]
  <2>1. s = [n \in 0..N |-> IF n = 0 THEN 0 ELSE s[n - 1] + (IF s[n - 1] = 0 THEN 0 ELSE sep) + lens[n]]
    BY <1>6
  <2>2. 0 \in 0..N
    OBVIOUS
  <2>3. s[0] = 0
    BY <2>1, <2>2
  <2>4. \A n \in 1..N : s[n] = s[n - 1] + (IF s[n - 1] = 0 THEN 0 ELSE sep) + lens[n]
    BY <1>1, <2>1
  <2> QED BY <2>3, <2>4
<1>9. DOMAIN s = 0..N /\ s = [n \in 0..N |-> s[n]]
  BY <1>6
<1>10. {n \in 0..N : s[n] \in Nat} = 0..N
  <2> DEFINE T == {n \in 0..N : s[n] \in Nat}
  <2>1. T \in SUBSET (0..N) /\ 0 \in T
    BY <1>8
  <2>2. \A n \in 1..N : n - 1 \in T => n \in T
    BY <1>1, <1>8
  <2> HIDE DEF T
  <2>3. T = 0..N
    BY <2>1, <2>2, Counting
  <2> QED BY <2>3 DEF T
<1>11. s \in [0..N -> Nat]
  BY <1>9, <1>10
<1> QED BY <1>7, <1>8, <1>11

\* The leading empty strings.
Leading(lens) == {i \in DOMAIN lens : \A j \in 1..i : lens[j] = 0}

LEMMA LeadingCount ==
    ASSUME NEW lens \in Seq(Nat), NEW N \in Nat, N = Len(lens)
    PROVE  \E m \in 0..N : /\ Cardinality(Leading(lens)) = m
                           /\ (Leading(lens) = DOMAIN lens) <=> m = N
                           /\ \A i \in 1..m : lens[i] = 0
                           /\ m < N => lens[m + 1] > 0
<1>1. DOMAIN lens = 1..N /\ \A i \in 1..N : lens[i] \in Nat
  OBVIOUS
<1> DEFINE T == {i \in 1..N : lens[i] # 0}
<1>2. CASE T = {}
  <2>1. Leading(lens) = 1..N
    <3>1. \A i \in 1..N : \A j \in 1..i : j \in 1..N
      OBVIOUS
    <3> QED BY <1>1, <1>2, <3>1 DEF Leading
  <2>2. Cardinality(1..N) = N
    <3>1. 1 \in Int /\ N \in Int
      OBVIOUS
    <3>2. Cardinality(1..N) = IF 1 > N THEN 0 ELSE N - 1 + 1
      BY <3>1, FS_Interval
    <3> QED BY <3>2
  <2> QED BY <1>1, <1>2, <2>1, <2>2
<1>3. CASE T # {}
  <2>1. T \in SUBSET Nat
    OBVIOUS
  <2>2. PICK f \in T : \A i \in T : f <= i
    <3> HIDE DEF T
    <3> QED BY <1>3, <2>1, LeastNatural
  <2>3. PICK m \in Nat : m = f - 1 /\ m < N /\ f = m + 1
    OBVIOUS
  <2>4. lens[m + 1] > 0
    BY <1>1, <2>2, <2>3
  <2>5. \A i \in 1..m : lens[i] = 0
    <3>1. \A i \in 1..m : i \in 1..N /\ ~(f <= i)
      BY <2>3
    <3> QED BY <1>1, <2>2, <3>1
  <2>6. Leading(lens) = 1..m
    <3>1. \A i \in 1..m : i \in 1..N /\ \A j \in 1..i : j \in 1..m
      BY <2>3
    <3>2. \A i \in 1..N : i \in 1..m \/ f \in 1..i
      BY <2>3
    <3>3. lens[f] # 0
      BY <2>2
    <3> QED BY <1>1, <2>5, <3>1, <3>2, <3>3 DEF Leading
  <2>7. Cardinality(1..m) = m
    <3>1. 1 \in Int /\ m \in Int
      OBVIOUS
    <3>2. Cardinality(1..m) = IF 1 > m THEN 0 ELSE m - 1 + 1
      BY <3>1, FS_Interval
    <3> QED BY <3>2
  <2>8. 1..m # 1..N /\ m \in 0..N /\ m # N
    BY <2>3
  <2> QED BY <1>1, <2>4, <2>5, <2>6, <2>7, <2>8
<1> QED BY <1>2, <1>3

\* concat(): what it writes is what it reserved, but for the separators it
\* leaves out while nothing has been written.
LEMMA ConcatWrites ==
    ASSUME NEW lens \in Seq(Nat), NEW sep \in Nat
    PROVE  Written(lens, sep) = Reserved(lens, sep)
               - sep * (IF Leading(lens) = DOMAIN lens /\ lens # <<>> THEN Len(lens) - 1 ELSE Cardinality(Leading(lens)))
<1>1. PICK N \in Nat : N = Len(lens)
  OBVIOUS
<1>2. /\ (lens = <<>>) <=> N = 0
      /\ \A n \in 1..N : lens[n] \in Nat
  BY <1>1
<1>3. PICK m \in 0..N : /\ Cardinality(Leading(lens)) = m
                        /\ (Leading(lens) = DOMAIN lens) <=> m = N
                        /\ \A i \in 1..m : lens[i] = 0
                        /\ m < N => lens[m + 1] > 0
  BY <1>1, LeadingCount
<1>4. PICK g \in [0..N -> Nat] :
              /\ g[0] = 0 /\ \A n \in 1..N : g[n] = g[n - 1] + lens[n]
              /\ Reserved(lens, sep) = g[N] + IF lens = <<>> THEN 0 ELSE sep * (N - 1)
  BY <1>1, SumLoop
<1>5. PICK w \in [0..N -> Nat] :
              /\ w[0] = 0 /\ \A n \in 1..N : w[n] = w[n - 1] + (IF w[n - 1] = 0 THEN 0 ELSE sep) + lens[n]
              /\ Written(lens, sep) = w[N]
  BY <1>1, WriteLoop
<1>6. \A n \in 1..N : n \in 0..N /\ n - 1 \in 0..N
  OBVIOUS
<1> DEFINE T == {n \in 0..N : IF n <= m THEN g[n] = 0 /\ w[n] = 0
                              ELSE w[n] > 0 /\ w[n] = g[n] + sep * (n - m - 1)}
<1>7. 0 \in T
  BY <1>4, <1>5
<1>8. ASSUME NEW n \in 1..N, n - 1 \in T PROVE n \in T
  <2>1. /\ g[n] = g[n - 1] + lens[n] /\ g[n - 1] \in Nat /\ lens[n] \in Nat /\ w[n - 1] \in Nat
        /\ w[n] = w[n - 1] + (IF w[n - 1] = 0 THEN 0 ELSE sep) + lens[n]
    BY <1>2, <1>4, <1>5, <1>6
  <2>2. CASE n <= m
    <3>1. n \in 1..m /\ n - 1 <= m
      BY <2>2
    <3>2. lens[n] = 0 /\ g[n - 1] = 0 /\ w[n - 1] = 0
      BY <1>3, <1>8, <3>1
    <3> QED BY <1>6, <2>1, <2>2, <3>2
  <2>3. CASE n = m + 1
    <3>1. g[n - 1] = 0 /\ w[n - 1] = 0 /\ lens[n] > 0
      BY <1>3, <1>8, <2>3
    <3>2. sep * (n - m - 1) = 0
      BY <2>3
    <3> QED BY <1>6, <2>1, <2>3, <3>1, <3>2
  <2>4. CASE n > m + 1
    <3>1. w[n - 1] > 0 /\ w[n - 1] = g[n - 1] + sep * ((n - 1) - m - 1)
      BY <1>8, <2>4
    <3>2. sep * ((n - 1) - m - 1) + sep = sep * (n - m - 1)
      OBVIOUS
    <3>3. sep * (n - m - 1) \in Nat /\ sep * ((n - 1) - m - 1) \in Nat
      BY <2>4
    <3>4. w[n - 1] # 0
      BY <2>1, <3>1
    <3>5. PICK x \in Nat : x = w[n - 1]
      BY <2>1
    <3>6. PICK y \in Nat : y = lens[n]
      BY <2>1
    <3>7. PICK z \in Nat : z = g[n - 1]
      BY <2>1
    <3>8. PICK p \in Nat : p = sep * ((n - 1) - m - 1)
      BY <3>3
    <3>9. w[n] = x + sep + y /\ x > 0 /\ x = z + p /\ g[n] = z + y
      BY <2>1, <3>1, <3>4, <3>5, <3>6, <3>7, <3>8
    <3>10. sep * (n - m - 1) = p + sep
      BY <3>2, <3>8
    <3>11. w[n] > 0 /\ w[n] = g[n] + (p + sep)
      BY <3>9
    <3> QED BY <1>6, <2>4, <3>10, <3>11
  <2> QED BY <2>2, <2>3, <2>4
<1>9. N \in T
  <2>1. T \in SUBSET (0..N)
    OBVIOUS
  <2> HIDE DEF T
  <2>2. T = 0..N
    BY <1>7, <1>8, <2>1, Counting
  <2> QED BY <2>2
<1>10. CASE m = N
  <2>1. w[N] = 0 /\ g[N] = 0
    BY <1>9, <1>10
  <2>2. CASE N = 0
    BY <1>2, <1>3, <1>4, <1>5, <1>10, <2>1, <2>2
  <2>3. CASE N # 0
    <3>1. sep * (N - 1) \in Nat
      BY <2>3
    <3> QED BY <1>1, <1>2, <1>3, <1>4, <1>5, <1>10, <2>1, <2>3, <3>1
  <2> QED BY <2>2, <2>3
<1>11. CASE m < N
  <2>1. w[N] = g[N] + sep * (N - m - 1) /\ N # 0 /\ g[N] \in Nat
    BY <1>9, <1>11
  <2>2. sep * (N - m - 1) = sep * (N - 1) - sep * m
    OBVIOUS
  <2>3. sep * (N - 1) \in Int /\ sep * m \in Int
    OBVIOUS
  <2>4. Written(lens, sep) = (g[N] + sep * (N - 1)) - sep * m
    BY <1>5, <2>1, <2>2, <2>3
  <2> QED BY <1>2, <1>3, <1>4, <1>11, <2>1, <2>4
<1> QED BY <1>10, <1>11

----------------------------------------------------------------------------
(* The invariant. *)

\* foreach has visited the first entries in order, unless its callback cleared.
Looping ==
    /\ it \in [on : Tables \cup {NoTable}, idx : Nat, seen : Seq(Keys), cleared : BOOLEAN]
    /\ it.on = NoTable => it = NoLoop
    /\ it.on # NoTable /\ ~it.cleared =>
          /\ Len(it.seen) = it.idx /\ it.idx \in 1..Len(tables[it.on].entries)
          /\ \A i \in 1..it.idx : it.seen[i] = tables[it.on].entries[i].key

IInv ==
    /\ dev \in Builds /\ status \in {"ok", "trap", "hang"}
    /\ tables \in [Tables -> Maps(Keys, Values \cup {Nil})]
    /\ Looping

LEMMA Ranges ==
    /\ Keys \in SUBSET Nat /\ NameKey \in Keys /\ 1 \in Keys
    /\ Values \cup {Nil} \in SUBSET Nat /\ Nil \in Values \cup {Nil}
    /\ \A k \in Keys, i \in Nat : i <= k => i \in Keys
BY KeysAssumption, ValuesAssumption DEF NameKey, Nil

LEMMA InitHolds == Init => IInv
<1> SUFFICES ASSUME Init PROVE IInv
  OBVIOUS
<1>1. Table \in Maps(Keys, Values \cup {Nil})
  BY DEF Table, Maps
<1>2. tables \in [Tables -> Maps(Keys, Values \cup {Nil})]
  BY <1>1 DEF Init
<1>3. Looping
  <2>1. it = NoLoop
    BY DEF Init
  <2>2. <<>> \in Seq(Keys)
    OBVIOUS
  <2> QED BY <2>1, <2>2 DEF Looping, NoLoop
<1> QED BY <1>2, <1>3 DEF Init, IInv

\* The table that a call leaves keeps the entries a foreach has been at.
LEMMA ApplyHolds ==
    ASSUME IInv, NEW n \in Tables, NEW r \in Maps(Keys, Values \cup {Nil}), NEW w, Apply(n, r, w),
           it.on = n => /\ Len(r.entries) >= Len(tables[n].entries)
                        /\ \A i \in 1..Len(tables[n].entries) : r.entries[i].key = tables[n].entries[i].key
    PROVE  IInv'
<1>1. CASE w /\ dev /\ tables[n].frozen
  BY <1>1 DEF IInv, Looping, Apply
<1>2. CASE ~(w /\ dev /\ tables[n].frozen)
  <2>1. tables' = [tables EXCEPT ![n] = r] /\ UNCHANGED <<dev, it, status>>
    BY <1>2 DEF Apply
  <2>2. tables' \in [Tables -> Maps(Keys, Values \cup {Nil})]
    BY <2>1 DEF IInv
  <2>3. Looping'
    <3>1. CASE it.on = n
      <4>1. tables'[n] = r
        BY <2>1 DEF IInv
      <4>2. Len(tables[n].entries) \in Nat /\ Len(r.entries) \in Nat
        BY MapShape DEF IInv
      <4>3. n # NoTable
        BY TablesAssumption
      <4>4. \A x \in 1..Len(tables[n].entries) : x \in 1..Len(r.entries)
        BY <3>1, <4>2
      <4>5. it.idx \in Nat
        BY DEF IInv, Looping
      <4>6. it.idx \in 1..Len(tables[n].entries) => \A i \in 1..it.idx : i \in 1..Len(tables[n].entries)
        BY <4>2, <4>5
      <4> QED BY <2>1, <3>1, <4>1, <4>3, <4>4, <4>6 DEF IInv, Looping
    <3>2. CASE it.on # n
      <4>1. it.on # NoTable => tables'[it.on] = tables[it.on]
        BY <2>1, <3>2 DEF IInv, Looping
      <4> QED BY <2>1, <4>1 DEF IInv, Looping
    <3> QED BY <3>1, <3>2
  <2> QED BY <2>1, <2>2, <2>3 DEF IInv
<1> QED BY <1>1, <1>2

----------------------------------------------------------------------------
(* Steps. *)

\* A member function leaves a table that comes after the one it was called on.
LEMMA AfterHolds ==
    ASSUME IInv, NEW n \in Tables, NEW r \in After(Keys, Values \cup {Nil}, tables[n]), NEW w, Apply(n, r, w)
    PROVE  IInv'
BY ApplyHolds DEF After, Later

LEMMA SetStep ==
    ASSUME IInv, NEW n \in Tables, NEW k \in Keys, NEW v \in Values, SetKey(n, k, v)
    PROVE  IInv'
<1>1. tables[n] \in Maps(Keys, Values \cup {Nil})
  BY DEF IInv
<1>2. Set(tables[n], k, v) \in After(Keys, Values \cup {Nil}, tables[n])
  BY <1>1, SetSets DEF After
<1> QED BY <1>2, AfterHolds DEF SetKey

LEMMA InsertStep ==
    ASSUME IInv, NEW n \in Tables, NEW k \in Keys, NEW v \in Values, InsertAtKey(n, k, v)
    PROVE  IInv'
<1>1. tables[n] \in Maps(Keys, Values \cup {Nil})
  BY DEF IInv
<1>2. Insert(tables[n], k, v) \in After(Keys, Values \cup {Nil}, tables[n])
  BY <1>1, Ranges, InsertAfter
<1> QED BY <1>2, AfterHolds DEF InsertAtKey

LEMMA InsertLastStep ==
    ASSUME IInv, NEW n \in Tables, NEW v \in Values, InsertLast(n, v)
    PROVE  IInv'
<1>1. tables[n] \in Maps(Keys, Values \cup {Nil})
  BY DEF IInv
<1>2. PICK k \in Keys : k = ArrLen(tables[n]) + 1
  BY DEF InsertLast
<1>3. InsertEnd(tables[n], v) = Set(tables[n], k, v)
  BY <1>2 DEF InsertEnd
<1>4. InsertEnd(tables[n], v) \in After(Keys, Values \cup {Nil}, tables[n])
  BY <1>1, <1>3, SetSets DEF After
<1> QED BY <1>4, AfterHolds DEF InsertLast

LEMMA RemoveStep ==
    ASSUME IInv, NEW n \in Tables, NEW k \in Keys, Remove1(n, k)
    PROVE  IInv'
<1>1. tables[n] \in Maps(Keys, Values \cup {Nil}) /\ k \in Nat
  BY Ranges DEF IInv
<1>2. RemoveKey(tables[n], k) \in After(Keys, Values \cup {Nil}, tables[n])
  BY <1>1, Ranges, RemoveAfter
<1> QED BY <1>2, AfterHolds DEF Remove1

LEMMA SortStep ==
    ASSUME IInv, NEW n \in Tables, SortArray(n)
    PROVE  IInv'
<1>1. tables[n] \in Maps(Keys, Values \cup {Nil})
  BY DEF IInv
<1>2. Sort(tables[n]) \in After(Keys, Values \cup {Nil}, tables[n])
  BY <1>1, Ranges, SortAfter
<1> QED BY <1>2, AfterHolds DEF SortArray

LEMMA MoveStep ==
    ASSUME IInv, NEW n \in Tables, NEW m \in Tables, NEW a \in Keys, NEW b \in Keys, NEW k \in Keys,
           MoveRange(n, m, a, b, k)
    PROVE  IInv'
<1>1. tables[n] \in Maps(Keys, Values \cup {Nil}) /\ tables[m] \in Maps(Keys, Values \cup {Nil})
  BY DEF IInv
<1>2. a \in Nat /\ b \in Nat /\ k \in Nat /\ k + b - a \in Keys
  BY Ranges DEF MoveRange
<1>3. \A i \in 1..Steps(a, b) : k + i - 1 \in Keys
  <2>1. \A i \in 1..Steps(a, b) : k + i - 1 \in Nat /\ k + i - 1 <= k + b - a
    BY <1>2 DEF Steps
  <2> QED BY <1>2, <2>1, Ranges
<1>4. (n = m) \in BOOLEAN
  OBVIOUS
<1>5. Move(tables[n], tables[m], n = m, a, b, k) \in After(Keys, Values \cup {Nil}, tables[n])
  BY <1>1, <1>2, <1>3, <1>4, Ranges, MoveAfter
<1> QED BY <1>5, AfterHolds DEF MoveRange

LEMMA FreezeStep ==
    ASSUME IInv, NEW n \in Tables, NEW on \in BOOLEAN, Freeze(n, on)
    PROVE  IInv'
<1>1. tables[n] \in Maps(Keys, Values \cup {Nil})
  BY DEF IInv
<1>2. PICK r : r = [tables[n] EXCEPT !.frozen = on]
  OBVIOUS
<1>3. r \in Maps(Keys, Values \cup {Nil}) /\ r.entries = tables[n].entries
  BY <1>1, <1>2 DEF Maps
<1>4. Len(tables[n].entries) \in Nat
  BY <1>1, MapShape
<1>5. Apply(n, r, FALSE)
  BY <1>2 DEF Freeze
<1>6. \A i \in 1..Len(tables[n].entries) : r.entries[i].key = tables[n].entries[i].key
  BY <1>3
<1>7. Len(r.entries) >= Len(tables[n].entries)
  BY <1>3, <1>4
<1> QED BY <1>3, <1>5, <1>6, <1>7, ApplyHolds

LEMMA ConstructStep ==
    ASSUME IInv, NEW n \in Tables, Construct(n)
    PROVE  IInv'
<1>1. it.on # n
  BY DEF Construct
<1>2. ASSUME NEW r \in Maps(Keys, Values \cup {Nil}), Apply(n, r, FALSE)
      PROVE  IInv'
  BY <1>1, <1>2, ApplyHolds
<1>3. CASE \E m \in Tables : Apply(n, tables[m], FALSE)
  BY <1>2, <1>3 DEF IInv
<1>4. CASE \E m \in Tables : Apply(n, Clone(tables[m]), FALSE)
  <2>1. PICK m \in Tables : Apply(n, Clone(tables[m]), FALSE)
    BY <1>4
  <2>2. Clone(tables[m]) \in Maps(Keys, Values \cup {Nil})
    BY CloneTyped DEF IInv
  <2> QED BY <1>2, <2>1, <2>2
<1>5. CASE \E c \in 0..1, v \in Values : Apply(n, Create(c, v), FALSE)
  <2>1. PICK c \in 0..1, v \in Values : Apply(n, Create(c, v), FALSE)
    BY <1>5
  <2>2. PICK values : values = [i \in 1..c |-> v]
    OBVIOUS
  <2>3. Len(values) = c /\ \A i \in 1..c : values[i] \in Values \cup {Nil} /\ 1 + i - 1 = 1
    BY <2>2
  <2>4. Table \in Maps(Keys, Values \cup {Nil})
    BY DEF Table, Maps
  <2>5. Create(c, v) \in Maps(Keys, Values \cup {Nil})
    BY <2>2, <2>3, <2>4, Ranges, SetFromAfter DEF Create, After
  <2> QED BY <1>2, <2>1, <2>5
<1> QED BY <1>3, <1>4, <1>5 DEF Construct

LEMMA ClearStep ==
    ASSUME IInv, NEW n \in Tables, ClearTable(n)
    PROVE  IInv'
<1>1. CASE dev /\ tables[n].frozen
  BY <1>1 DEF ClearTable, IInv, Looping
<1>2. CASE ~(dev /\ tables[n].frozen) /\ ~tables[n].frozen
  <2>1. Clear(tables[n]) = tables[n]
    BY <1>2 DEF Clear
  <2>2. tables' = tables /\ UNCHANGED <<dev, status, it>>
    BY <1>2, <2>1 DEF ClearTable, IInv
  <2> QED BY <2>2 DEF IInv, Looping
<1>3. CASE ~(dev /\ tables[n].frozen) /\ tables[n].frozen
  <2>1. PICK r : r = [tables[n] EXCEPT !.entries = <<>>]
    OBVIOUS
  <2>2. r \in Maps(Keys, Values \cup {Nil})
    <3>1. PICK t \in Maps(Keys, Values \cup {Nil}) : t = tables[n]
      BY DEF IInv
    <3>2. r = [entries |-> <<>>, frozen |-> t.frozen] /\ t.frozen \in BOOLEAN
      BY <2>1, <3>1, MapShape
    <3>3. <<>> \in Seq(Entries(Keys, Values \cup {Nil})) /\ Len(<<>>) = 0
      OBVIOUS
    <3>4. \A i, j \in 1..0 : <<>>[i].key = <<>>[j].key => i = j
      OBVIOUS
    <3> QED BY <3>2, <3>3, <3>4, MapBuilt
  <2>3. Clear(tables[n]) = r
    BY <1>3, <2>1 DEF Clear
  <2>4. /\ tables' = [tables EXCEPT ![n] = r] /\ UNCHANGED <<dev, status>>
        /\ it' = IF it.on = n THEN [it EXCEPT !.cleared = TRUE, !.seen = <<>>] ELSE it
    BY <1>3, <2>3 DEF ClearTable
  <2>5. tables' \in [Tables -> Maps(Keys, Values \cup {Nil})]
    BY <2>2, <2>4 DEF IInv
  <2>6. Looping'
    <3>1. CASE it.on = n
      <4>1. it' = [it EXCEPT !.cleared = TRUE, !.seen = <<>>] /\ <<>> \in Seq(Keys)
        BY <2>4, <3>1
      <4>2. n # NoTable
        BY TablesAssumption
      <4> QED BY <3>1, <4>1, <4>2 DEF IInv, Looping
    <3>2. CASE it.on # n
      <4>1. it.on # NoTable => tables'[it.on] = tables[it.on]
        BY <2>4, <3>2 DEF IInv, Looping
      <4> QED BY <2>4, <3>2, <4>1 DEF IInv, Looping
    <3> QED BY <3>1, <3>2
  <2> QED BY <2>4, <2>5, <2>6 DEF IInv
<1> QED BY <1>1, <1>2, <1>3

LEMMA ForeachStep ==
    ASSUME IInv, NEW n \in Tables, Foreach(n)
    PROVE  IInv'
<1>1. it = NoLoop /\ Visit(n, First(tables[n])) /\ UNCHANGED <<dev, tables, status>>
  BY DEF Foreach, IInv, Looping
<1>2. PICK e : e = tables[n].entries
  OBVIOUS
<1>3. /\ e \in Seq(Entries(Keys, Values \cup {Nil})) /\ Len(e) \in Nat
      /\ \A i \in 1..Len(e) : e[i].key \in Keys
  <2>1. PICK t \in Maps(Keys, Values \cup {Nil}) : t = tables[n]
    BY DEF IInv
  <2>2. e = t.entries
    BY <1>2, <2>1
  <2>3. e \in Seq(Entries(Keys, Values \cup {Nil})) /\ Len(e) \in Nat /\ DOMAIN e = 1..Len(e)
    BY <2>2, MapShape
  <2>4. \A i \in 1..Len(e) : e[i].key \in Keys
    BY <2>2, MapShape
  <2> QED BY <2>3, <2>4
<1>4. CASE e = <<>>
  <2>1. it' = NoLoop
    BY <1>1, <1>2, <1>4 DEF Visit, First
  <2> QED BY <1>1, <2>1 DEF IInv, Looping
<1>5. CASE e # <<>>
  <2>1. it' = [NoLoop EXCEPT !.on = n, !.idx = 1, !.seen = Append(<<>>, e[1].key)]
    BY <1>1, <1>2, <1>5 DEF Visit, First, NoLoop
  <2>2. Len(e) >= 1 /\ 1 \in 1..Len(e) /\ e[1].key \in Keys
    BY <1>3, <1>5
  <2>3. PICK s : s = Append(<<>>, e[1].key)
    OBVIOUS
  <2>4. s \in Seq(Keys) /\ Len(s) = 1 /\ \A i \in 1..1 : s[i] = e[i].key
    BY <2>2, <2>3
  <2>5. it' = [on |-> n, idx |-> 1, seen |-> s, cleared |-> FALSE]
    BY <2>1, <2>3 DEF NoLoop
  <2>6. n # NoTable
    BY TablesAssumption
  <2> QED BY <1>1, <1>2, <2>2, <2>4, <2>5, <2>6 DEF IInv, Looping
<1> QED BY <1>4, <1>5

\* Between two visits: what the next one sees, and when there is none.
LEMMA VisitStep ==
    ASSUME IInv, Advance
    PROVE  /\ IInv'
           /\ it'.on = NoTable /\ ~it.cleared => it.seen = KeysOf(tables[it.on])
<1>1. it.on \in Tables /\ it.on # NoTable
      /\ Visit(it.on, Next1(tables[it.on], it.idx)) /\ UNCHANGED <<dev, tables, status>>
  BY DEF Advance, IInv, Looping
<1>2. PICK n \in Tables : n = it.on
  BY <1>1
<1>3. PICK e : e = tables[n].entries
  OBVIOUS
<1>4. /\ e \in Seq(Entries(Keys, Values \cup {Nil})) /\ Len(e) \in Nat /\ DOMAIN e = 1..Len(e)
      /\ \A i \in 1..Len(e) : e[i].key \in Keys
  <2>1. PICK t \in Maps(Keys, Values \cup {Nil}) : t = tables[n]
    BY DEF IInv
  <2>2. e = t.entries
    BY <1>3, <2>1
  <2>3. e \in Seq(Entries(Keys, Values \cup {Nil})) /\ Len(e) \in Nat /\ DOMAIN e = 1..Len(e)
    BY <2>2, MapShape
  <2>4. \A i \in 1..Len(e) : e[i].key \in Keys
    BY <2>2, MapShape
  <2> QED BY <2>3, <2>4
<1>5. it \in [on : Tables \cup {NoTable}, idx : Nat, seen : Seq(Keys), cleared : BOOLEAN]
  BY DEF IInv, Looping
<1>6. PICK x \in Nat : x = it.idx
  BY <1>5
<1>7. PICK s \in Seq(Keys) : s = it.seen
  BY <1>5
<1>8. ~it.cleared => Len(s) = x /\ x \in 1..Len(e) /\ \A i \in 1..x : s[i] = e[i].key
  BY <1>1, <1>2, <1>3, <1>6, <1>7 DEF IInv, Looping
<1>9. CASE x + 1 <= Len(e)
  <2>1. Next1(tables[it.on], it.idx) = x + 1 /\ x + 1 # 0
    BY <1>2, <1>3, <1>6, <1>9 DEF Next1
  <2>2. PICK q : q = IF it.cleared THEN <<>> ELSE Append(s, e[x + 1].key)
    OBVIOUS
  <2>3. it' = [it EXCEPT !.on = n, !.idx = x + 1, !.seen = q]
    BY <1>1, <1>2, <1>3, <1>7, <2>1, <2>2 DEF Visit
  <2>4. it' = [on |-> n, idx |-> x + 1, seen |-> q, cleared |-> it.cleared]
    BY <1>5, <2>3
  <2>5. x + 1 \in 1..Len(e) /\ e[x + 1].key \in Keys
    BY <1>4, <1>9
  <2>6. q \in Seq(Keys)
    BY <2>2, <2>5
  <2>7. ~it.cleared => Len(q) = x + 1 /\ \A i \in 1..(x + 1) : q[i] = e[i].key
    <3>1. ASSUME ~it.cleared PROVE Len(q) = x + 1 /\ \A i \in 1..(x + 1) : q[i] = e[i].key
      <4>1. q = Append(s, e[x + 1].key)
        BY <2>2, <3>1
      <4>2. Len(q) = x + 1 /\ q[x + 1] = e[x + 1].key /\ \A i \in 1..x : q[i] = s[i]
        BY <1>8, <3>1, <4>1
      <4>3. \A i \in 1..(x + 1) : i = x + 1 \/ i \in 1..x
        OBVIOUS
      <4> QED BY <1>8, <3>1, <4>2, <4>3
    <3> QED BY <3>1
  <2>8. Looping'
    <3>1. tables' = tables /\ n # NoTable
      BY <1>1, <1>2
    <3> QED BY <1>3, <1>5, <2>4, <2>5, <2>6, <2>7, <3>1 DEF Looping
  <2> QED BY <1>1, <1>2, <2>4, <2>8 DEF IInv
<1>10. CASE ~(x + 1 <= Len(e))
  <2>1. it' = NoLoop
    BY <1>1, <1>2, <1>3, <1>6, <1>10 DEF Visit, Next1
  <2>2. Looping'
    <3>1. <<>> \in Seq(Keys)
      OBVIOUS
    <3> QED BY <2>1, <3>1 DEF Looping, NoLoop
  <2>3. ~it.cleared => it.seen = KeysOf(tables[it.on])
    <3>1. ASSUME ~it.cleared PROVE s = [i \in DOMAIN e |-> e[i].key]
      <4>1. x = Len(e)
        <5>1. PICK z \in Nat : z = Len(e)
          BY <1>4
        <5>2. x \in 1..z /\ ~(x + 1 <= z)
          BY <1>8, <1>10, <3>1, <5>1
        <5> QED BY <5>1, <5>2
      <4>2. DOMAIN s = 1..x /\ s = [i \in DOMAIN s |-> s[i]]
        BY <1>8, <3>1
      <4> QED BY <1>4, <1>8, <3>1, <4>1, <4>2
    <3> QED BY <1>2, <1>3, <1>7, <3>1 DEF KeysOf
  <2> QED BY <1>1, <2>2, <2>3 DEF IInv
<1> QED BY <1>4, <1>9, <1>10

\* Only Advance ends a foreach, and every step keeps the invariant.
LEMMA StepHolds ==
    ASSUME IInv, [Next]_vars
    PROVE  IInv' /\ (it.on # NoTable /\ it'.on = NoTable => Advance)
<1>1. CASE UNCHANGED vars
  BY <1>1 DEF IInv, Looping, vars
<1>2. CASE Advance
  BY <1>2, VisitStep
<1>3. ASSUME NEW n \in Tables, NEW r, NEW w, Apply(n, r, w) PROVE it' = it
  BY <1>3 DEF Apply
<1>4. ASSUME NEW n \in Tables, NEW k \in Keys, NEW v \in Values, SetKey(n, k, v) \/ InsertAtKey(n, k, v)
      PROVE  IInv' /\ it' = it
  BY <1>3, <1>4, SetStep, InsertStep DEF SetKey, InsertAtKey
<1>5. ASSUME NEW n \in Tables, NEW v \in Values, InsertLast(n, v)
      PROVE  IInv' /\ it' = it
  BY <1>3, <1>5, InsertLastStep DEF InsertLast
<1>6. ASSUME NEW n \in Tables, NEW k \in Keys, Remove1(n, k)
      PROVE  IInv' /\ it' = it
  BY <1>3, <1>6, RemoveStep DEF Remove1
<1>7. ASSUME NEW n \in Tables, NEW m \in Tables, NEW a \in Keys, NEW b \in Keys, NEW k \in Keys,
             MoveRange(n, m, a, b, k)
      PROVE  IInv' /\ it' = it
  BY <1>3, <1>7, MoveStep DEF MoveRange
<1>8. ASSUME NEW n \in Tables, SortArray(n) PROVE IInv' /\ it' = it
  BY <1>3, <1>8, SortStep DEF SortArray
<1>9. ASSUME NEW n \in Tables, ClearTable(n) PROVE IInv' /\ it'.on = it.on
  <2>1. it'.on = it.on
    BY <1>9 DEF ClearTable, IInv, Looping
  <2> QED BY <1>9, <2>1, ClearStep
<1>10. ASSUME NEW n \in Tables, Construct(n) PROVE IInv' /\ it' = it
  BY <1>3, <1>10, ConstructStep DEF Construct
<1>11. ASSUME NEW n \in Tables, Foreach(n) PROVE IInv' /\ it.on = NoTable
  BY <1>11, ForeachStep DEF Foreach
<1>12. ASSUME NEW n \in Tables, NEW on \in BOOLEAN, Freeze(n, on) PROVE IInv' /\ it' = it
  BY <1>3, <1>12, FreezeStep DEF Freeze
<1>13. ASSUME NEW n \in Tables, NEW k \in Keys, NextKey(n, k) PROVE IInv' /\ it' = it
  BY <1>13 DEF NextKey, IInv, Looping
<1> QED BY <1>1, <1>2, <1>4, <1>5, <1>6, <1>7, <1>8, <1>9, <1>10, <1>11, <1>12, <1>13 DEF Next

----------------------------------------------------------------------------
(* What the invariant says of the calls. *)

LEMMA WritableMap ==
    ASSUME IInv, NEW n \in Tables
    PROVE  Writable(n) \in Maps(Keys, Values \cup {Nil}) /\ Writable(n).frozen
<1>1. PICK t \in Maps(Keys, Values \cup {Nil}) : t = tables[n]
  BY DEF IInv
<1>2. t.entries \in Seq(Entries(Keys, Values \cup {Nil}))
      /\ \A i, j \in 1..Len(t.entries) : t.entries[i].key = t.entries[j].key => i = j
  BY MapShape
<1>3. PICK e \in Seq(Entries(Keys, Values \cup {Nil})) : e = t.entries
  BY <1>2
<1>4. PICK f \in BOOLEAN : f = t.frozen
  BY MapShape
<1>5. t = [entries |-> e, frozen |-> f]
  BY <1>3, <1>4, MapShape
<1>6. PICK g \in BOOLEAN : g = TRUE
  OBVIOUS
<1>7. PICK s : s = [entries |-> e, frozen |-> g]
  OBVIOUS
<1>8. Writable(n) = s
  <2>1. Writable(n) = [t EXCEPT !.frozen = g]
    BY <1>1, <1>6 DEF Writable
  <2>2. [[entries |-> e, frozen |-> f] EXCEPT !.frozen = g] = [entries |-> e, frozen |-> g]
    OBVIOUS
  <2> QED BY <1>5, <1>7, <2>1, <2>2
<1>9. s \in Maps(Keys, Values \cup {Nil})
  BY <1>2, <1>3, <1>6, <1>7, MapBuilt
<1> QED BY <1>6, <1>8, <1>9, <1>7

LEMMA KeySet ==
    ASSUME NEW t
    PROVE  \A k : k \in ToSet(KeysOf(t)) <=> Has(t, k)
BY DEF ToSet, KeysOf, Has

LEMMA TypesFollow == IInv => TypeOK
<1> SUFFICES ASSUME IInv PROVE TypeOK
  OBVIOUS
<1>1. ASSUME NEW n \in Tables
      PROVE  /\ \A i \in DOMAIN tables[n].entries :
                    tables[n].entries[i] \in [key : Keys, value : Values \cup {Nil}]
             /\ \A i, j \in DOMAIN tables[n].entries :
                    tables[n].entries[i].key = tables[n].entries[j].key => i = j
             /\ tables[n].frozen \in BOOLEAN
  <2>1. PICK t \in Maps(Keys, Values \cup {Nil}) : t = tables[n]
    BY DEF IInv
  <2>2. /\ DOMAIN t.entries = 1..Len(t.entries) /\ t.frozen \in BOOLEAN
        /\ \A i \in 1..Len(t.entries) : t.entries[i] \in Entries(Keys, Values \cup {Nil})
        /\ \A i, j \in 1..Len(t.entries) : t.entries[i].key = t.entries[j].key => i = j
    BY MapShape
  <2> QED BY <2>1, <2>2 DEF Entries
<1>2. it.on \in Tables \cup {NoTable}
  BY DEF IInv, Looping
<1> QED BY <1>1, <1>2 DEF IInv, TypeOK

LEMMA SortingFollows == IInv => SortIsSorting
<1> SUFFICES ASSUME IInv, NEW n \in Tables
             PROVE  LET t == Writable(n)
                        s == Sort(t)
                        a == Ipairs(t, 1)
                        b == Ipairs(s, 1)
                    IN  /\ Len(a) = Len(b) /\ \A i \in 1..(Len(b) - 1) : b[i] <= b[i + 1]
                        /\ \A v \in ToSet(a) \cup ToSet(b) :
                             Cardinality({i \in DOMAIN a : a[i] = v}) = Cardinality({i \in DOMAIN b : b[i] = v})
                        /\ \A k \in Keys \ (1..Len(a)) : Get(s, k) = Get(t, k)
  BY DEF SortIsSorting
<1>1. PICK t \in Maps(Keys, Values \cup {Nil}) : t = Writable(n) /\ t.frozen
  BY WritableMap
<1>2. /\ Sorts(Ipairs(Sort(t), 1), Ipairs(t, 1))
      /\ \A k : k \notin 1..Len(Ipairs(t, 1)) => Get(Sort(t), k) = Get(t, k)
  BY <1>1, Ranges, SortAfter
<1> QED BY <1>1, <1>2 DEF Sorts

LEMMA InsertingFollows == IInv => InsertLosesLast
<1> SUFFICES ASSUME IInv, NEW n \in Tables, NEW pos \in Keys \ {NameKey}, NEW v \in Values
             PROVE  LET t   == Writable(n)
                        run == RunFrom(t, pos + 1) + 1
                        s   == Insert(t, pos, v)
                    IN  /\ ToSet(KeysOf(s)) = ToSet(KeysOf(t)) \cup {pos}
                        /\ Contents(s) = [k \in Keys |->
                             IF k = pos THEN v
                             ELSE IF k \in (pos + 1)..(pos + run - 1) THEN Get(t, k - 1)
                             ELSE Get(t, k)]
  BY DEF InsertLosesLast
<1>1. PICK t \in Maps(Keys, Values \cup {Nil}) : t = Writable(n) /\ t.frozen
  BY WritableMap
<1>2. PICK s : s = Insert(t, pos, v)
  OBVIOUS
<1>3. Inserted(s, t, pos, v)
  BY <1>1, <1>2, Ranges, InsertAfter
<1>4. PICK r \in Nat : r = RunFrom(t, pos + 1)
  <2>1. pos + 1 \in Nat
    BY Ranges
  <2> QED BY <2>1, RunFound DEF IsRun
<1>5. ToSet(KeysOf(s)) = ToSet(KeysOf(t)) \cup {pos}
  BY <1>3, KeySet DEF Inserted
<1>6. pos + (r + 1) - 1 = pos + r
  BY Ranges
<1>7. \A k \in Keys : Get(s, k) = IF k = pos THEN v
                                  ELSE IF k \in (pos + 1)..(pos + (r + 1) - 1) THEN Get(t, k - 1)
                                  ELSE Get(t, k)
  BY <1>3, <1>4, <1>6 DEF Inserted
<1> QED BY <1>1, <1>2, <1>4, <1>5, <1>7 DEF Contents

LEMMA RemovingFollows == IInv => RemoveUndoesInsert
<1> SUFFICES ASSUME IInv, NEW n \in Tables, NEW pos \in Keys \ {NameKey}, NEW v \in Values
             PROVE  LET t    == Writable(n)
                        last == pos + RunFrom(t, pos + 1)
                        s    == RemoveKey(Insert(t, pos, v), pos)
                    IN  /\ Contents(s) = [Contents(t) EXCEPT ![last] = Nil]
                        /\ ArrLen(s) = ArrLen(Insert(t, pos, v))
  BY DEF RemoveUndoesInsert
<1> DEFINE V == Values \cup {Nil}
<1>1. PICK t \in Maps(Keys, V) : t = Writable(n) /\ t.frozen
  BY WritableMap
<1>2. pos \in Nat /\ pos + 1 \in Nat
  BY Ranges
<1>3. PICK u : u = Insert(t, pos, v)
  OBVIOUS
<1>4. u \in Maps(Keys, V) /\ u.frozen /\ Inserted(u, t, pos, v)
  <2>1. u \in After(Keys, V, t) /\ Inserted(u, t, pos, v)
    BY <1>1, <1>3, Ranges, InsertAfter
  <2> QED BY <1>1, <2>1 DEF After, Later
<1>5. PICK r \in Nat : r = RunFrom(t, pos + 1) /\ IsRun(t, pos + 1, r)
  BY <1>2, RunFound DEF IsRun
<1>6. PICK s : s = RemoveKey(u, pos)
  OBVIOUS
<1>7. Has(u, pos)
  BY <1>4 DEF Inserted
<1>8. RunFrom(u, pos) = r + 1
  <2>1. \A i \in pos..(pos + (r + 1) - 1) : i = pos \/ i \in (pos + 1)..(pos + 1 + r - 1)
    BY <1>2
  <2>2. \A i \in pos..(pos + (r + 1) - 1) : Has(u, i)
    BY <1>4, <1>5, <2>1 DEF Inserted, IsRun
  <2>3. ~Has(u, pos + (r + 1))
    <3>1. pos + (r + 1) = pos + 1 + r /\ pos + (r + 1) # pos
      BY <1>2
    <3> QED BY <1>4, <1>5, <3>1 DEF Inserted, IsRun
  <2>4. IsRun(u, pos, r + 1)
    BY <2>2, <2>3 DEF IsRun
  <2> QED BY <1>2, <1>4, <2>4, RunUnique
<1>9. s \in Maps(Keys, V) /\ Removed(s, u, pos, r + 1)
  BY <1>2, <1>4, <1>6, <1>7, <1>8, Ranges, RemoveAfter DEF After
<1>10. ASSUME NEW k \in Keys
       PROVE  Get(s, k) = IF k = pos + r THEN Nil ELSE Get(t, k)
  <2>1. Get(s, k) = IF k \in pos..(pos + (r + 1) - 2) THEN Get(u, k + 1)
                    ELSE IF k = pos + (r + 1) - 1 THEN Nil ELSE Get(u, k)
    BY <1>9 DEF Removed
  <2>2. \A j : Get(u, j) = IF j = pos THEN v ELSE IF j \in (pos + 1)..(pos + r) THEN Get(t, j - 1) ELSE Get(t, j)
    BY <1>4, <1>5 DEF Inserted
  <2>3. k \in Nat
    BY Ranges
  <2>4. CASE k \in pos..(pos + r - 1)
    <3>1. k \in pos..(pos + (r + 1) - 2) /\ k + 1 # pos /\ k + 1 \in (pos + 1)..(pos + r) /\ (k + 1) - 1 = k /\ k # pos + r
      BY <1>2, <2>3, <2>4
    <3>2. Get(u, k + 1) = Get(t, k)
      BY <2>2, <3>1
    <3> QED BY <2>1, <3>1, <3>2
  <2>5. CASE k = pos + r
    <3>1. k \notin pos..(pos + (r + 1) - 2) /\ k = pos + (r + 1) - 1
      BY <1>2, <2>5
    <3> QED BY <2>1, <2>5, <3>1
  <2>6. CASE k \notin pos..(pos + r - 1) /\ k # pos + r
    <3>1. k \notin pos..(pos + (r + 1) - 2) /\ k # pos + (r + 1) - 1 /\ k # pos /\ k \notin (pos + 1)..(pos + r)
      BY <1>2, <2>3, <2>6
    <3> QED BY <2>1, <2>2, <2>6, <3>1
  <2> QED BY <2>4, <2>5, <2>6
<1>11. Contents(s) = [Contents(t) EXCEPT ![pos + r] = Nil]
  BY <1>10 DEF Contents
<1>12. ArrLen(s) = ArrLen(u)
  <2>1. \A j : Has(s, j) <=> Has(u, j)
    BY <1>9 DEF Removed
  <2>2. 1 \in Nat
    OBVIOUS
  <2>3. RunFrom(s, 1) = RunFrom(u, 1)
    BY <1>4, <1>9, <2>1, <2>2, SameRuns
  <2> QED BY <2>3 DEF ArrLen
<1> QED BY <1>1, <1>3, <1>5, <1>6, <1>11, <1>12

LEMMA MovingFollows == IInv => MoveCopies
<1> SUFFICES ASSUME IInv, NEW n \in Tables, NEW m \in Tables,
                    NEW a \in Keys \ {NameKey}, NEW b \in Keys \ {NameKey}, NEW k \in Keys \ {NameKey},
                    NEW i \in a..b
             PROVE  LET t == Writable(n)
                        s == Move(t, Writable(m), n = m, a, b, k)
                    IN  Get(s, k + i - a) =
                            IF n = m /\ a < k /\ k <= b
                            THEN Get(t, a + ((i - a) % (k - a))) ELSE Get(Writable(m), i)
  BY DEF MoveCopies
<1> DEFINE V == Values \cup {Nil}
<1>1. PICK t \in Maps(Nat, V) : t = Writable(n) /\ t.frozen
  BY WritableMap, MapsWider, Ranges
<1>2. PICK src \in Maps(Nat, V) : src = Writable(m)
  BY WritableMap, MapsWider, Ranges
<1>3. PICK own \in BOOLEAN : own = (n = m)
  OBVIOUS
<1>4. own => src = t
  BY <1>1, <1>2, <1>3
<1>5. a \in Nat /\ b \in Nat /\ k \in Nat /\ Nil \in V
  BY Ranges
<1>6. Get(Move(t, src, own, a, b, k), k + i - a) =
          IF own /\ a < k /\ k <= b THEN Get(t, a + ((i - a) % (k - a))) ELSE Get(src, i)
  <2>1. t.frozen /\ own \in BOOLEAN /\ i \in a..b
    BY <1>1
  <2>2. PICK W : W = V
    OBVIOUS
  <2>3. t \in Maps(Nat, W) /\ src \in Maps(Nat, W) /\ Nil \in W
    BY <1>5, <2>2
  <2>4. PICK p \in Nat, q \in Nat, x \in Nat : p = a /\ q = b /\ x = k
    BY <1>5
  <2>5. i \in p..q
    BY <2>4
  <2>6. Get(Move(t, src, own, p, q, x), x + i - p) =
            IF own /\ p < x /\ x <= q THEN Get(t, p + ((i - p) % (x - p))) ELSE Get(src, i)
    BY <1>4, <2>1, <2>3, <2>5, MoveSets
  <2> QED BY <2>4, <2>6
<1> QED BY <1>1, <1>2, <1>3, <1>6

LEMMA ConcatFollows == IInv => ConcatFillsBuffer
<1> SUFFICES ASSUME IInv, NEW n \in Tables, NEW k \in Keys \ {NameKey}, NEW sep \in 0..2
             PROVE  LET values == Ipairs(tables[n], k)
                        lens   == [i \in DOMAIN values |-> Length(values[i])]
                        empty  == {i \in DOMAIN lens : \A j \in 1..i : lens[j] = 0}
                    IN  Written(lens, sep) = Reserved(lens, sep)
                            - sep * (IF empty = DOMAIN lens /\ lens # <<>> THEN Len(lens) - 1 ELSE Cardinality(empty))
  BY DEF ConcatFillsBuffer
<1> DEFINE V == Values \cup {Nil}
<1>1. PICK t \in Maps(Nat, V) : t = tables[n]
  BY MapsWider, Ranges DEF IInv
<1>2. k \in Nat /\ sep \in Nat /\ Nil \in V /\ V \subseteq Nat
  BY Ranges
<1>3. PICK values : values = Ipairs(t, k)
  OBVIOUS
<1>4. values \in Seq(V)
  BY <1>2, <1>3, IpairsRuns
<1>5. PICK lens : lens = [i \in DOMAIN values |-> Length(values[i])]
  OBVIOUS
<1>6. lens \in Seq(Nat)
  <2>1. \A x \in V : Length(x) \in Nat
    BY <1>2 DEF Length
  <2>2. \A i \in DOMAIN values : values[i] \in V
    BY <1>4
  <2>3. \A i \in DOMAIN values : Length(values[i]) \in Nat
    BY <2>1, <2>2
  <2>4. DOMAIN values = 1..Len(values) /\ Len(values) \in Nat
    BY <1>4
  <2> QED BY <1>5, <2>3, <2>4
<1>7. Written(lens, sep) = Reserved(lens, sep)
          - sep * (IF Leading(lens) = DOMAIN lens /\ lens # <<>> THEN Len(lens) - 1 ELSE Cardinality(Leading(lens)))
  BY <1>2, <1>6, ConcatWrites
<1> QED BY <1>1, <1>3, <1>5, <1>7 DEF Leading

----------------------------------------------------------------------------
(* Theorems. *)

\* Every map keeps one entry per key, within the keys that have been set, and a
\* foreach has met the entries before its iterator (table.hpp 150-210).
THEOREM Invariance == Spec => []IInv
<1>1. Init => IInv
  BY InitHolds
<1>2. IInv /\ [Next]_vars => IInv'
  BY StepHolds
<1> QED BY <1>1, <1>2, PTL DEF Spec

\* No call adds a key twice or leaves the build, the loop or the status undefined.
THEOREM TypeCorrect == Spec => []TypeOK
BY Invariance, TypesFollow, PTL

\* sort() sorts the array part of any reachable table (table.hpp 359-377).
THEOREM SortSorts == Spec => []SortIsSorting
BY Invariance, SortingFollows, PTL

\* insert(pos, v) loses the last value of the run it pushes (table.hpp 314-325).
THEOREM InsertLoses == Spec => []InsertLosesLast
BY Invariance, InsertingFollows, PTL

\* remove(pos) undoes insert(pos) but for that value (table.hpp 346-358).
THEOREM RemoveUndoes == Spec => []RemoveUndoesInsert
BY Invariance, RemovingFollows, PTL

\* move() copies, or repeats what it copied when it overlaps upwards.
THEOREM MoveIsCopy == Spec => []MoveCopies
BY Invariance, MovingFollows, PTL

\* concat() fills the buffer it reserved, or leaves out one separator per empty
\* string at the beginning (table.hpp 213-271).
THEOREM ConcatFills == Spec => []ConcatFillsBuffer
BY Invariance, ConcatFollows, PTL

\* foreach visits every entry once and in order (table.hpp 181-189).
THEOREM ForeachVisits == Spec => ForeachVisitsAll
<1>1. ASSUME IInv, [Next]_vars
      PROVE  [(it.on # NoTable /\ it'.on = NoTable /\ ~it.cleared) => it.seen = KeysOf(tables[it.on])]_vars
  BY <1>1, StepHolds, VisitStep
<1>2. IInv /\ [Next]_vars
      => [(it.on # NoTable /\ it'.on = NoTable /\ ~it.cleared) => it.seen = KeysOf(tables[it.on])]_vars
  BY <1>1
<1> QED BY <1>2, Invariance, PTL DEF Spec, ForeachVisitsAll

============================================================================
