--------------------------- MODULE SignalsProofs ---------------------------
(***************************************************************************)
(* Theorems about Signals for any states, functions and bounds, with the   *)
(* faults of the code or repaired.  Everything the module claims of a      *)
(* signal rests on one invariant, IInv:                                    *)
(*   Registry: the vectors and the connections agree, by counting;         *)
(*   Frames: what each FireNow on the stack has called so far is enough    *)
(*      and not too much for the states it is through with, and its copy   *)
(*      will be for the one it is in;                                      *)
(*   Coroutines, Pendings: a suspended thread is on a connection that is   *)
(*      its own, and what is deferred was connected;                       *)
(*   Single: unless fires overlap, there is at most one place from which a *)
(*      wrapper is yet to be called, and it did not run before;            *)
(*   Ran, Waiters: a wrapper that ran is disconnected, and a Wait that is  *)
(*      not has its thread suspended in it.                                *)
(***************************************************************************)
EXTENDS Signals, SequenceTheorems, FiniteSetTheorems, TLAPS

----------------------------------------------------------------------------
(* Sequences and numbers. *)

\* A set of naturals has a least element.
LEMMA LeastNatural ==
    ASSUME NEW T \in SUBSET Nat, T # {}
    PROVE  \E m \in T : \A k \in T : m <= k
<1> DEFINE F == {0..k : k \in T}
<1>1. F \subseteq FiniteSubsetsOf(Nat) /\ F # {}
  <2>1. \A k \in T : 0..k \in SUBSET Nat /\ IsFiniteSet(0..k)
    BY FS_Interval
  <2> QED BY <2>1 DEF FiniteSubsetsOf
<1>2. IsWellFoundedOn(StrictSubsetOrdering(Nat), FiniteSubsetsOf(Nat))
  BY FS_StrictSubsetOrderingWellFounded
<1> HIDE DEF F
<1>3. PICK x \in F : \A y \in F : ~ (<<y, x>> \in StrictSubsetOrdering(Nat))
  BY <1>1, <1>2, WFMin
<1>4. PICK m \in T : x = 0..m
  BY <1>3 DEF F
<1>5. ASSUME NEW k \in T, k < m PROVE FALSE
  <2>1. 0..k \in F /\ 0..k \subseteq Nat /\ x \subseteq Nat
    BY <1>4 DEF F
  <2>2. 0..k \subseteq x /\ m \in x /\ m \notin 0..k
    BY <1>4, <1>5
  <2>3. <<0..k, x>> \in StrictSubsetOrdering(Nat)
    BY <2>1, <2>2 DEF StrictSubsetOrdering
  <2> QED BY <1>3, <2>1, <2>3
<1> QED BY <1>5

\* Two sets with a bijection have as many elements.
LEMMA SameSize ==
    ASSUME NEW S, NEW T, IsFiniteSet(S), NEW g \in [S -> T],
           \A a, b \in S : g[a] = g[b] => a = b, \A t \in T : \E a \in S : g[a] = t
    PROVE  IsFiniteSet(T) /\ Cardinality(T) = Cardinality(S)
<1>1. g \in Bijection(S, T)
  BY DEF Bijection, Injection, Surjection, IsInjective
<1> QED BY <1>1, FS_Bijection DEF ExistsBijection

\* The positions of an element.
Places(seq, e) == {i \in 1..Len(seq) : seq[i] = e}

\* They are as many as Occurrences counts.
LEMMA PlacesFinite ==
    ASSUME NEW S, NEW seq \in Seq(S), NEW e
    PROVE  /\ Occurrences(seq, e) = Cardinality(Places(seq, e))
           /\ IsFiniteSet(Places(seq, e)) /\ Occurrences(seq, e) \in Nat
           /\ Occurrences(seq, e) = 0 <=> \A i \in 1..Len(seq) : seq[i] # e
<1>1. DOMAIN seq = 1..Len(seq) /\ Len(seq) \in Nat
  OBVIOUS
<1>2. Occurrences(seq, e) = Cardinality(Places(seq, e))
  BY <1>1 DEF Occurrences, Places
<1>3. IsFiniteSet(Places(seq, e))
  <2>1. Places(seq, e) \in SUBSET (1..Len(seq)) /\ IsFiniteSet(1..Len(seq))
    BY <1>1, FS_Interval DEF Places
  <2> QED BY <2>1, FS_Subset
<1>4. Cardinality(Places(seq, e)) \in Nat
  BY <1>3, FS_CardinalityType
<1>5. Cardinality(Places(seq, e)) = 0 <=> Places(seq, e) = {}
  BY <1>3, FS_EmptySet
<1> QED BY <1>2, <1>3, <1>4, <1>5 DEF Places

\* Append adds one occurrence of what is appended.
LEMMA OccurrencesAppend ==
    ASSUME NEW S, NEW seq \in Seq(S), NEW x \in S, NEW e
    PROVE  Occurrences(Append(seq, x), e) = Occurrences(seq, e) + (IF x = e THEN 1 ELSE 0)
<1> DEFINE app == Append(seq, x)
<1>1. /\ app \in Seq(S) /\ Len(app) = Len(seq) + 1 /\ Len(seq) \in Nat
      /\ \A i \in 1..Len(seq) : app[i] = seq[i]
      /\ app[Len(seq) + 1] = x
  OBVIOUS
<1> HIDE DEF app
<1>2. Places(app, e) = Places(seq, e) \cup (IF x = e THEN {Len(seq) + 1} ELSE {})
  BY <1>1 DEF Places
<1>3. Len(seq) + 1 \notin Places(seq, e)
  BY <1>1 DEF Places
<1>4. IsFiniteSet(Places(seq, e))
  BY PlacesFinite
<1>5. Cardinality(Places(app, e)) = Cardinality(Places(seq, e)) + (IF x = e THEN 1 ELSE 0)
  <2>1. Cardinality(Places(seq, e)) \in Nat
    BY <1>4, FS_CardinalityType
  <2>2. CASE x = e
    BY <1>2, <1>3, <1>4, <2>2, FS_AddElement
  <2>3. CASE x # e
    <3>1. Places(app, e) = Places(seq, e)
      BY <1>2, <2>3
    <3> QED BY <2>1, <2>3, <3>1
  <2> QED BY <2>2, <2>3
<1> QED BY <1>1, <1>5, PlacesFinite DEF app

\* Erase takes away one position of a pair that is there, and shifts those after it.
LEMMA EraseShifts ==
    ASSUME NEW S, NEW seq \in Seq(S), NEW e, \E i \in 1..Len(seq) : seq[i] = e
    PROVE  \E k \in 1..Len(seq) :
              /\ seq[k] = e
              /\ Erase(seq, e) \in Seq(S) /\ Len(Erase(seq, e)) = Len(seq) - 1
              /\ \A i \in 1..(Len(seq) - 1) :
                    Erase(seq, e)[i] = IF i < k THEN seq[i] ELSE seq[i + 1]
<1> DEFINE I == {i \in 1..Len(seq) : seq[i] = e}
           k == Min(I)
<1>1. \E m \in I : \A j \in I : m <= j
  <2>1. I \in SUBSET Nat /\ I # {}
    OBVIOUS
  <2> HIDE DEF I
  <2> QED BY <2>1, LeastNatural
<1>2. k \in I
  BY <1>1 DEF Min
<1>3. Erase(seq, e) = RemoveAt(seq, k)
  BY DEF Erase, RemoveFirst, SelectInSeq
<1> HIDE DEF k
<1>4. Erase(seq, e) = SubSeq(seq, 1, k - 1) \o SubSeq(seq, k + 1, Len(seq))
  BY <1>3 DEF RemoveAt
<1> DEFINE a == SubSeq(seq, 1, k - 1)
           b == SubSeq(seq, k + 1, Len(seq))
<1>5. k \in 1..Len(seq) /\ seq[k] = e
  BY <1>2
<1>6. a \in Seq(S) /\ Len(a) = k - 1 /\ \A i \in 1..(k - 1) : a[i] = seq[i]
  BY <1>5, SubSeqProperties
<1>7. b \in Seq(S) /\ Len(b) = Len(seq) - k /\ \A i \in 1..(Len(seq) - k) : b[i] = seq[k + i]
  BY <1>5, SubSeqProperties
<1> HIDE DEF a, b
<1>8. /\ a \o b \in Seq(S) /\ Len(a \o b) = Len(seq) - 1
      /\ \A i \in 1..(Len(seq) - 1) : (a \o b)[i] = IF i < k THEN a[i] ELSE b[i - (k - 1)]
  <2>1. /\ a \o b \in Seq(S) /\ Len(a \o b) = Len(a) + Len(b)
        /\ \A i \in 1..(Len(a) + Len(b)) :
              (a \o b)[i] = IF i <= Len(a) THEN a[i] ELSE b[i - Len(a)]
    BY <1>6, <1>7, ConcatProperties
  <2>2. Len(a) + Len(b) = Len(seq) - 1
    BY <1>5, <1>6, <1>7
  <2>3. \A i \in 1..(Len(seq) - 1) : i <= Len(a) <=> i < k
    BY <1>5, <1>6
  <2> QED BY <1>6, <2>1, <2>2, <2>3
<1>9. \A i \in 1..(Len(seq) - 1) : (a \o b)[i] = IF i < k THEN seq[i] ELSE seq[i + 1]
  <2> SUFFICES ASSUME NEW i \in 1..(Len(seq) - 1)
               PROVE  (a \o b)[i] = IF i < k THEN seq[i] ELSE seq[i + 1]
    OBVIOUS
  <2>1. CASE i < k
    <3>1. i \in 1..(k - 1)
      BY <1>5, <2>1
    <3> QED BY <1>6, <1>8, <2>1, <3>1
  <2>2. CASE i >= k
    <3>1. i - (k - 1) \in 1..(Len(seq) - k) /\ k + (i - (k - 1)) = i + 1 /\ ~(i < k)
      BY <1>5, <2>2
    <3> QED BY <1>7, <1>8, <3>1
  <2>3. i < k \/ i >= k
    BY <1>5
  <2> QED BY <2>1, <2>2, <2>3
<1> QED BY <1>4, <1>5, <1>8, <1>9 DEF a, b

\* Erase takes away one occurrence of the pair that it is given, and no other's.
LEMMA OccurrencesErase ==
    ASSUME NEW S, NEW seq \in Seq(S), NEW e, \E i \in 1..Len(seq) : seq[i] = e, NEW f
    PROVE  /\ Erase(seq, e) \in Seq(S)
           /\ Occurrences(Erase(seq, e), f) = Occurrences(seq, f) - (IF f = e THEN 1 ELSE 0)
<1> DEFINE r == Erase(seq, e)
<1>1. PICK k \in 1..Len(seq) :
              /\ seq[k] = e
              /\ r \in Seq(S) /\ Len(r) = Len(seq) - 1
              /\ \A i \in 1..(Len(seq) - 1) : r[i] = IF i < k THEN seq[i] ELSE seq[i + 1]
  BY EraseShifts
<1> HIDE DEF r
<1> DEFINE P == Places(seq, f) \ {k}
           Q == Places(r, f)
           g == [i \in Q |-> IF i < k THEN i ELSE i + 1]
<1>2. g \in [Q -> P]
  <2> SUFFICES ASSUME NEW i \in Q PROVE (IF i < k THEN i ELSE i + 1) \in P
    OBVIOUS
  <2>1. i \in 1..(Len(seq) - 1) /\ r[i] = f /\ Len(seq) \in Nat
    BY <1>1 DEF Places
  <2>2. CASE i < k
    <3>1. i \in 1..Len(seq) /\ seq[i] = f /\ i # k
      BY <1>1, <2>1, <2>2
    <3> QED BY <2>2, <3>1 DEF Places
  <2>3. CASE ~(i < k)
    <3>1. i + 1 \in 1..Len(seq) /\ i + 1 # k
      BY <1>1, <2>1, <2>3
    <3>2. seq[i + 1] = f
      BY <1>1, <2>1, <2>3
    <3> QED BY <2>3, <3>1, <3>2 DEF Places
  <2> QED BY <2>2, <2>3
<1>3. \A i, j \in Q : g[i] = g[j] => i = j
  BY DEF Places
<1>4. \A p \in P : \E i \in Q : g[i] = p
  <2> SUFFICES ASSUME NEW p \in P PROVE \E i \in Q : g[i] = p
    OBVIOUS
  <2>1. p \in 1..Len(seq) /\ p # k /\ seq[p] = f
    BY DEF Places
  <2>2. CASE p < k
    BY <1>1, <2>1, <2>2 DEF Places
  <2>3. CASE p > k
    <3>1. p - 1 \in Q /\ ~(p - 1 < k)
      BY <1>1, <2>1, <2>3 DEF Places
    <3> QED BY <3>1, <2>1
  <2> QED BY <2>1, <2>2, <2>3
<1>6. IsFiniteSet(Q) /\ IsFiniteSet(Places(seq, f))
  BY <1>1, PlacesFinite
<1>7. Cardinality(P) = Cardinality(Q)
  <2> HIDE DEF P, Q, g
  <2> QED BY <1>2, <1>3, <1>4, <1>6, SameSize
<1> HIDE DEF P, Q
<1>8. k \in Places(seq, f) <=> f = e
  BY <1>1 DEF Places
<1>9. Cardinality(P) = Cardinality(Places(seq, f)) - (IF f = e THEN 1 ELSE 0)
  <2>1. Cardinality(P) = IF k \in Places(seq, f) THEN Cardinality(Places(seq, f)) - 1
                         ELSE Cardinality(Places(seq, f))
    BY <1>6, FS_RemoveElement DEF P
  <2>2. Cardinality(Places(seq, f)) \in Nat
    BY <1>6, FS_CardinalityType
  <2> QED BY <1>8, <2>1, <2>2
<1> QED BY <1>1, <1>7, <1>9, PlacesFinite DEF r, Q

----------------------------------------------------------------------------
(* The map of the signal and its connections. *)

\* The functions that can be connected, and the connections.
Funcs == {Plain(f) : f \in Functions}
    \cup {OnceWrapper(c) : c \in 1..MaxConns}
    \cup {WaitWrapper(c, t) : c \in 1..MaxConns, t \in 1..MaxThreads}
Conns == [live : BOOLEAN, state : States, pair : Entries]

\* The map of the signal and its connections.
Registry ==
    /\ order \in Seq(States)
    /\ \A i, k \in 1..Len(order) : order[i] = order[k] => i = k
    /\ connected \in [States -> Seq(Entries)]
    /\ conn \in Seq(Conns) /\ Len(conn) <= MaxConns
    /\ \A c \in 1..Len(conn) : \E i \in 1..Len(order) : order[i] = conn[c].state
    /\ \A c \in 1..Len(conn) :
          conn[c].pair.func.kind # "plain" => conn[c].pair.func.of = c
    /\ \A s \in States, pair \in Entries :
          Occurrences(connected[s], pair) = Cardinality(Made(Live, s, pair))

\* What a step does to the map and to the connections: it adds some of both, and
\* of those there are it changes whether they are live, to FALSE.
Grows ==
    /\ Len(order) <= Len(order')
    /\ \A i \in 1..Len(order) : order'[i] = order[i]
    /\ Len(conn) <= Len(conn')
    /\ \A c \in 1..Len(conn) :
          /\ conn'[c].state = conn[c].state /\ conn'[c].pair = conn[c].pair
          /\ conn'[c].live => conn[c].live

\* The pairs of a vector are a flag and a function.
LEMMA EntriesAre == Entries = [desync : BOOLEAN, func : Funcs]
BY DEF Entries, Funcs

\* A function is what its kind says.
LEMMA FuncKinds ==
    ASSUME NEW g \in Funcs
    PROVE  /\ g.kind \in {"plain", "once", "wait"}
           /\ g.kind = "once" => g = OnceWrapper(g.of) /\ g.of \in 1..MaxConns
           /\ g.kind = "wait" => /\ g = WaitWrapper(g.of, g.thread)
                                 /\ g.of \in 1..MaxConns /\ g.thread \in 1..MaxThreads
<1>1. CASE \E f \in Functions : g = Plain(f)
  BY <1>1 DEF Plain
<1>2. CASE \E c \in 1..MaxConns : g = OnceWrapper(c)
  BY <1>2 DEF OnceWrapper
<1>3. CASE \E c \in 1..MaxConns, t \in 1..MaxThreads : g = WaitWrapper(c, t)
  BY <1>3 DEF WaitWrapper
<1> QED BY <1>1, <1>2, <1>3 DEF Funcs

\* What Connect, Once and Wait connect are such functions, of the kind they say.
LEMMA FuncsMade ==
    /\ \A f \in Functions : Plain(f) \in Funcs /\ Plain(f).kind = "plain"
    /\ \A c \in 1..MaxConns : /\ OnceWrapper(c) \in Funcs
                              /\ OnceWrapper(c).kind = "once" /\ OnceWrapper(c).of = c
    /\ \A c \in 1..MaxConns, t \in 1..MaxThreads :
          /\ WaitWrapper(c, t) \in Funcs /\ WaitWrapper(c, t).kind = "wait"
          /\ WaitWrapper(c, t).of = c /\ WaitWrapper(c, t).thread = t
<1>1. \A f \in Functions : Plain(f) \in Funcs /\ Plain(f).kind = "plain"
  BY DEF Funcs, Plain
<1>2. \A c \in 1..MaxConns : /\ OnceWrapper(c) \in Funcs
                           /\ OnceWrapper(c).kind = "once" /\ OnceWrapper(c).of = c
  BY DEF Funcs, OnceWrapper
<1>3. \A c \in 1..MaxConns, t \in 1..MaxThreads : 
          /\ WaitWrapper(c, t) \in Funcs /\ WaitWrapper(c, t).kind = "wait"
          /\ WaitWrapper(c, t).of = c /\ WaitWrapper(c, t).thread = t
  BY DEF Funcs, WaitWrapper
<1> QED BY <1>1, <1>2, <1>3

\* The connections are the numbers up to Len(conn).
LEMMA ConnsAre ==
    ASSUME Registry
    PROVE  /\ DOMAIN conn = 1..Len(conn) /\ Len(conn) \in Nat
           /\ Live = {c \in 1..Len(conn) : conn[c].live}
           /\ \A c \in 1..Len(conn) :
                /\ conn[c] \in Conns /\ conn[c].state \in States /\ conn[c].live \in BOOLEAN
                /\ conn[c].pair \in Entries /\ conn[c].pair.desync \in BOOLEAN
                /\ conn[c].pair.func \in Funcs
           /\ \A C \in SUBSET (1..Len(conn)) : \A s, p : 
                 Made(C, s, p) \subseteq C /\ IsFiniteSet(Made(C, s, p))
<1>1. DOMAIN conn = 1..Len(conn) /\ Len(conn) \in Nat
  BY DEF Registry
<1>2. \A C \in SUBSET (1..Len(conn)) : \A s, p : Made(C, s, p) \subseteq C /\ IsFiniteSet(Made(C, s, p))
  <2> SUFFICES ASSUME NEW C \in SUBSET (1..Len(conn)), NEW s, NEW p
               PROVE  Made(C, s, p) \subseteq C /\ IsFiniteSet(Made(C, s, p))
    OBVIOUS
  <2>1. IsFiniteSet(1..Len(conn))
    <3>1. 1 \in Int /\ Len(conn) \in Int
      BY <1>1
    <3> QED BY <3>1, FS_Interval
  <2>3. Made(C, s, p) \in SUBSET (1..Len(conn))
    BY DEF Made
  <2>2. IsFiniteSet(Made(C, s, p))
    BY <2>1, <2>3, FS_Subset
  <2> QED BY <2>2 DEF Made
<1>3. \A c \in 1..Len(conn) : conn[c] \in Conns
  BY DEF Registry
<1> QED BY <1>1, <1>2, <1>3, EntriesAre DEF Live, Conns

\* _connect.
LEMMA RegistryConnect ==
    ASSUME Registry, NEW s \in States, NEW p \in Entries, ConnectPair(s, p),
           p.func.kind # "plain" => p.func.of = Len(conn) + 1
    PROVE  /\ Registry' /\ Grows
           /\ Len(conn') = Len(conn) + 1 /\ conn'[Len(conn) + 1] = Conn(s, p)
           /\ \A c \in 1..Len(conn) : conn'[c] = conn[c]
           /\ \A i \in (Len(order) + 1)..Len(order') : \A c \in 1..Len(conn) :
                 order'[i] # conn[c].state
<1> DEFINE n == Len(conn) + 1
<1>1. /\ DOMAIN conn = 1..Len(conn) /\ Len(conn) \in Nat
      /\ conn \in Seq(Conns) /\ n <= MaxConns /\ Conn(s, p) \in Conns
  BY ConnsAre, SignalAssumption DEF Registry, ConnectPair, Conn, Conns
<1>2. /\ conn' \in Seq(Conns) /\ Len(conn') = n /\ conn'[n] = Conn(s, p)
      /\ \A c \in 1..Len(conn) : conn'[c] = conn[c]
  BY <1>1 DEF ConnectPair
<1>3. /\ order' \in Seq(States) /\ Len(order) <= Len(order')
      /\ \A i \in 1..Len(order) : order'[i] = order[i]
      /\ \A i, k \in 1..Len(order') : order'[i] = order'[k] => i = k
      /\ \E i \in 1..Len(order') : order'[i] = s
      /\ \A i \in (Len(order) + 1)..Len(order') : \A k \in 1..Len(order) : order'[i] # order[k]
  <2>1. order \in Seq(States) /\ DOMAIN order = 1..Len(order) /\ Len(order) \in Nat
    BY DEF Registry
  <2>2. CASE s \in ToSet(order)
    BY <2>1, <2>2 DEF ConnectPair, Keyed, ToSet, Registry
  <2>3. CASE s \notin ToSet(order)
    <3>1. /\ order' \in Seq(States) /\ Len(order') = Len(order) + 1
          /\ \A i \in 1..Len(order) : order'[i] = order[i]
          /\ order'[Len(order) + 1] = s
      BY <2>1, <2>3 DEF ConnectPair, Keyed
    <3>2. \A i \in 1..Len(order) : order[i] # s
      BY <2>1, <2>3 DEF ToSet
    <3>3. \A i, k \in 1..Len(order) : order[i] = order[k] => i = k
      BY DEF Registry
    <3>4. \A i, k \in 1..Len(order') : order'[i] = order'[k] => i = k
      <4> SUFFICES ASSUME NEW i \in 1..Len(order'), NEW k \in 1..Len(order'),
                          order'[i] = order'[k]
                   PROVE  i = k
        OBVIOUS
      <4>1. i \in 1..Len(order) \/ i = Len(order) + 1
        BY <2>1, <3>1
      <4>2. k \in 1..Len(order) \/ k = Len(order) + 1
        BY <2>1, <3>1
      <4> QED BY <3>1, <3>2, <3>3, <4>1, <4>2
    <3>5. Len(order) + 1 \in 1..Len(order') /\ (Len(order) + 1)..Len(order') = {Len(order) + 1}
      BY <2>1, <3>1
    <3> QED BY <2>1, <3>1, <3>2, <3>4, <3>5
  <2> QED BY <2>2, <2>3
<1>4. \A c \in 1..n : \E i \in 1..Len(order') : order'[i] = conn'[c].state
  <2>1. conn'[n].state = s /\ \A c \in 1..Len(conn) : conn'[c].state = conn[c].state
    BY <1>2 DEF Conn
  <2>2. ASSUME NEW c \in 1..Len(conn)
        PROVE  \E i \in 1..Len(order') : order'[i] = conn'[c].state
    BY <1>3, <2>1, <2>2 DEF Registry
  <2> QED BY <1>1, <1>3, <2>1, <2>2
<1>5. \A c \in 1..n : conn'[c].pair.func.kind # "plain" => conn'[c].pair.func.of = c
  <2>1. conn'[n].pair = p
    BY <1>2 DEF Conn
  <2>2. \A c \in 1..Len(conn) : conn[c].pair.func.kind # "plain" => conn[c].pair.func.of = c
    BY DEF Registry
  <2>3. \A c \in 1..n : c \in 1..Len(conn) \/ c = n
    BY <1>1
  <2> QED BY <1>2, <2>1, <2>2, <2>3
<1>6. connected' \in [States -> Seq(Entries)]
  BY DEF ConnectPair, Registry
<1>7. Live' = Live \cup {n} /\ n \notin Live /\ Live \subseteq 1..Len(conn)
  <2>1. DOMAIN conn' = 1..n
    BY <1>2
  <2>2. Conn(s, p).live
    BY DEF Conn
  <2> QED BY <1>1, <1>2, <2>1, <2>2 DEF Live
<1>8. ASSUME NEW r \in States, NEW q \in Entries
      PROVE  Occurrences(connected'[r], q) = Cardinality(Made(Live, r, q)')
  <2>1. /\ Occurrences(connected[r], q) = Cardinality(Made(Live, r, q))
        /\ IsFiniteSet(Made(Live, r, q)) /\ Made(Live, r, q) \subseteq Live
        /\ connected[r] \in Seq(Entries)
    BY <1>7, ConnsAre DEF Registry
  <2>2. Cardinality(Made(Live, r, q)) \in Nat
    BY <2>1, FS_CardinalityType
  <2>3. Conn(s, p).state = s /\ Conn(s, p).pair = p
    BY DEF Conn
  <2>4. Made(Live, r, q)' = Made(Live, r, q) \cup (IF r = s /\ q = p THEN {n} ELSE {})
    BY <1>2, <1>7, <2>3 DEF Made
  <2>5. CASE r = s /\ q = p
    <3>1. connected'[r] = Append(connected[r], p)
      BY <2>5 DEF ConnectPair, Registry
    <3>2. Occurrences(connected'[r], q) = Occurrences(connected[r], q) + 1
      BY <2>1, <2>5, <3>1, OccurrencesAppend
    <3>3. n \notin Made(Live, r, q)
      BY <1>7, <2>1
    <3>4. Cardinality(Made(Live, r, q) \cup {n}) = Cardinality(Made(Live, r, q)) + 1
      BY <2>1, <3>3, FS_AddElement
    <3> QED BY <2>1, <2>4, <2>5, <3>2, <3>4
  <2>6. CASE ~(r = s /\ q = p)
    <3>1. connected'[r] = IF r = s THEN Append(connected[r], p) ELSE connected[r]
      BY DEF ConnectPair, Registry
    <3>2. Occurrences(Append(connected[r], p), q) =
             Occurrences(connected[r], q) + (IF p = q THEN 1 ELSE 0)
      BY <2>1, OccurrencesAppend
    <3>3. Occurrences(connected[r], q) \in Nat
      BY <2>1, <2>2
    <3>4. Occurrences(connected'[r], q) = Occurrences(connected[r], q)
      BY <2>6, <3>1, <3>2, <3>3
    <3>5. Made(Live, r, q)' = Made(Live, r, q)
      BY <2>4, <2>6
    <3> QED BY <2>1, <3>4, <3>5
  <2> QED BY <2>5, <2>6
<1>9. Registry'
  BY <1>1, <1>2, <1>3, <1>4, <1>5, <1>6, <1>8 DEF Registry
<1>10. Grows
  <2>1. Len(conn) <= Len(conn')
    BY <1>1, <1>2
  <2>2. \A c \in 1..Len(conn) : conn'[c].live => conn[c].live
    BY <1>2
  <2> HIDE DEF n
  <2> QED BY <1>2, <1>3, <2>1, <2>2 DEF Grows
<1>11. \A i \in (Len(order) + 1)..Len(order') : \A c \in 1..Len(conn) : order'[i] # conn[c].state
  <2> SUFFICES ASSUME NEW i \in (Len(order) + 1)..Len(order'), NEW c \in 1..Len(conn)
               PROVE  order'[i] # conn[c].state
    OBVIOUS
  <2>1. PICK k \in 1..Len(order) : order[k] = conn[c].state
    BY DEF Registry
  <2> QED BY <1>3, <2>1
<1> QED BY <1>2, <1>9, <1>10, <1>11

\* lua_Disconnect.
LEMMA RegistryDisconnect ==
    ASSUME Registry, NEW c \in 1..Len(conn), Disconnected(c), UNCHANGED order
    PROVE  /\ Registry' /\ Grows
           /\ Len(conn') = Len(conn) /\ ~conn'[c].live
           /\ \A k \in 1..Len(conn) : k # c => conn'[k] = conn[k]
<1> DEFINE s == conn[c].state
           p == conn[c].pair
<1>1. /\ DOMAIN conn = 1..Len(conn) /\ Len(conn) \in Nat /\ conn \in Seq(Conns)
      /\ Live = {k \in 1..Len(conn) : conn[k].live}
      /\ s \in States /\ p \in Entries
  BY ConnsAre DEF Registry
<1>2. CASE ~conn[c].live
  BY <1>1, <1>2 DEF Disconnected, Grows, Registry, Live, Made
<1>3. CASE conn[c].live
  <2>1. /\ conn' \in Seq(Conns) /\ Len(conn') = Len(conn) /\ DOMAIN conn' = 1..Len(conn)
        /\ conn'[c] = [conn[c] EXCEPT !.live = FALSE]
        /\ \A k \in 1..Len(conn) : k # c => conn'[k] = conn[k]
    <3>1. conn' = [conn EXCEPT ![c].live = FALSE] /\ conn[c] \in Conns
      BY <1>1, <1>3 DEF Disconnected
    <3>2. [conn[c] EXCEPT !.live = FALSE] \in Conns
      BY <3>1 DEF Conns
    <3> QED BY <1>1, <3>1, <3>2
  <2>2. /\ ~conn'[c].live
        /\ \A k \in 1..Len(conn) : conn'[k].state = conn[k].state /\ conn'[k].pair = conn[k].pair
    <3>1. conn[c] \in Conns
      BY <1>1
    <3>2. ~conn'[c].live /\ conn'[c].state = s /\ conn'[c].pair = p
      BY <2>1, <3>1 DEF Conns
    <3> QED BY <2>1, <3>2
  <2>3. Live' = Live \ {c} /\ c \in Live /\ Live \subseteq 1..Len(conn)
    BY <1>1, <1>3, <2>1, <2>2 DEF Live
  <2>4. connected' = [connected EXCEPT ![s] = Erase(@, p)]
    BY <1>3 DEF Disconnected
  <2>5. \E i \in 1..Len(connected[s]) : connected[s][i] = p
    <3>1. IsFiniteSet(Made(Live, s, p))
      BY <2>3, ConnsAre
    <3>4. c \in Made(Live, s, p)
      BY <2>3 DEF Made
    <3>2. Cardinality(Made(Live, s, p)) # 0
      BY <3>1, <3>4, FS_EmptySet
    <3>3. Occurrences(connected[s], p) # 0 /\ connected[s] \in Seq(Entries)
      BY <1>1, <3>2 DEF Registry
    <3> QED BY <3>3, PlacesFinite
  <2>6. ASSUME NEW q \in Entries
        PROVE  /\ Erase(connected[s], p) \in Seq(Entries)
               /\ Occurrences(Erase(connected[s], p), q) =
                     Occurrences(connected[s], q) - (IF q = p THEN 1 ELSE 0)
    <3>1. connected[s] \in Seq(Entries)
      BY <1>1 DEF Registry
    <3> HIDE DEF s, p
    <3> QED BY <2>5, <3>1, OccurrencesErase
  <2>7. connected' \in [States -> Seq(Entries)]
    BY <1>1, <2>4, <2>6 DEF Registry
  <2>8. ASSUME NEW r \in States, NEW q \in Entries
        PROVE  Occurrences(connected'[r], q) = Cardinality(Made(Live, r, q)')
    <3>1. /\ Occurrences(connected[r], q) = Cardinality(Made(Live, r, q))
          /\ IsFiniteSet(Made(Live, r, q)) /\ Made(Live, r, q) \subseteq Live
      BY <2>3, ConnsAre DEF Registry
    <3>2. Cardinality(Made(Live, r, q)) \in Nat
      BY <3>1, FS_CardinalityType
    <3>3. Made(Live, r, q)' = Made(Live, r, q) \ {c}
      BY <2>2, <2>3 DEF Made
    <3>4. c \in Made(Live, r, q) <=> r = s /\ q = p
      BY <2>3 DEF Made
    <3>5. Cardinality(Made(Live, r, q) \ {c}) = Cardinality(Made(Live, r, q))
             - (IF r = s /\ q = p THEN 1 ELSE 0)
      <4> DEFINE M == Made(Live, r, q)
      <4>1. Cardinality(M \ {c}) = IF c \in M THEN Cardinality(M) - 1 ELSE Cardinality(M)
        <5> HIDE DEF M
        <5>1. IsFiniteSet(M)
          BY <3>1 DEF M
        <5> QED BY <5>1, FS_RemoveElement
      <4> QED BY <3>2, <3>4, <4>1
    <3>6. connected'[r] = IF r = s THEN Erase(connected[s], p) ELSE connected[r]
      BY <1>1, <2>4 DEF Registry
    <3> QED BY <2>6, <3>1, <3>2, <3>3, <3>5, <3>6
  <2>9. Registry'
    <3>1. \A k \in 1..Len(conn) : \E i \in 1..Len(order) : order[i] = conn[k].state
      BY DEF Registry
    <3>2. \A k \in 1..Len(conn) : conn[k].pair.func.kind # "plain" => conn[k].pair.func.of = k
      BY DEF Registry
    <3>3. \A k \in 1..Len(conn') : \E i \in 1..Len(order) : order[i] = conn'[k].state
      BY <2>1, <2>2, <3>1
    <3>4. \A k \in 1..Len(conn') : conn'[k].pair.func.kind # "plain" => conn'[k].pair.func.of = k
      BY <2>1, <2>2, <3>2
    <3> HIDE DEF s, p
    <3> QED BY <2>1, <2>7, <2>8, <3>3, <3>4 DEF Registry
  <2>10. \A k \in 1..Len(conn) : conn'[k].live => conn[k].live
    BY <1>3, <2>1
  <2>11. Grows
    <3>1. Len(order) \in Nat
      BY DEF Registry
    <3> QED BY <1>1, <2>1, <2>2, <2>10, <3>1 DEF Grows
  <2> QED BY <2>1, <2>2, <2>9, <2>11
<1> QED BY <1>2, <1>3

----------------------------------------------------------------------------
(* What runs. *)

\* What the stack holds: code, and FireNows.
Codes == [kind : {"code"}, state : States, thread : Nat]
Fires == [kind : {"fire"}, at : Nat, copy : Seq(Entries), j : Nat,
          born : SUBSET Nat, given : SUBSET (Nat \X Nat \X Entries)]

\* A FireNow iterates the vector of the state it came to, which it copied.
Copied(f) ==
    /\ f.at <= Len(order) /\ f.j <= Len(f.copy)
    /\ f.at = 0 => f.copy = <<>>
    /\ \A n \in 1..Len(f.copy) : \E c \in 1..Len(conn) :
          conn[c].state = order[f.at] /\ conn[c].pair = f.copy[n]

\* n calls are as many as FireReachesAll asks for.
Within(f, s, pair, n) ==
    /\ Cardinality(Made(f.born \cap Live, s, pair)) <= n
    /\ n <= Cardinality(Made(1..Len(conn), s, pair))

\* The calls of a pair in the state at a place, and those in the copy so far.
CallsAt(f, a, pair) == {g \in f.given : g[1] = a /\ g[3] = pair}
Done(f, pair) == {n \in 1..f.j : f.copy[n] = pair}

\* What a FireNow called in the states it is through with is enough and not too
\* much, and so is what is in its copy.
Reached(f) ==
    /\ f.born \subseteq 1..Len(conn)
    /\ IsFiniteSet(f.given)
    /\ \A g \in f.given : 1 <= g[1] /\ g[1] <= f.at /\ (g[1] = f.at => g[2] < f.j)
    /\ \A pair \in Entries :
          /\ \A a \in 1..(f.at - 1) :
                Within(f, order[a], pair, Cardinality(CallsAt(f, a, pair)))
          /\ f.at > 0 =>
                /\ Cardinality(CallsAt(f, f.at, pair)) = Cardinality(Done(f, pair))
                /\ Within(f, order[f.at], pair, Occurrences(f.copy, pair))

\* The stack: what every FireNow on it has copied and called.
Frames ==
    /\ stack \in Seq(Codes \cup Fires) /\ Len(stack) <= MaxDepth
    /\ \A i \in 1..Len(stack) : stack[i].kind = "fire" =>
          i < MaxDepth /\ Copied(stack[i]) /\ Reached(stack[i])

\* A code frame and a FireNow are told apart by kind.
LEMMA FrameKinds ==
    ASSUME NEW f \in Codes \cup Fires
    PROVE  /\ f.kind \in {"code", "fire"}
           /\ f.kind = "code" => f \in Codes
           /\ f.kind = "fire" => f \in Fires
BY DEF Codes, Fires

\* The top of the stack, and what is below it.
LEMMA TopOfStack ==
    ASSUME Frames, stack # <<>>
    PROVE  /\ Len(stack) \in Nat /\ Len(stack) > 0 /\ Top = stack[Len(stack)]
           /\ Top \in Codes \cup Fires
           /\ Front(stack) \in Seq(Codes \cup Fires) /\ Len(Front(stack)) = Len(stack) - 1
           /\ \A i \in 1..(Len(stack) - 1) : Front(stack)[i] = stack[i]
<1>1. stack \in Seq(Codes \cup Fires) /\ Len(stack) \in Nat /\ Len(stack) > 0
  BY DEF Frames
<1>2. Top = stack[Len(stack)] /\ Top \in Codes \cup Fires
  BY <1>1 DEF Top, Last
<1>3. /\ Front(stack) \in Seq(Codes \cup Fires) /\ Len(Front(stack)) = Len(stack) - 1
      /\ \A i \in 1..(Len(stack) - 1) : Front(stack)[i] = stack[i]
  <2> DEFINE q == SubSeq(stack, 1, Len(stack) - 1)
  <2>1. /\ 1 \in Int /\ Len(stack) - 1 \in Int
        /\ \A i \in 1..(Len(stack) - 1) : stack[i] \in Codes \cup Fires
    BY <1>1
  <2>2. /\ q \in Seq(Codes \cup Fires)
        /\ Len(q) = IF 1 <= Len(stack) - 1 THEN Len(stack) - 1 - 1 + 1 ELSE 0
        /\ \A i \in 1..(Len(stack) - 1 - 1 + 1) : q[i] = stack[1 + i - 1]
    BY <2>1, SubSeqProperties
  <2>3. q = Front(stack)
    BY DEF Front
  <2> HIDE DEF q
  <2>4. Len(q) = Len(stack) - 1
    <3>1. Len(stack) \in Nat /\ Len(stack) > 0
      BY <1>1
    <3>2. Len(q) = IF 1 <= Len(stack) - 1 THEN Len(stack) - 1 - 1 + 1 ELSE 0
      BY <2>2
    <3>3. Len(stack) = 1 \/ (1 <= Len(stack) - 1 /\ Len(stack) - 1 - 1 + 1 = Len(stack) - 1)
      BY <3>1
    <3> QED BY <3>1, <3>2, <3>3
  <2>5. ASSUME NEW i \in 1..(Len(stack) - 1)
        PROVE  q[i] = stack[i]
    <3>1. i \in 1..(Len(stack) - 1 - 1 + 1) /\ 1 + i - 1 = i
      BY <1>1
    <3> QED BY <2>2, <3>1
  <2> QED BY <2>2, <2>3, <2>4, <2>5
<1> QED BY <1>1, <1>2, <1>3

\* The stack with its top replaced, or with something on it.
LEMMA Pushed ==
    ASSUME NEW S, NEW seq \in Seq(S), NEW x \in S
    PROVE  /\ Append(seq, x) \in Seq(S) /\ Len(Append(seq, x)) = Len(seq) + 1
           /\ Append(seq, x)[Len(seq) + 1] = x
           /\ \A i \in 1..Len(seq) : Append(seq, x)[i] = seq[i]
OBVIOUS

\* Bounds on calls hold on when connections are made and disconnected.
LEMMA WithinKept ==
    ASSUME Registry, Registry', Grows
    PROVE  \A f \in Fires, n \in Nat : \A s, pair :
              f.born \subseteq 1..Len(conn) /\ Within(f, s, pair, n) => Within(f, s, pair, n)'
<1> SUFFICES ASSUME NEW f \in Fires, NEW s, NEW pair, NEW n \in Nat,
                    f.born \subseteq 1..Len(conn), Within(f, s, pair, n)
             PROVE  Within(f, s, pair, n)'
  OBVIOUS
<1> DEFINE least == Made(f.born \cap Live, s, pair)
           most == Made(1..Len(conn), s, pair)
<1>1. /\ Live = {c \in 1..Len(conn) : conn[c].live}
      /\ Live' = {c \in 1..Len(conn') : conn'[c].live}
      /\ Len(conn) \in Nat /\ Len(conn') \in Nat /\ Len(conn) <= Len(conn')
  <2>1. DOMAIN conn = 1..Len(conn) /\ DOMAIN conn' = 1..Len(conn')
    BY DEF Registry
  <2> QED BY <2>1 DEF Grows, Registry, Live
<1>2. \A c \in 1..Len(conn) : c \in 1..Len(conn')
  BY <1>1
<1>3. IsFiniteSet(least) /\ IsFiniteSet(most) /\ IsFiniteSet(most')
  <2>1. IsFiniteSet(1..Len(conn)) /\ IsFiniteSet(1..Len(conn'))
    <3>1. 1 \in Int /\ Len(conn) \in Int /\ Len(conn') \in Int
      BY <1>1
    <3> QED BY <3>1, FS_Interval
  <2>2. least \in SUBSET (1..Len(conn)) /\ most \in SUBSET (1..Len(conn))
    BY <1>1 DEF Made
  <2>3. most' \in SUBSET (1..Len(conn'))
    BY DEF Made
  <2> HIDE DEF least, most
  <2> QED BY <2>1, <2>2, <2>3, FS_Subset
<1>4. least' \in SUBSET least
  BY <1>1, <1>2 DEF Made, Grows
<1>5. most \in SUBSET most'
  BY <1>1, <1>2 DEF Made, Grows
<1>6. Cardinality(least') <= Cardinality(least) /\ IsFiniteSet(least')
  <2> HIDE DEF least
  <2> QED BY <1>3, <1>4, FS_Subset
<1>7. Cardinality(most) <= Cardinality(most')
  <2> HIDE DEF most
  <2> QED BY <1>3, <1>5, FS_Subset
<1>8. /\ Cardinality(least) \in Nat /\ Cardinality(least') \in Nat
      /\ Cardinality(most) \in Nat /\ Cardinality(most') \in Nat
  <2> HIDE DEF least, most
  <2> QED BY <1>3, <1>6, FS_CardinalityType
<1> QED BY <1>6, <1>7, <1>8 DEF Within

\* So does what is known of a FireNow.
LEMMA FireKept ==
    ASSUME Registry, Registry', Grows
    PROVE  \A f \in Fires : Copied(f) /\ Reached(f) => Copied(f)' /\ Reached(f)'
<1> SUFFICES ASSUME NEW f \in Fires, Copied(f), Reached(f)
             PROVE  Copied(f)' /\ Reached(f)'
  OBVIOUS
<1>1. /\ f.at \in Nat /\ f.at <= Len(order) /\ Len(order) \in Nat /\ Len(order') \in Nat
      /\ Len(conn) \in Nat /\ Len(conn') \in Nat
      /\ f.copy \in Seq(Entries) /\ Len(f.copy) \in Nat /\ f.given \in SUBSET (Nat \X Nat \X Entries)
  BY DEF Fires, Copied, Registry
<1>2. \A a \in 1..f.at : order'[a] = order[a]
  BY <1>1 DEF Grows
<1>3. 1..Len(conn) \subseteq 1..Len(conn')
  BY <1>1 DEF Grows
<1>4. Copied(f)'
  <2>1. f.at <= Len(order')
    BY <1>1 DEF Grows
  <2>2. ASSUME NEW n \in 1..Len(f.copy)
        PROVE  \E c \in 1..Len(conn') : conn'[c].state = order'[f.at] /\ conn'[c].pair = f.copy[n]
    <3>1. PICK c \in 1..Len(conn) : conn[c].state = order[f.at] /\ conn[c].pair = f.copy[n]
      BY DEF Copied
    <3>2. f.at # 0
      BY DEF Copied
    <3>3. order'[f.at] = order[f.at]
      BY <1>1, <1>2, <3>2
    <3> QED BY <1>3, <3>1, <3>3 DEF Grows
  <2> QED BY <2>1, <2>2 DEF Copied
<1>5. Reached(f)'
  <2>1. ASSUME NEW pair \in Entries
        PROVE  /\ \A a \in 1..(f.at - 1) :
                     Within(f, order[a], pair, Cardinality(CallsAt(f, a, pair)))'
               /\ f.at > 0 => Within(f, order[f.at], pair, Occurrences(f.copy, pair))'
    <3>1. ASSUME NEW a \in 1..(f.at - 1)
          PROVE  Within(f, order[a], pair, Cardinality(CallsAt(f, a, pair)))'
      <4>1. CallsAt(f, a, pair) \in SUBSET f.given /\ IsFiniteSet(f.given)
        BY DEF CallsAt, Reached
      <4>2. Cardinality(CallsAt(f, a, pair)) \in Nat
        BY <4>1, FS_Subset, FS_CardinalityType
      <4>3. Within(f, order[a], pair, Cardinality(CallsAt(f, a, pair))) /\ f.born \subseteq 1..Len(conn)
        BY DEF Reached
      <4>4. order'[a] = order[a]
        BY <1>1, <1>2
      <4> DEFINE n == Cardinality(CallsAt(f, a, pair))
                 s == order[a]
      <4> HIDE DEF n
      <4>5. PICK r : r = order[a]
        OBVIOUS
      <4>6. Within(f, r, pair, n)'
        BY <4>2, <4>3, <4>5, WithinKept DEF n
      <4> QED BY <4>4, <4>5, <4>6 DEF Within, n, CallsAt
    <3>2. ASSUME f.at > 0
          PROVE  Within(f, order[f.at], pair, Occurrences(f.copy, pair))'
      <4>1. Occurrences(f.copy, pair) \in Nat
        BY <1>1, PlacesFinite
      <4>2. Within(f, order[f.at], pair, Occurrences(f.copy, pair)) /\ f.born \subseteq 1..Len(conn)
        BY <3>2 DEF Reached
      <4>3. order'[f.at] = order[f.at]
        BY <1>1, <1>2, <3>2
      <4>5. PICK r : r = order[f.at]
        OBVIOUS
      <4>6. PICK n : n = Occurrences(f.copy, pair)
        OBVIOUS
      <4>7. Within(f, r, pair, n)'
        BY <4>1, <4>2, <4>5, <4>6, WithinKept
      <4> QED BY <4>3, <4>5, <4>6, <4>7 DEF Within, Occurrences
    <3> QED BY <3>1, <3>2
  <2>2. f.born \subseteq 1..Len(conn')
    BY <1>3 DEF Reached
  <2> QED BY <2>1, <2>2 DEF Reached, CallsAt, Done
<1> QED BY <1>4, <1>5

----------------------------------------------------------------------------
(* What a FireNow called. *)

\* A FireNow begins with nothing called.
LEMMA FireBegins ==
    ASSUME Registry
    PROVE  Firing \in Fires /\ Firing.kind = "fire" /\ Copied(Firing) /\ Reached(Firing)
<1> DEFINE f == Firing
<1>1. f.at = 0 /\ f.copy = <<>> /\ f.j = 0 /\ f.born = Live /\ f.given = {} /\ f.kind = "fire"
  BY DEF Firing
<1>2. Live \subseteq 1..Len(conn) /\ Len(conn) \in Nat /\ Len(order) \in Nat
  <2>1. order \in Seq(States)
    BY DEF Registry
  <2>2. Len(order) \in Nat
    BY <2>1
  <2>3. Live \subseteq 1..Len(conn) /\ Len(conn) \in Nat
    BY ConnsAre
  <2> QED BY <2>2, <2>3
<1>3. f \in Fires
  <2>1. Live \in SUBSET Nat /\ <<>> \in Seq(Entries)
    BY <1>2, EmptySeq
  <2> QED BY <2>1 DEF Firing, Fires
<1>4. Copied(f)
  <2> HIDE DEF f
  <2> QED BY <1>1, <1>2 DEF Copied
<1>5. Reached(f)
  <2>1. IsFiniteSet({})
    BY FS_EmptySet
  <2> HIDE DEF f
  <2> QED BY <1>1, <1>2, <2>1 DEF Reached
<1> QED BY <1>1, <1>3, <1>4, <1>5

\* A FireNow after one more call.
CallNext(f) == [f EXCEPT !.j = @ + 1, !.given = @ \cup {<<f.at, f.j, f.copy[f.j + 1]>>}]

\* A call counts for the pair it is of, and for no other.
LEMMA CallCounts ==
    ASSUME Registry, NEW f \in Fires, Copied(f), Reached(f), f.j < Len(f.copy)
    PROVE  /\ CallNext(f) \in Fires /\ Copied(CallNext(f)) /\ Reached(CallNext(f))
           /\ CallNext(f).kind = "fire" /\ CallNext(f).at = f.at
           /\ CallNext(f).copy = f.copy /\ CallNext(f).j = f.j + 1
           /\ f.at > 0 /\ f.copy[f.j + 1] \in Entries
<1> DEFINE e == CallNext(f)
           x == f.copy[f.j + 1]
           g == <<f.at, f.j, x>>
<1>1. /\ f.at \in Nat /\ f.j \in Nat /\ f.copy \in Seq(Entries) /\ Len(f.copy) \in Nat
      /\ f.born \in SUBSET Nat /\ f.given \in SUBSET (Nat \X Nat \X Entries) /\ f.kind = "fire"
  BY DEF Fires
<1>2. f.j + 1 \in 1..Len(f.copy) /\ x \in Entries /\ f.at > 0
  <2>1. f.at # 0
    BY <1>1 DEF Copied
  <2> QED BY <1>1, <2>1
<1>3. g \in Nat \X Nat \X Entries /\ g[1] = f.at /\ g[2] = f.j /\ g[3] = x
  BY <1>1, <1>2
<1>4. /\ e \in Fires /\ e.kind = "fire" /\ e.at = f.at /\ e.copy = f.copy /\ e.j = f.j + 1
      /\ e.born = f.born /\ e.given = f.given \cup {g}
  <2>1. f.given \cup {g} \in SUBSET (Nat \X Nat \X Entries) /\ f.j + 1 \in Nat
    BY <1>1, <1>3
  <2> HIDE DEF g
  <2>2. e = [f EXCEPT !.j = f.j + 1, !.given = f.given \cup {g}]
    BY DEF CallNext, Fires, g
  <2> QED BY <2>1, <2>2 DEF Fires
<1> HIDE DEF e, x, g
<1>5. g \notin f.given
  BY <1>1, <1>3 DEF Reached
<1>6. Copied(e)
  <2>1. f.j + 1 <= Len(f.copy) /\ f.at # 0
    BY <1>1, <1>2
  <2> QED BY <1>4, <2>1 DEF Copied
<1>7. IsFiniteSet(f.given) /\ IsFiniteSet(e.given)
  BY <1>4, FS_AddElement DEF Reached
<1>8. ASSUME NEW a, NEW pair
      PROVE  /\ CallsAt(e, a, pair) = CallsAt(f, a, pair) \cup (IF a = f.at /\ pair = x THEN {g} ELSE {})
             /\ g \notin CallsAt(f, a, pair) /\ IsFiniteSet(CallsAt(f, a, pair))
  <2>1. CallsAt(f, a, pair) \in SUBSET f.given
    BY DEF CallsAt
  <2> QED BY <1>3, <1>4, <1>5, <1>7, <2>1, FS_Subset DEF CallsAt
<1>9. ASSUME NEW pair
      PROVE  /\ Done(e, pair) = Done(f, pair) \cup (IF pair = x THEN {f.j + 1} ELSE {})
             /\ f.j + 1 \notin Done(f, pair) /\ IsFiniteSet(Done(f, pair))
  <2>1. 1..e.j = 1..f.j \cup {f.j + 1}
    BY <1>1, <1>4
  <2>2. Done(f, pair) \in SUBSET (1..f.j) /\ f.j + 1 \notin 1..f.j
    BY <1>1 DEF Done
  <2>3. IsFiniteSet(1..f.j)
    <3>1. 1 \in Int /\ f.j \in Int
      BY <1>1
    <3> QED BY <3>1, FS_Interval
  <2>4. IsFiniteSet(Done(f, pair))
    BY <2>2, <2>3, FS_Subset
  <2> QED BY <1>4, <2>1, <2>2, <2>4 DEF Done, x
<1>10. ASSUME NEW pair \in Entries
       PROVE  Cardinality(CallsAt(e, e.at, pair)) = Cardinality(Done(e, pair))
  <2>1. Cardinality(CallsAt(f, f.at, pair)) = Cardinality(Done(f, pair))
    BY <1>2 DEF Reached
  <2>2. CASE pair = x
    <3>1. CallsAt(e, e.at, pair) = CallsAt(f, f.at, pair) \cup {g}
      BY <1>4, <1>8, <2>2
    <3>2. Done(e, pair) = Done(f, pair) \cup {f.j + 1}
      BY <1>9, <2>2
    <3>3. Cardinality(CallsAt(e, e.at, pair)) = Cardinality(CallsAt(f, f.at, pair)) + 1
      BY <1>8, <3>1, FS_AddElement
    <3>4. Cardinality(Done(e, pair)) = Cardinality(Done(f, pair)) + 1
      BY <1>9, <3>2, FS_AddElement
    <3> QED BY <2>1, <3>3, <3>4
  <2>3. CASE pair # x
    <3>1. CallsAt(e, e.at, pair) = CallsAt(f, f.at, pair)
      <4>1. CallsAt(e, f.at, pair) = CallsAt(f, f.at, pair) \cup {}
        BY <1>8, <2>3
      <4> QED BY <1>4, <4>1
    <3>2. Done(e, pair) = Done(f, pair)
      BY <1>9, <2>3
    <3> QED BY <2>1, <3>1, <3>2
  <2> QED BY <2>2, <2>3
<1>11. ASSUME NEW pair \in Entries, NEW a \in 1..(e.at - 1)
       PROVE  Within(e, order[a], pair, Cardinality(CallsAt(e, a, pair)))
  <2>1. a # f.at
    BY <1>1, <1>4
  <2>2. CallsAt(e, a, pair) = CallsAt(f, a, pair)
    <3>1. CallsAt(e, a, pair) = CallsAt(f, a, pair) \cup {}
      BY <1>8, <2>1
    <3> QED BY <3>1
  <2>3. Within(f, order[a], pair, Cardinality(CallsAt(f, a, pair)))
    BY <1>4 DEF Reached
  <2> QED BY <1>4, <2>2, <2>3 DEF Within
<1>12. ASSUME NEW pair \in Entries
       PROVE  Within(e, order[e.at], pair, Occurrences(e.copy, pair))
  BY <1>2, <1>4 DEF Reached, Within
<1>13. \A h \in e.given : 1 <= h[1] /\ h[1] <= e.at /\ (h[1] = e.at => h[2] < e.j)
  <2> SUFFICES ASSUME NEW h \in e.given
               PROVE  1 <= h[1] /\ h[1] <= e.at /\ (h[1] = e.at => h[2] < e.j)
    OBVIOUS
  <2>1. CASE h = g
    BY <1>1, <1>2, <1>3, <1>4, <2>1
  <2>2. CASE h \in f.given
    <3>1. 1 <= h[1] /\ h[1] <= f.at /\ (h[1] = f.at => h[2] < f.j) /\ h[2] \in Nat
      BY <1>1, <2>2 DEF Reached
    <3> QED BY <1>1, <1>4, <3>1
  <2> QED BY <1>4, <2>1, <2>2
<1>14. Reached(e)
  BY <1>4, <1>7, <1>10, <1>11, <1>12, <1>13 DEF Reached
<1> QED BY <1>2, <1>4, <1>6, <1>14 DEF e, x

\* A FireNow that came to the next state of the map, whose vector it copied.
CopyNext(f) == [f EXCEPT !.at = @ + 1, !.j = 0, !.copy = connected[order[f.at + 1]]]

\* The vector of the next state has every connection of its that is live.
LEMMA CopyCounts ==
    ASSUME Registry, NEW f \in Fires, Copied(f), Reached(f),
           f.j >= Len(f.copy), f.at < Len(order)
    PROVE  /\ CopyNext(f) \in Fires /\ Copied(CopyNext(f)) /\ Reached(CopyNext(f))
           /\ CopyNext(f).kind = "fire" /\ CopyNext(f).at = f.at + 1
           /\ CopyNext(f).copy = connected[order[f.at + 1]] /\ CopyNext(f).j = 0
           /\ \A n \in 1..Len(CopyNext(f).copy) : \E c \in Live :
                 conn[c].state = order[f.at + 1] /\ conn[c].pair = CopyNext(f).copy[n]
<1> DEFINE e == CopyNext(f)
           s == order[f.at + 1]
<1>1. /\ f.at \in Nat /\ f.j \in Nat /\ f.copy \in Seq(Entries) /\ Len(f.copy) \in Nat
      /\ f.born \in SUBSET Nat /\ f.given \in SUBSET (Nat \X Nat \X Entries) /\ f.kind = "fire"
  BY DEF Fires
<1>2. s \in States /\ connected[s] \in Seq(Entries) /\ Len(order) \in Nat
  <2>1. f.at + 1 \in 1..Len(order) /\ order \in Seq(States) /\ Len(order) \in Nat
    BY <1>1 DEF Registry
  <2> QED BY <2>1 DEF Registry
<1>3. /\ e \in Fires /\ e.kind = "fire" /\ e.at = f.at + 1 /\ e.copy = connected[s] /\ e.j = 0
      /\ e.born = f.born /\ e.given = f.given
  <2>1. f.at + 1 \in Nat
    BY <1>1
  <2> HIDE DEF s
  <2>2. e = [f EXCEPT !.at = f.at + 1, !.j = 0, !.copy = connected[s]]
    BY DEF CopyNext, Fires, s
  <2>3. e \in Fires
    <3>1. PICK v : v = connected[s] /\ v \in Seq(Entries)
      BY <1>2
    <3>2. PICK m : m = f.at + 1 /\ m \in Nat
      BY <2>1
    <3>3. e = [f EXCEPT !.at = m, !.j = 0, !.copy = v]
      BY <2>2, <3>1, <3>2
    <3> HIDE DEF e
    <3> QED BY <3>1, <3>2, <3>3 DEF Fires
  <2>4. /\ e.at = f.at + 1 /\ e.copy = connected[s] /\ e.j = 0
        /\ e.kind = f.kind /\ e.born = f.born /\ e.given = f.given
    BY <2>2 DEF Fires
  <2> HIDE DEF e
  <2> QED BY <1>1, <2>3, <2>4
<1> HIDE DEF e
<1>4. \A n \in 1..Len(connected[s]) : \E c \in Live : conn[c].state = s /\ conn[c].pair = connected[s][n]
  <2> SUFFICES ASSUME NEW n \in 1..Len(connected[s])
               PROVE  \E c \in Live : conn[c].state = s /\ conn[c].pair = connected[s][n]
    OBVIOUS
  <2> DEFINE p == connected[s][n]
  <2>1. p \in Entries
    BY <1>2
  <2>2. Occurrences(connected[s], p) # 0
    BY <1>2, PlacesFinite
  <2>3. Cardinality(Made(Live, s, p)) # 0
    <3> HIDE DEF s, p
    <3> QED BY <1>2, <2>1, <2>2 DEF Registry
  <2>4. Made(Live, s, p) # {}
    BY <2>3, FS_EmptySet
  <2> QED BY <2>4 DEF Made
<1>5. Copied(e)
  <2>1. f.at + 1 <= Len(order) /\ f.at + 1 # 0 /\ Live \subseteq 1..Len(conn)
    BY <1>1, <1>2, ConnsAre
  <2>2. 0 <= Len(connected[s])
    BY <1>2
  <2>3. \A n \in 1..Len(connected[s]) : \E c \in 1..Len(conn) : 
           conn[c].state = s /\ conn[c].pair = connected[s][n]
    BY <1>4, <2>1
  <2> QED BY <1>3, <2>1, <2>2, <2>3 DEF Copied
<1>6. ASSUME NEW pair \in Entries
      PROVE  /\ Within(e, s, pair, Occurrences(e.copy, pair))
             /\ Cardinality(CallsAt(e, e.at, pair)) = Cardinality(Done(e, pair))
  <2>1. Occurrences(connected[s], pair) = Cardinality(Made(Live, s, pair))
    BY <1>2 DEF Registry
  <2>2. Live \subseteq 1..Len(conn) /\ Live \in SUBSET (1..Len(conn)) /\ 1..Len(conn) \in SUBSET (1..Len(conn))
    BY ConnsAre
  <2>3. IsFiniteSet(Made(Live, s, pair)) /\ IsFiniteSet(Made(1..Len(conn), s, pair))
    BY <2>2, ConnsAre
  <2>4. Made(f.born \cap Live, s, pair) \in SUBSET Made(Live, s, pair)
    BY DEF Made
  <2>5. Made(Live, s, pair) \in SUBSET Made(1..Len(conn), s, pair)
    BY <2>2 DEF Made
  <2>6. Within(e, s, pair, Occurrences(e.copy, pair))
    <3>1. /\ Cardinality(Made(f.born \cap Live, s, pair)) <= Cardinality(Made(Live, s, pair))
          /\ Cardinality(Made(Live, s, pair)) <= Cardinality(Made(1..Len(conn), s, pair))
      BY <2>3, <2>4, <2>5, FS_Subset
    <3>2. e.born = f.born /\ Occurrences(e.copy, pair) = Cardinality(Made(Live, s, pair))
      BY <1>3, <2>1
    <3> QED BY <3>1, <3>2 DEF Within
  <2>7. CallsAt(e, e.at, pair) = {} /\ Done(e, pair) = {}
    <3>1. \A g \in f.given : g[1] <= f.at /\ g[1] \in Nat
      BY <1>1 DEF Reached
    <3> QED BY <1>1, <1>3, <3>1 DEF CallsAt, Done
  <2> QED BY <2>6, <2>7
<1>7. ASSUME NEW pair \in Entries, NEW a \in 1..(e.at - 1)
      PROVE  Within(e, order[a], pair, Cardinality(CallsAt(e, a, pair)))
  <2>1. CallsAt(e, a, pair) = CallsAt(f, a, pair)
    BY <1>3 DEF CallsAt
  <2>2. CASE a = f.at
    <3>1. f.at > 0 /\ f.j = Len(f.copy)
      BY <1>1, <2>2 DEF Copied
    <3>2. Done(f, pair) = Places(f.copy, pair)
      BY <3>1 DEF Done, Places
    <3>3. Cardinality(CallsAt(f, a, pair)) = Occurrences(f.copy, pair)
      BY <1>1, <2>2, <3>1, <3>2, PlacesFinite DEF Reached
    <3>4. Within(f, order[a], pair, Occurrences(f.copy, pair))
      BY <2>2, <3>1 DEF Reached
    <3> QED BY <1>3, <2>1, <3>3, <3>4 DEF Within
  <2>3. CASE a # f.at
    <3>1. a \in 1..(f.at - 1)
      BY <1>1, <1>3, <2>3
    <3>2. Within(f, order[a], pair, Cardinality(CallsAt(f, a, pair)))
      BY <3>1 DEF Reached
    <3> QED BY <1>3, <2>1, <3>2 DEF Within
  <2> QED BY <2>2, <2>3
<1>8. \A g \in e.given : 1 <= g[1] /\ g[1] <= e.at /\ (g[1] = e.at => g[2] < e.j)
  <2>1. \A g \in f.given : 1 <= g[1] /\ g[1] <= f.at /\ g[1] \in Nat
    BY <1>1 DEF Reached
  <2> QED BY <1>1, <1>3, <2>1
<1>9. Reached(e)
  BY <1>3, <1>6, <1>7, <1>8 DEF Reached
<1> QED BY <1>3, <1>4, <1>5, <1>9 DEF e

\* The frames of a step: each is as it was, or a new one that is all right.
LEMMA FramesKept ==
    ASSUME Registry, Registry', Grows, Frames,
           stack' \in Seq(Codes \cup Fires), Len(stack') <= MaxDepth,
           \A i \in 1..Len(stack') : stack'[i].kind = "fire" =>
              \/ i \in 1..Len(stack) /\ stack'[i] = stack[i]
              \/ i < MaxDepth /\ Copied(stack'[i]) /\ Reached(stack'[i])
    PROVE  Frames'
<1> SUFFICES ASSUME NEW i \in 1..Len(stack'), stack'[i].kind = "fire"
             PROVE  i < MaxDepth /\ Copied(stack[i])' /\ Reached(stack[i])'
  BY DEF Frames
<1>1. PICK f \in Codes \cup Fires : f = stack'[i]
  OBVIOUS
<1>2. f \in Fires
  BY <1>1, FrameKinds
<1>3. i < MaxDepth /\ Copied(f) /\ Reached(f)
  <2>1. CASE i \in 1..Len(stack) /\ stack'[i] = stack[i]
    <3>1. stack[i].kind = "fire"
      BY <2>1
    <3> QED BY <1>1, <2>1, <3>1 DEF Frames
  <2>2. CASE i < MaxDepth /\ Copied(stack'[i]) /\ Reached(stack'[i])
    BY <1>1, <2>2
  <2> QED BY <2>1, <2>2
<1>4. Copied(f)' /\ Reached(f)'
  BY <1>2, <1>3, FireKept
<1> QED BY <1>1, <1>3, <1>4

----------------------------------------------------------------------------
(* The invariant, and what most steps do. *)

\* The coroutines, the connections of Wait, and the code that is a thread's.
Threads == [status : {"suspended", "running", "dead"}, on : Nat]
IsWait(c) == conn[c].pair.func.kind = "wait"
CodeOf(f, t) == f.kind = "code" /\ f.thread = t

\* A running thread is in one code frame, a suspended one in the Wait whose
\* connection it is on.
Coroutines ==
    /\ threads \in Seq(Threads) /\ Len(threads) <= MaxThreads
    /\ \A t \in 1..Len(threads) : threads[t].on <= Len(conn)
    /\ \A i \in 1..Len(stack), t \in Nat \ {0} : CodeOf(stack[i], t) =>
          /\ t <= Len(threads) /\ threads[t].status = "running"
          /\ \A k \in 1..Len(stack) : CodeOf(stack[k], t) => k = i
    /\ \A c \in 1..Len(conn) : IsWait(c) => conn[c].pair.func.thread \in 1..Len(threads)
    /\ \A t \in 1..Len(threads) : threads[t].status = "suspended" =>
          /\ threads[t].on \in Live
          /\ conn[threads[t].on].pair.func = WaitWrapper(threads[t].on, t)

\* What is deferred is the function of a connection of that state and flag.
Pendings ==
    /\ pending \in [States -> [BOOLEAN -> Seq(Funcs)]]
    /\ \A s \in States, d \in BOOLEAN : \A i \in 1..Len(pending[s][d]) :
          \E c \in 1..Len(conn) : conn[c].state = s /\ conn[c].pair = Pair(d, pending[s][d][i])

\* The places where the wrapper of a connection is yet to be called from.
Pends(c, i) ==
    LET calls == pending[conn[c].state][conn[c].pair.desync]
    IN  i \in 1..Len(calls) /\ calls[i] = conn[c].pair.func

\* A place in the copy of a FireNow.
Copies(c, k, n) ==
    /\ k \in 1..Len(stack) /\ stack[k].kind = "fire" /\ stack[k].at > 0
    /\ order[stack[k].at] = conn[c].state
    /\ stack[k].j < n /\ n <= Len(stack[k].copy) /\ stack[k].copy[n] = conn[c].pair

\* There is a place.
Placed(c) == (\E i \in Nat : Pends(c, i)) \/ (\E k, n \in Nat : Copies(c, k, n))
\* A FireNow that did not come to a state yet.
Ahead(f, s) == f.kind = "fire" /\ \E i \in 1..Len(order) : f.at < i /\ order[i] = s

\* A connection of Once or Wait.
Wrapper(c) == c \in 1..Len(conn) /\ conn[c].pair.func.kind # "plain"

\* There is one place at most.
OnePlace(c) ==
    /\ \A i, k \in Nat : Pends(c, i) /\ Pends(c, k) => i = k
    /\ \A k, n, l, m \in Nat : Copies(c, k, n) /\ Copies(c, l, m) => k = l /\ n = m
    /\ \A i, k, n \in Nat : ~(Pends(c, i) /\ Copies(c, k, n))
\* No fire will find what an earlier one has yet to call.
NotAhead(c) ==
    /\ \A i \in Nat : Pends(c, i) =>
          \A l \in 1..Len(stack) : ~Ahead(stack[l], conn[c].state)
    /\ \A k, n \in Nat : Copies(c, k, n) =>
          \A l \in k..Len(stack) : ~Ahead(stack[l], conn[c].state)
\* Unless fires overlap, a wrapper that is to be called has one place, and did
\* not run before.
Single ==
    ~overlapped => \A c \in 1..Len(conn) : Wrapper(c) =>
        /\ OnePlace(c)
        /\ Placed(c) => c \notin ran /\ (IsWait(c) => conn[c].live)
        /\ conn[c].live => NotAhead(c)

\* A wrapper that ran has disconnected itself.
Ran == ran \subseteq 1..Len(conn) /\ \A c \in ran : ~conn[c].live

\* The thread of a Wait that is connected is suspended in it.
Waiters ==
    ~overlapped /\ ~abandoned =>
        \A c \in 1..Len(conn) : IsWait(c) /\ conn[c].live =>
            LET t == conn[c].pair.func.thread
            IN  threads[t].status = "suspended" /\ threads[t].on = c

\* The history.
Flags ==
    /\ overlapped \in BOOLEAN /\ abandoned \in BOOLEAN /\ repeated \in BOOLEAN /\ stale \in BOOLEAN
    /\ fires \in Nat /\ fires <= MaxFires

\* The inductive invariant.
IInv ==
    /\ Registry /\ Frames /\ Coroutines /\ Pendings /\ Single /\ Ran /\ Waiters /\ Flags
    /\ OnceSpawnsOnce /\ ResumedForItsWait

----------------------------------------------------------------------------
(* What most steps do. *)

\* The FireNows go on, or end.
FrameStep ==
    /\ stack' \in Seq(Codes \cup Fires) /\ Len(stack') <= MaxDepth
    /\ \A i \in 1..Len(stack') : stack'[i].kind = "fire" =>
          /\ i \in 1..Len(stack) /\ stack[i].kind = "fire"
          /\ \/ stack'[i] = stack[i]
             \/ stack[i].j < Len(stack[i].copy) /\ stack'[i] = CallNext(stack[i])

\* A thread, or none (0), changes.
ThreadStep(t) ==
    /\ threads' \in Seq(Threads) /\ Len(threads) <= Len(threads') /\ Len(threads') <= MaxThreads
    /\ \A u \in 1..Len(threads') :
          u = t \/ (u \in 1..Len(threads) /\ threads'[u] = threads[u])
    /\ t \in 1..Len(threads') =>
          /\ threads'[t].on <= Len(conn')
          /\ threads'[t].status = "suspended" =>
                /\ threads'[t].on \in Live'
                /\ conn'[threads'[t].on].pair.func = WaitWrapper(threads'[t].on, t)
    /\ \A u \in 1..Len(threads) :
          u # t /\ threads[u].status = "suspended" => threads[u].on \in Live'
    /\ \A i \in 1..Len(stack'), u \in Nat \ {0} : CodeOf(stack'[i], u) =>
          \/ u # t /\ i \in 1..Len(stack) /\ CodeOf(stack[i], u)
          \/ u = t /\ t <= Len(threads') /\ threads'[t].status = "running" /\ i = Len(stack')
    /\ \A c \in (Len(conn) + 1)..Len(conn') :
          IsWait(c)' => conn'[c].pair.func.thread \in 1..Len(threads')

\* Deferred calls are taken from the front.
PendingStep ==
    /\ pending' \in [States -> [BOOLEAN -> Seq(Funcs)]]
    /\ \A s \in States, d \in BOOLEAN :
          \/ pending'[s][d] = pending[s][d]
          \/ pending[s][d] # <<>> /\ pending'[s][d] = Tail(pending[s][d])

\* The wrapper of a connection, or none (0), runs.
WrapperStep(x) ==
    /\ ran' = IF x = 0 THEN ran ELSE ran \cup {x}
    /\ repeated' = (repeated \/ (x # 0 /\ x \in ran))
    /\ x # 0 => /\ Wrapper(x) /\ ~conn'[x].live
                /\ ~overlapped => Placed(x) /\ ~Placed(x)'
    /\ \A c \in 1..Len(conn) : c # x /\ IsWait(c) /\ conn[c].live => conn'[c].live

\* The connections of Wait that are left have threads that do not change; a new
\* one has the thread that does.
WaiterStep(t) ==
    /\ abandoned' \in BOOLEAN /\ (abandoned => abandoned')
    /\ ~overlapped /\ ~abandoned' =>
          /\ \A c \in 1..Len(conn) :
                IsWait(c) /\ conn'[c].live => conn[c].pair.func.thread # t
          /\ \A c \in (Len(conn) + 1)..Len(conn') : IsWait(c)' =>
                /\ conn'[c].pair.func.thread = t
                /\ threads'[t].status = "suspended" /\ threads'[t].on = c
    /\ stale' \in BOOLEAN /\ (stale' => stale \/ overlapped \/ abandoned)

----------------------------------------------------------------------------
(* What they keep. *)

\* Such a step of the FireNows keeps what is known of the stack.
LEMMA FrameStepKeeps ==
    ASSUME Registry, Registry', Grows, Frames, FrameStep
    PROVE  Frames'
<1> SUFFICES ASSUME NEW i \in 1..Len(stack'), stack'[i].kind = "fire"
             PROVE  \/ i \in 1..Len(stack) /\ stack'[i] = stack[i]
                    \/ i < MaxDepth /\ Copied(stack'[i]) /\ Reached(stack'[i])
  BY FramesKept DEF FrameStep
<1>1. CASE stack'[i] = stack[i]
  BY <1>1 DEF FrameStep
<1>2. CASE stack[i].j < Len(stack[i].copy) /\ stack'[i] = CallNext(stack[i])
  <2>1. i \in 1..Len(stack) /\ stack[i].kind = "fire" /\ stack[i] \in Codes \cup Fires
    BY DEF FrameStep, Frames
  <2>2. PICK f \in Fires : f = stack[i]
    BY <2>1, FrameKinds
  <2>3. i < MaxDepth /\ Copied(f) /\ Reached(f)
    BY <2>1, <2>2 DEF Frames
  <2>4. Copied(CallNext(f)) /\ Reached(CallNext(f))
    BY <1>2, <2>2, <2>3, CallCounts
  <2> QED BY <1>2, <2>2, <2>3, <2>4
<1> QED BY <1>1, <1>2 DEF FrameStep

\* One thread changes, and every thread is still where its status says.
LEMMA ThreadStepKeeps ==
    ASSUME Registry, Registry', Grows, Frames', Coroutines, NEW t \in Nat, ThreadStep(t)
    PROVE  Coroutines'
<1>1. /\ Len(threads) \in Nat /\ Len(threads') \in Nat /\ Len(stack') \in Nat
      /\ Len(conn) \in Nat /\ Len(conn') \in Nat /\ Len(conn) <= Len(conn')
      /\ \A u \in 1..Len(threads) : threads[u] \in Threads
      /\ Live' = {c \in 1..Len(conn') : conn'[c].live}
  <2>1. DOMAIN conn' = 1..Len(conn')
    BY DEF Registry
  <2>2. /\ threads \in Seq(Threads) /\ threads' \in Seq(Threads)
        /\ stack' \in Seq(Codes \cup Fires) /\ conn \in Seq(Conns) /\ conn' \in Seq(Conns)
    BY DEF Coroutines, ThreadStep, Registry, Frames
  <2>3. /\ Len(threads) \in Nat /\ Len(threads') \in Nat /\ Len(stack') \in Nat
        /\ Len(conn) \in Nat /\ Len(conn') \in Nat
        /\ \A u \in 1..Len(threads) : threads[u] \in Threads
    BY <2>2
  <2>4. Len(conn) <= Len(conn')
    BY DEF Grows
  <2> QED BY <2>1, <2>3, <2>4 DEF Live
<1>2. \A u \in 1..Len(threads') : threads'[u].on <= Len(conn')
  <2> SUFFICES ASSUME NEW u \in 1..Len(threads'), u # t
               PROVE  threads'[u].on <= Len(conn')
    BY DEF ThreadStep
  <2>1. u \in 1..Len(threads) /\ threads'[u] = threads[u] /\ threads[u].on <= Len(conn)
    BY DEF ThreadStep, Coroutines
  <2>2. threads[u].on \in Nat
    BY <1>1, <2>1 DEF Threads
  <2> QED BY <1>1, <2>1, <2>2
<1>3. ASSUME NEW i \in 1..Len(stack'), NEW u \in Nat \ {0}, CodeOf(stack'[i], u)
      PROVE  /\ u <= Len(threads') /\ threads'[u].status = "running"
             /\ \A k \in 1..Len(stack') : CodeOf(stack'[k], u) => k = i
  <2>1. CASE u = t
    BY <1>3, <2>1 DEF ThreadStep
  <2>2. CASE u # t
    <3>1. i \in 1..Len(stack) /\ CodeOf(stack[i], u)
      BY <1>3, <2>2 DEF ThreadStep
    <3>2. u <= Len(threads) /\ threads[u].status = "running"
      BY <3>1 DEF Coroutines
    <3>3. u \in 1..Len(threads') /\ threads'[u] = threads[u]
      BY <1>1, <2>2, <3>2 DEF ThreadStep
    <3>4. \A k \in 1..Len(stack') : CodeOf(stack'[k], u) => k \in 1..Len(stack) /\ CodeOf(stack[k], u)
      BY <2>2 DEF ThreadStep
    <3>5. \A k \in 1..Len(stack) : CodeOf(stack[k], u) => k = i
      BY <3>1 DEF Coroutines
    <3> QED BY <3>2, <3>3, <3>4, <3>5
  <2> QED BY <2>1, <2>2
<1>4. ASSUME NEW c \in 1..Len(conn'), IsWait(c)'
      PROVE  conn'[c].pair.func.thread \in 1..Len(threads')
  <2>1. CASE c \in 1..Len(conn)
    <3>1. conn'[c].pair = conn[c].pair
      BY <2>1 DEF Grows
    <3>2. conn[c].pair.func.thread \in 1..Len(threads)
      BY <1>4, <2>1, <3>1 DEF Coroutines, IsWait
    <3>3. Len(threads) <= Len(threads')
      BY DEF ThreadStep
    <3>4. 1..Len(threads) \subseteq 1..Len(threads')
      BY <1>1, <3>3
    <3> QED BY <3>1, <3>2, <3>4
  <2>2. CASE c \notin 1..Len(conn)
    <3>1. c \in (Len(conn) + 1)..Len(conn')
      BY <1>1, <2>2
    <3> QED BY <1>4, <3>1 DEF ThreadStep
  <2> QED BY <2>1, <2>2
<1>5. ASSUME NEW u \in 1..Len(threads'), threads'[u].status = "suspended"
      PROVE  /\ threads'[u].on \in Live'
             /\ conn'[threads'[u].on].pair.func = WaitWrapper(threads'[u].on, u)
  <2>1. CASE u = t
    BY <1>5, <2>1 DEF ThreadStep
  <2>2. CASE u # t
    <3>1. u \in 1..Len(threads) /\ threads'[u] = threads[u]
      BY <2>2 DEF ThreadStep
    <3>2. threads[u].on \in Live /\ conn[threads[u].on].pair.func = WaitWrapper(threads[u].on, u)
      BY <1>5, <3>1 DEF Coroutines
    <3>3. threads[u].on \in 1..Len(conn)
      BY <3>2, ConnsAre
    <3>4. conn'[threads[u].on].pair = conn[threads[u].on].pair
      BY <3>3 DEF Grows
    <3> QED BY <1>5, <2>2, <3>1, <3>2, <3>4 DEF ThreadStep
  <2> QED BY <2>1, <2>2
<1>6. threads' \in Seq(Threads) /\ Len(threads') <= MaxThreads
  BY DEF ThreadStep
<1> QED BY <1>2, <1>3, <1>4, <1>5, <1>6 DEF Coroutines

\* What is left of the deferred calls is of connections still.
LEMMA PendingStepKeeps ==
    ASSUME Registry, Registry', Grows, Pendings, PendingStep
    PROVE  Pendings'
<1> SUFFICES ASSUME NEW s \in States, NEW d \in BOOLEAN, NEW i \in 1..Len(pending'[s][d])
             PROVE  \E c \in 1..Len(conn') :
                       conn'[c].state = s /\ conn'[c].pair = Pair(d, pending'[s][d][i])
  BY DEF Pendings, PendingStep
<1>1. PICK k \in 1..Len(pending[s][d]) : pending'[s][d][i] = pending[s][d][k]
  <2> DEFINE q == pending[s][d]
  <2>1. q \in Seq(Funcs) /\ pending'[s][d] \in Seq(Funcs)
    BY DEF Pendings, PendingStep
  <2>2. CASE q # <<>> /\ pending'[s][d] = Tail(q)
    <3> HIDE DEF q
    <3>1. Len(Tail(q)) = Len(q) - 1 /\ \A m \in 1..Len(Tail(q)) : Tail(q)[m] = q[m + 1]
      BY <2>1, <2>2, HeadTailProperties
    <3>2. i + 1 \in 1..Len(q) /\ pending'[s][d][i] = q[i + 1]
      BY <2>1, <2>2, <3>1
    <3> QED BY <3>2 DEF q
  <2> QED BY <2>2 DEF PendingStep
<1>2. PICK c \in 1..Len(conn) : conn[c].state = s /\ conn[c].pair = Pair(d, pending[s][d][k])
  BY DEF Pendings
<1>3. c \in 1..Len(conn') /\ conn'[c].state = conn[c].state /\ conn'[c].pair = conn[c].pair
  <2>1. Len(conn) \in Nat /\ Len(conn') \in Nat /\ Len(conn) <= Len(conn')
    <3>1. conn \in Seq(Conns) /\ conn' \in Seq(Conns)
      BY DEF Registry
    <3>2. Len(conn) \in Nat /\ Len(conn') \in Nat
      BY <3>1
    <3> QED BY <3>2 DEF Grows
  <2> QED BY <2>1 DEF Grows
<1> QED BY <1>1, <1>2, <1>3

\* No step but a fire gives a wrapper a place.
LEMMA PlacesBack ==
    ASSUME Registry, Registry', Grows, Pendings, PendingStep, FrameStep, Frames,
           NEW c \in 1..Len(conn)
    PROVE  /\ \E z \in {0, 1} : \A i \in Nat : Pends(c, i)' => Pends(c, i + z)
           /\ \A k, n \in Nat : Copies(c, k, n)' => Copies(c, k, n)
           /\ \A l \in 1..Len(stack') : Ahead(stack[l], conn[c].state)' =>
                 l \in 1..Len(stack) /\ Ahead(stack[l], conn[c].state)
<1>1. /\ conn'[c].state = conn[c].state /\ conn'[c].pair = conn[c].pair
      /\ conn[c].state \in States /\ conn[c].pair.desync \in BOOLEAN
  BY ConnsAre DEF Grows
<1> DEFINE s == conn[c].state
           d == conn[c].pair.desync
<1>2. \E z \in {0, 1} : \A i \in Nat : Pends(c, i)' => Pends(c, i + z)
  <2> DEFINE q == pending[s][d]
             r == pending'[s][d]
  <2>1. q \in Seq(Funcs) /\ r \in Seq(Funcs)
    BY <1>1 DEF Pendings, PendingStep
  <2>2. \A i \in Nat : Pends(c, i)' <=> i \in 1..Len(r) /\ r[i] = conn[c].pair.func
    BY <1>1 DEF Pends
  <2>3. \A i \in Nat : Pends(c, i) <=> i \in 1..Len(q) /\ q[i] = conn[c].pair.func
    BY DEF Pends
  <2>4. CASE r = q
    <3>1. \A i \in Nat : Pends(c, i)' => Pends(c, i)
      BY <2>2, <2>3, <2>4
    <3>2. \A i \in Nat : i + 0 = i
      OBVIOUS
    <3> QED BY <3>1, <3>2
  <2>5. CASE q # <<>> /\ r = Tail(q)
    <3> HIDE DEF q, r
    <3>1. Len(r) = Len(q) - 1 /\ \A m \in 1..Len(r) : r[m] = q[m + 1]
      BY <2>1, <2>5, HeadTailProperties
    <3>2. ASSUME NEW i \in Nat, Pends(c, i)'
          PROVE  Pends(c, i + 1)
      <4>1. i \in 1..Len(r) /\ r[i] = conn[c].pair.func
        BY <2>2, <3>2
      <4>2. i + 1 \in 1..Len(q) /\ q[i + 1] = r[i]
        BY <2>1, <3>1, <4>1
      <4> QED BY <2>3, <4>1, <4>2
    <3> QED BY <3>2
  <2>6. r = q \/ (q # <<>> /\ r = Tail(q))
    BY <1>1 DEF PendingStep
  <2> QED BY <2>4, <2>5, <2>6
<1>3. ASSUME NEW l \in 1..Len(stack'), stack'[l].kind = "fire"
      PROVE  /\ l \in 1..Len(stack) /\ stack[l].kind = "fire"
             /\ stack'[l].at = stack[l].at /\ stack'[l].copy = stack[l].copy
             /\ stack[l].j <= stack'[l].j /\ stack[l].j \in Nat /\ stack'[l].j \in Nat
             /\ stack[l].at \in 0..Len(order)
  <2>1. l \in 1..Len(stack) /\ stack[l].kind = "fire"
    BY <1>3 DEF FrameStep
  <2>2. PICK f \in Fires : f = stack[l]
    BY <2>1, FrameKinds DEF Frames
  <2>3. Copied(f) /\ Reached(f) /\ f.at \in Nat /\ f.j \in Nat
    BY <2>1, <2>2 DEF Frames, Fires
  <2>4. f.at \in 0..Len(order)
    BY <2>3 DEF Copied, Registry
  <2>5. CASE stack'[l] = stack[l]
    BY <2>1, <2>2, <2>3, <2>4, <2>5
  <2>6. CASE stack[l].j < Len(stack[l].copy) /\ stack'[l] = CallNext(stack[l])
    <3>1. CallNext(f).at = f.at /\ CallNext(f).copy = f.copy /\ CallNext(f).j = f.j + 1
      BY <2>2, <2>3, <2>6, CallCounts
    <3> QED BY <2>1, <2>2, <2>3, <2>4, <2>6, <3>1
  <2> QED BY <1>3, <2>5, <2>6 DEF FrameStep
<1>4. \A k, n \in Nat : Copies(c, k, n)' => Copies(c, k, n)
  <2> SUFFICES ASSUME NEW k \in Nat, NEW n \in Nat, Copies(c, k, n)'
               PROVE  Copies(c, k, n)
    OBVIOUS
  <2>1. /\ k \in 1..Len(stack') /\ stack'[k].kind = "fire" /\ stack'[k].at > 0
        /\ order'[stack'[k].at] = conn'[c].state
        /\ stack'[k].j < n /\ n <= Len(stack'[k].copy) /\ stack'[k].copy[n] = conn'[c].pair
    BY DEF Copies
  <2>2. /\ k \in 1..Len(stack) /\ stack[k].kind = "fire"
        /\ stack'[k].at = stack[k].at /\ stack'[k].copy = stack[k].copy
        /\ stack[k].j <= stack'[k].j /\ stack[k].j \in Nat /\ stack'[k].j \in Nat
        /\ stack[k].at \in 0..Len(order)
    BY <1>3, <2>1
  <2>3. order'[stack[k].at] = order[stack[k].at]
    <3>1. stack[k].at \in 1..Len(order)
      BY <2>1, <2>2
    <3> QED BY <3>1 DEF Grows
  <2>4. stack[k].j < n
    BY <2>1, <2>2
  <2> QED BY <1>1, <2>1, <2>2, <2>3, <2>4 DEF Copies
<1>5. ASSUME NEW l \in 1..Len(stack'), Ahead(stack[l], conn[c].state)'
      PROVE  l \in 1..Len(stack) /\ Ahead(stack[l], conn[c].state)
  <2>1. PICK i \in 1..Len(order') : stack'[l].at < i /\ order'[i] = s
    BY <1>1, <1>5 DEF Ahead
  <2>2. stack'[l].kind = "fire"
    BY <1>5 DEF Ahead
  <2>3. l \in 1..Len(stack) /\ stack[l].kind = "fire" /\ stack'[l].at = stack[l].at
    BY <1>3, <2>2
  <2>4. PICK k \in 1..Len(order) : order[k] = s
    BY DEF Registry
  <2>5. Len(order) \in Nat /\ Len(order') \in Nat
    <3>1. order \in Seq(States) /\ order' \in Seq(States)
      BY DEF Registry
    <3> QED BY <3>1
  <2>6. k \in 1..Len(order') /\ order'[k] = s
    BY <2>4, <2>5 DEF Grows
  <2>7. i = k
    BY <2>1, <2>6 DEF Registry
  <2> QED BY <2>1, <2>3, <2>4, <2>7 DEF Ahead
<1> QED BY <1>2, <1>4, <1>5

----------------------------------------------------------------------------
(* A step keeps the invariant. *)

\* A connection that is made has no place yet.
LEMMA NewUnplaced ==
    ASSUME Registry, Registry', Grows, Pendings, PendingStep, FrameStep, Frames,
           NEW c \in (Len(conn) + 1)..Len(conn'), Wrapper(c)'
    PROVE  /\ \A i \in Nat : ~Pends(c, i)'
           /\ \A k, n \in Nat : ~Copies(c, k, n)'
<1>1. Len(conn) \in Nat /\ Len(conn') \in Nat /\ c \notin 1..Len(conn) /\ c \in 1..Len(conn')
  <2>1. conn \in Seq(Conns) /\ conn' \in Seq(Conns)
    BY DEF Registry
  <2>2. Len(conn) \in Nat /\ Len(conn') \in Nat
    BY <2>1
  <2> QED BY <2>2
<1>2. /\ conn'[c].state \in States /\ conn'[c].pair.desync \in BOOLEAN
      /\ conn'[c].pair.func.kind # "plain" /\ conn'[c].pair.func.of = c
  <2>1. conn'[c] \in Conns
    BY <1>1 DEF Registry
  <2> QED BY <1>1, <2>1, EntriesAre DEF Conns, Registry, Wrapper
<1>3. \A b \in 1..Len(conn) : conn[b].pair.func # conn'[c].pair.func
  <2> SUFFICES ASSUME NEW b \in 1..Len(conn), conn[b].pair.func = conn'[c].pair.func
               PROVE  FALSE
    OBVIOUS
  <2>1. conn[b].pair.func.of = b
    BY <1>2 DEF Registry
  <2> QED BY <1>1, <1>2, <2>1
<1>4. ASSUME NEW i \in Nat, Pends(c, i)'
      PROVE  FALSE
  <2> DEFINE s == conn'[c].state
             d == conn'[c].pair.desync
  <2>1. i \in 1..Len(pending'[s][d]) /\ pending'[s][d][i] = conn'[c].pair.func
    BY <1>4 DEF Pends
  <2>2. Pendings'
    BY PendingStepKeeps
  <2>3. PICK b \in 1..Len(conn) : conn[b].pair.func = pending'[s][d][i]
    <3>1. pending[s][d] \in Seq(Funcs) /\ s \in States /\ d \in BOOLEAN
      BY <1>2 DEF Pendings
    <3>2. \E m \in 1..Len(pending[s][d]) : pending[s][d][m] = pending'[s][d][i]
      <4> DEFINE q == pending[s][d]
                 r == pending'[s][d]
      <4>1. q \in Seq(Funcs) /\ r \in Seq(Funcs)
        BY <3>1 DEF PendingStep
      <4>2. CASE r = q
        BY <2>1, <4>2
      <4>3. CASE q # <<>> /\ r = Tail(q)
        <5> HIDE DEF q, r
        <5>1. Len(r) = Len(q) - 1 /\ \A m \in 1..Len(r) : r[m] = q[m + 1]
          BY <4>1, <4>3, HeadTailProperties
        <5>2. i \in 1..Len(r)
          BY <2>1 DEF r
        <5>3. i + 1 \in 1..Len(q) /\ q[i + 1] = r[i]
          BY <4>1, <5>1, <5>2
        <5> QED BY <5>3 DEF q, r
      <4>4. r = q \/ (q # <<>> /\ r = Tail(q))
        BY <3>1 DEF PendingStep
      <4> QED BY <4>2, <4>3, <4>4
    <3>3. PICK m \in 1..Len(pending[s][d]) : pending[s][d][m] = pending'[s][d][i]
      BY <3>2
    <3> HIDE DEF s, d
    <3>4. \E b \in 1..Len(conn) : conn[b].state = s /\ conn[b].pair = Pair(d, pending[s][d][m])
      BY <3>1, <3>3 DEF Pendings
    <3> QED BY <3>3, <3>4 DEF Pair
  <2> QED BY <1>3, <2>1, <2>3
<1>5. ASSUME NEW k \in Nat, NEW n \in Nat, Copies(c, k, n)'
      PROVE  FALSE
  <2>1. /\ k \in 1..Len(stack') /\ stack'[k].kind = "fire"
        /\ stack'[k].j < n /\ n <= Len(stack'[k].copy) /\ stack'[k].copy[n] = conn'[c].pair
    BY <1>5 DEF Copies
  <2>2. k \in 1..Len(stack) /\ stack[k].kind = "fire"
    BY <2>1 DEF FrameStep
  <2>3. PICK f \in Fires : f = stack[k]
    BY <2>2, FrameKinds DEF Frames
  <2>4. Copied(f) /\ Reached(f) /\ f.j \in Nat /\ f.copy \in Seq(Entries)
    BY <2>2, <2>3 DEF Frames, Fires
  <2>5. stack'[k].copy = f.copy /\ stack'[k].j \in Nat
    <3>1. CASE stack'[k] = stack[k]
      BY <2>3, <2>4, <3>1
    <3>2. CASE stack[k].j < Len(stack[k].copy) /\ stack'[k] = CallNext(stack[k])
      <4>1. CallNext(f).copy = f.copy /\ CallNext(f).j = f.j + 1
        BY <2>3, <2>4, <3>2, CallCounts
      <4> QED BY <2>3, <2>4, <3>2, <4>1
    <3> QED BY <2>1, <3>1, <3>2 DEF FrameStep
  <2>6. n \in 1..Len(f.copy)
    BY <2>1, <2>4, <2>5
  <2>7. PICK b \in 1..Len(conn) : conn[b].pair = f.copy[n]
    BY <2>4, <2>6 DEF Copied
  <2> QED BY <1>3, <2>1, <2>5, <2>7
<1> QED BY <1>4, <1>5

\* A wrapper that runs had one place and has none, and no wrapper gets a second one.
LEMMA SingleStepKeeps ==
    ASSUME Registry, Registry', Grows, Pendings, PendingStep, FrameStep, Frames,
           Single, UNCHANGED overlapped, NEW x, WrapperStep(x)
    PROVE  Single'
<1> SUFFICES ASSUME ~overlapped, NEW c \in 1..Len(conn'), Wrapper(c)'
             PROVE  /\ OnePlace(c)'
                    /\ Placed(c)' => c \notin ran' /\ (IsWait(c)' => conn'[c].live)
                    /\ conn'[c].live => NotAhead(c)'
  BY DEF Single
<1>1. CASE c \notin 1..Len(conn)
  <2>1. c \in (Len(conn) + 1)..Len(conn')
    <3>1. conn \in Seq(Conns) /\ conn' \in Seq(Conns)
      BY DEF Registry
    <3>2. Len(conn) \in Nat /\ Len(conn') \in Nat
      BY <3>1
    <3> QED BY <1>1, <3>2
  <2>2. /\ \A i \in Nat : ~Pends(c, i)'
        /\ \A k, n \in Nat : ~Copies(c, k, n)'
    BY <2>1, NewUnplaced
  <2> QED BY <2>2 DEF OnePlace, Placed, NotAhead
<1>2. CASE c \in 1..Len(conn)
  <2>1. /\ conn'[c].pair = conn[c].pair /\ conn'[c].state = conn[c].state
        /\ conn'[c].live => conn[c].live
    BY <1>2 DEF Grows
  <2>2. Wrapper(c)
    BY <1>2, <2>1 DEF Wrapper
  <2>3. /\ OnePlace(c)
        /\ Placed(c) => c \notin ran /\ (IsWait(c) => conn[c].live)
        /\ conn[c].live => NotAhead(c)
    BY <1>2, <2>2 DEF Single
  <2>4. PICK z \in {0, 1} : \A i \in Nat : Pends(c, i)' => Pends(c, i + z)
    BY <1>2, PlacesBack
  <2>5. \A k, n \in Nat : Copies(c, k, n)' => Copies(c, k, n)
    BY <1>2, PlacesBack
  <2>6. \A l \in 1..Len(stack') : Ahead(stack[l], conn[c].state)' =>
           l \in 1..Len(stack) /\ Ahead(stack[l], conn[c].state)
    BY <1>2, PlacesBack
  <2>7. OnePlace(c)'
    <3>1. ASSUME NEW i \in Nat, NEW k \in Nat, Pends(c, i)', Pends(c, k)'
          PROVE  i = k
      <4>1. Pends(c, i + z) /\ Pends(c, k + z) /\ i + z \in Nat /\ k + z \in Nat
        BY <2>4, <3>1
      <4>2. i + z = k + z
        BY <2>3, <4>1 DEF OnePlace
      <4> QED BY <4>2
    <3>2. ASSUME NEW k \in Nat, NEW n \in Nat, NEW l \in Nat, NEW m \in Nat,
                 Copies(c, k, n)', Copies(c, l, m)'
          PROVE  k = l /\ n = m
      BY <2>3, <2>5, <3>2 DEF OnePlace
    <3>3. ASSUME NEW i \in Nat, NEW k \in Nat, NEW n \in Nat, Pends(c, i)', Copies(c, k, n)'
          PROVE  FALSE
      <4>1. Pends(c, i + z) /\ i + z \in Nat /\ Copies(c, k, n)
        BY <2>4, <2>5, <3>3
      <4> QED BY <2>3, <4>1 DEF OnePlace
    <3> QED BY <3>1, <3>2, <3>3 DEF OnePlace
  <2>8. Placed(c)' => Placed(c)
    <3>1. ASSUME NEW i \in Nat, Pends(c, i)'
          PROVE  Placed(c)
      <4>1. Pends(c, i + z) /\ i + z \in Nat
        BY <2>4, <3>1
      <4> QED BY <4>1 DEF Placed
    <3>2. ASSUME NEW k \in Nat, NEW n \in Nat, Copies(c, k, n)'
          PROVE  Placed(c)
      BY <2>5, <3>2 DEF Placed
    <3> QED BY <3>1, <3>2 DEF Placed
  <2>9. Placed(c)' => c \notin ran' /\ (IsWait(c)' => conn'[c].live)
    <3> SUFFICES ASSUME Placed(c)'
                 PROVE  c \notin ran' /\ (IsWait(c)' => conn'[c].live)
      OBVIOUS
    <3>1. c # x
      <4>1. CASE x = 0
        BY <1>2, <4>1 DEF Registry
      <4>2. CASE x # 0
        BY <4>2 DEF WrapperStep
      <4> QED BY <4>1, <4>2
    <3>2. c \notin ran /\ (IsWait(c) => conn[c].live)
      BY <2>3, <2>8
    <3>3. c \notin ran'
      BY <3>1, <3>2 DEF WrapperStep
    <3> QED BY <1>2, <2>1, <3>1, <3>2, <3>3 DEF WrapperStep, IsWait
  <2>10. conn'[c].live => NotAhead(c)'
    <3> SUFFICES ASSUME conn'[c].live
                 PROVE  NotAhead(c)'
      OBVIOUS
    <3>1. NotAhead(c)
      BY <2>1, <2>3
    <3>2. ASSUME NEW i \in Nat, Pends(c, i)', NEW l \in 1..Len(stack')
          PROVE  ~Ahead(stack[l], conn[c].state)'
      <4>1. Pends(c, i + z) /\ i + z \in Nat
        BY <2>4, <3>2
      <4> QED BY <2>6, <3>1, <4>1 DEF NotAhead
    <3>3. ASSUME NEW k \in Nat, NEW n \in Nat, Copies(c, k, n)', NEW l \in k..Len(stack')
          PROVE  ~Ahead(stack[l], conn[c].state)'
      <4>1. Copies(c, k, n) /\ k \in 1..Len(stack) /\ Len(stack) \in Nat /\ Len(stack') \in Nat
        BY <2>5, <3>3 DEF Copies, Frames, FrameStep
      <4>2. l \in 1..Len(stack')
        BY <4>1
      <4>3. ASSUME Ahead(stack[l], conn[c].state)'
            PROVE  FALSE
        <5>1. l \in 1..Len(stack) /\ Ahead(stack[l], conn[c].state)
          BY <2>6, <4>2, <4>3
        <5>2. l \in k..Len(stack)
          BY <4>1, <5>1
        <5> QED BY <3>1, <4>1, <5>1, <5>2 DEF NotAhead
      <4> QED BY <4>3
    <3> QED BY <3>2, <3>3 DEF NotAhead
  <2> QED BY <2>7, <2>9, <2>10
<1> QED BY <1>1, <1>2

\* A wrapper that had its one place did not run before, so that Once spawns once.
LEMMA WrapperStepKeeps ==
    ASSUME Registry, Registry', Grows, Single, Ran, OnceSpawnsOnce, Flags, UNCHANGED overlapped,
           NEW x, WrapperStep(x)
    PROVE  Ran' /\ OnceSpawnsOnce' /\ repeated' \in BOOLEAN
<1>1. 1..Len(conn) \subseteq 1..Len(conn')
  <2>1. conn \in Seq(Conns) /\ conn' \in Seq(Conns)
    BY DEF Registry
  <2>2. Len(conn) \in Nat /\ Len(conn') \in Nat
    BY <2>1
  <2> QED BY <2>2 DEF Grows
<1>2. Ran'
  <2>1. \A c \in ran : c \in 1..Len(conn') /\ ~conn'[c].live
    BY <1>1 DEF Ran, Grows
  <2>2. x # 0 => x \in 1..Len(conn') /\ ~conn'[x].live
    BY <1>1 DEF WrapperStep, Wrapper
  <2> QED BY <2>1, <2>2 DEF Ran, WrapperStep
<1>3. OnceSpawnsOnce'
  <2>1. ASSUME ~overlapped, x # 0
        PROVE  x \notin ran
    BY <2>1 DEF WrapperStep, Wrapper, Single
  <2> QED BY <2>1 DEF OnceSpawnsOnce, WrapperStep
<1> QED BY <1>2, <1>3 DEF WrapperStep, Flags

\* A connection of Wait that stays has its thread suspended in it still.
LEMMA WaiterStepKeeps ==
    ASSUME Registry, Registry', Grows, Coroutines, Waiters, ResumedForItsWait, Flags,
           UNCHANGED overlapped, NEW t \in Nat, ThreadStep(t), WaiterStep(t)
    PROVE  Waiters' /\ ResumedForItsWait'
<1>1. Waiters'
  <2> SUFFICES ASSUME ~overlapped, ~abandoned', NEW c \in 1..Len(conn'), IsWait(c)', conn'[c].live
               PROVE  LET u == conn'[c].pair.func.thread
                      IN  threads'[u].status = "suspended" /\ threads'[u].on = c
    BY DEF Waiters
  <2>1. CASE c \in 1..Len(conn)
    <3>1. conn'[c].pair = conn[c].pair /\ conn[c].live /\ IsWait(c)
      BY <2>1 DEF Grows, IsWait
    <3> DEFINE u == conn[c].pair.func.thread
    <3>2. ~abandoned /\ u # t
      BY <2>1, <3>1 DEF WaiterStep
    <3>3. threads[u].status = "suspended" /\ threads[u].on = c /\ u \in 1..Len(threads)
      BY <2>1, <3>1, <3>2 DEF Waiters, Coroutines
    <3>4. threads'[u] = threads[u]
      <4>1. threads \in Seq(Threads) /\ threads' \in Seq(Threads) /\ Len(threads) <= Len(threads')
        BY DEF Coroutines, ThreadStep
      <4>2. u \in 1..Len(threads')
        BY <3>3, <4>1
      <4> HIDE DEF u
      <4> QED BY <3>2, <4>2 DEF ThreadStep
    <3> QED BY <3>1, <3>3, <3>4
  <2>2. CASE c \notin 1..Len(conn)
    <3>1. c \in (Len(conn) + 1)..Len(conn')
      <4>1. conn \in Seq(Conns) /\ conn' \in Seq(Conns)
        BY DEF Registry
      <4>2. Len(conn) \in Nat /\ Len(conn') \in Nat
        BY <4>1
      <4> QED BY <2>2, <4>2
    <3> QED BY <3>1 DEF WaiterStep
  <2> QED BY <2>1, <2>2
<1>2. ResumedForItsWait'
  BY DEF ResumedForItsWait, WaiterStep
<1> QED BY <1>1, <1>2

\* So a step like that keeps the invariant.
LEMMA StepKeeps ==
    ASSUME IInv, Registry', Grows, FrameStep, PendingStep, NEW t \in Nat, ThreadStep(t),
           NEW x, WrapperStep(x), WaiterStep(t), UNCHANGED <<overlapped, fires>>
    PROVE  IInv'
<1>1. Frames'
  BY FrameStepKeeps DEF IInv
<1>2. Coroutines'
  BY <1>1, ThreadStepKeeps DEF IInv
<1>3. Pendings'
  BY PendingStepKeeps DEF IInv
<1>4. Single'
  BY SingleStepKeeps DEF IInv
<1>5. Ran' /\ OnceSpawnsOnce' /\ repeated' \in BOOLEAN
  BY WrapperStepKeeps DEF IInv
<1>6. Waiters' /\ ResumedForItsWait'
  BY WaiterStepKeeps DEF IInv
<1>7. Flags'
  BY <1>5 DEF IInv, Flags, WaiterStep
<1> QED BY <1>1, <1>2, <1>3, <1>4, <1>5, <1>6, <1>7 DEF IInv

----------------------------------------------------------------------------
(* Connecting and disconnecting. *)

\* Nothing of the map and of the connections changes.
LEMMA Untouched ==
    ASSUME Registry, UNCHANGED <<order, connected, conn>>
    PROVE  Registry' /\ Grows
<1>1. Registry'
  BY DEF Registry, Live, Made
<1>2. order \in Seq(States) /\ conn \in Seq(Conns)
  BY DEF Registry
<1>3. Len(order) \in Nat /\ Len(conn) \in Nat
  BY <1>2
<1>4. Grows
  BY <1>3 DEF Grows
<1> QED BY <1>1, <1>4

\* A step that changes no thread and no wait.
LEMMA QuietStep ==
    ASSUME IInv, Registry', Grows, UNCHANGED <<threads, abandoned, ran, repeated, stale>>,
           \A c \in 1..Len(conn) : IsWait(c) /\ conn[c].live => conn'[c].live,
           \A c \in (Len(conn) + 1)..Len(conn') : ~IsWait(c)',
           \A i \in 1..Len(stack'), u \in Nat \ {0} :
              CodeOf(stack'[i], u) => i \in 1..Len(stack) /\ CodeOf(stack[i], u)
    PROVE  ThreadStep(0) /\ WrapperStep(0) /\ WaiterStep(0)
<1>1. /\ Registry /\ Coroutines /\ Flags
      /\ threads \in Seq(Threads) /\ Len(threads) \in Nat /\ Len(threads) <= MaxThreads
  BY DEF IInv, Coroutines
<1>2. ASSUME NEW u \in 1..Len(threads), threads[u].status = "suspended"
      PROVE  threads[u].on \in Live'
  <2>1. threads[u].on \in Live /\ conn[threads[u].on].pair.func = WaitWrapper(threads[u].on, u)
    BY <1>1, <1>2 DEF Coroutines
  <2>2. PICK c \in 1..Len(conn) : c = threads[u].on /\ conn[c].live /\ IsWait(c)
    BY <1>1, <2>1, ConnsAre DEF IsWait, WaitWrapper
  <2>3. conn'[c].live /\ DOMAIN conn' = 1..Len(conn') /\ c \in 1..Len(conn')
    <3>1. conn \in Seq(Conns) /\ conn' \in Seq(Conns)
      BY <1>1 DEF Registry
    <3>2. Len(conn) \in Nat /\ Len(conn') \in Nat /\ DOMAIN conn' = 1..Len(conn')
      BY <3>1
    <3> QED BY <2>2, <3>2 DEF Grows
  <2> QED BY <2>2, <2>3 DEF Live
<1>3. ThreadStep(0)
  BY <1>1, <1>2 DEF ThreadStep
<1>4. WrapperStep(0)
  BY <1>1 DEF WrapperStep, Flags
<1>5. WaiterStep(0)
  <2>1. \A c \in 1..Len(conn) : IsWait(c) => conn[c].pair.func.thread # 0
    BY <1>1 DEF Coroutines
  <2> QED BY <1>1, <2>1 DEF WaiterStep, Flags
<1> QED BY <1>3, <1>4, <1>5

\* Nothing of the deferred calls changes.
LEMMA PendingSame ==
    ASSUME Pendings, UNCHANGED pending
    PROVE  PendingStep
BY DEF Pendings, PendingStep

\* The stack of a step that replaces or removes its top.
LEMMA PopStep ==
    ASSUME Frames, stack # <<>>, stack' = Front(stack)
    PROVE  /\ FrameStep /\ Len(stack') = Len(stack) - 1 /\ Len(stack) \in Nat
           /\ \A i \in 1..Len(stack') :
                 i \in 1..Len(stack) /\ i < Len(stack) /\ stack'[i] = stack[i]
<1>1. /\ Len(stack) \in Nat /\ Len(stack) > 0
      /\ stack' \in Seq(Codes \cup Fires) /\ Len(stack') = Len(stack) - 1
      /\ \A i \in 1..(Len(stack) - 1) : stack'[i] = stack[i]
  BY TopOfStack
<1>2. \A i \in 1..Len(stack') : i \in 1..Len(stack) /\ i < Len(stack) /\ stack'[i] = stack[i]
  BY <1>1
<1>3. Len(stack') <= MaxDepth
  BY <1>1, SignalAssumption DEF Frames
<1> QED BY <1>1, <1>2, <1>3 DEF FrameStep

\* Nothing of the stack changes.
LEMMA StackSame ==
    ASSUME Frames, UNCHANGED stack
    PROVE  FrameStep
BY DEF Frames, FrameStep

\* Code of a state is a code frame.
LEMMA CodeMade ==
    \A s \in States, t \in Nat : Code(s, t) \in Codes /\ Code(s, t).kind = "code"
                                 /\ Code(s, t).thread = t
BY DEF Code, Codes

\* A script starts on an empty stack.
LEMMA StartScriptKeeps ==
    ASSUME IInv, NEW s \in States, StartScript(s)
    PROVE  IInv'
<1>1. Registry' /\ Grows
  BY Untouched DEF IInv, StartScript
<1>2. /\ stack' \in Seq(Codes \cup Fires) /\ Len(stack') = 1 /\ stack'[1] = Code(s, 0)
      /\ stack'[1].kind = "code" /\ stack'[1].thread = 0
  BY CodeMade DEF StartScript
<1>3. FrameStep
  BY <1>2, SignalAssumption DEF FrameStep
<1>4. ThreadStep(0) /\ WrapperStep(0) /\ WaiterStep(0)
  <2>1. \A i \in 1..Len(stack'), u \in Nat \ {0} : ~CodeOf(stack'[i], u)
    BY <1>2 DEF CodeOf
  <2>2. UNCHANGED <<conn, threads, abandoned, ran, repeated, stale>>
    BY DEF StartScript, history
  <2>3. Len(conn) \in Nat
    BY DEF IInv, Registry
  <2> QED BY <1>1, <2>1, <2>2, <2>3, QuietStep
<1>5. PendingStep
  BY PendingSame DEF IInv, StartScript
<1> QED BY <1>1, <1>3, <1>4, <1>5, StepKeeps DEF StartScript, history

\* What code is on top, it has a state.
LEMMA CodeOnTop ==
    ASSUME Frames, InCode
    PROVE  /\ stack # <<>> /\ Top \in Codes /\ Top.kind = "code"
           /\ Top.state \in States /\ Top.thread \in Nat
           /\ Len(stack) \in 1..Len(stack) /\ Top = stack[Len(stack)]
<1>1. stack # <<>> /\ Top.kind = "code"
  BY DEF InCode
<1>2. Len(stack) \in Nat /\ Len(stack) > 0 /\ Top = stack[Len(stack)] /\ Top \in Codes \cup Fires
  BY <1>1, TopOfStack
<1>3. Top \in Codes
  BY <1>1, <1>2, FrameKinds
<1> QED BY <1>1, <1>2, <1>3 DEF Codes

\* A connection that is not a Wait disturbs nothing.
LEMMA PlainConnectKeeps ==
    ASSUME IInv, InCode, NEW p \in Entries, ConnectPair(Top.state, p),
           p.func.kind # "plain" => p.func.of = Len(conn) + 1, p.func.kind # "wait",
           UNCHANGED <<pending, stack, threads, repaired, history>>
    PROVE  IInv'
<1>1. Registry /\ Frames /\ Top.state \in States
  BY CodeOnTop DEF IInv
<1>2. /\ Registry' /\ Grows /\ Len(conn') = Len(conn) + 1
      /\ conn'[Len(conn) + 1] = Conn(Top.state, p)
      /\ \A c \in 1..Len(conn) : conn'[c] = conn[c]
  <2>1. PICK s \in States : s = Top.state
    BY <1>1
  <2>2. ConnectPair(s, p)
    BY <2>1
  <2> QED BY <1>1, <2>1, <2>2, RegistryConnect
<1>3. Len(conn) \in Nat
  BY <1>1, ConnsAre
<1>4. FrameStep /\ PendingStep
  BY <1>1, StackSame, PendingSame DEF IInv
<1>5. ThreadStep(0) /\ WrapperStep(0) /\ WaiterStep(0)
  <2>1. \A c \in (Len(conn) + 1)..Len(conn') : ~IsWait(c)'
    <3>1. conn'[Len(conn) + 1].pair = p
      BY <1>2 DEF Conn
    <3>2. \A c \in (Len(conn) + 1)..Len(conn') : c = Len(conn) + 1
      BY <1>2, <1>3
    <3> QED BY <3>1, <3>2 DEF IsWait
  <2>2. UNCHANGED <<threads, abandoned, ran, repeated, stale>>
    BY DEF history
  <2>3. \A i \in 1..Len(stack'), u \in Nat \ {0} :
              CodeOf(stack'[i], u) => i \in 1..Len(stack) /\ CodeOf(stack[i], u)
    OBVIOUS
  <2> QED BY <1>2, <2>1, <2>2, <2>3, QuietStep
<1> QED BY <1>2, <1>4, <1>5, StepKeeps DEF history

\* Connect and ConnectParallel.
LEMMA ConnectKeeps ==
    ASSUME IInv, NEW f \in Functions, NEW d \in BOOLEAN, Connect(f, d)
    PROVE  IInv'
<1>1. Pair(d, Plain(f)) \in Entries /\ Pair(d, Plain(f)).func.kind = "plain"
  BY EntriesAre, FuncsMade DEF Pair
<1> QED BY <1>1, PlainConnectKeeps DEF Connect

\* Once: the wrapper it makes is of the connection it makes.
LEMMA OnceKeeps ==
    ASSUME IInv, NEW d \in BOOLEAN, Once(d)
    PROVE  IInv'
<1> DEFINE c == Len(conn) + 1
<1>1. c \in 1..MaxConns
  <2>1. Len(conn) \in Nat /\ Len(conn) < MaxConns
    BY ConnsAre DEF IInv, Once, ConnectPair
  <2> QED BY <2>1, SignalAssumption
<1>2. /\ OnceWrapper(c) \in Funcs /\ OnceWrapper(c).kind = "once" /\ OnceWrapper(c).of = c
  BY <1>1, FuncsMade
<1>3. /\ Pair(d, OnceWrapper(c)) \in Entries /\ Pair(d, OnceWrapper(c)).func.kind = "once"
      /\ Pair(d, OnceWrapper(c)).func.of = c
  BY <1>2, EntriesAre DEF Pair
<1> QED BY <1>3, PlainConnectKeeps DEF Once

\* Disconnect, of a connection that is not a Wait's.
LEMMA DisconnectKeeps ==
    ASSUME IInv, NEW c \in DOMAIN conn, Disconnect(c)
    PROVE  IInv'
<1>1. Registry /\ Frames /\ c \in 1..Len(conn) /\ Len(conn) \in Nat
  BY ConnsAre DEF IInv
<1>2. /\ Registry' /\ Grows /\ Len(conn') = Len(conn)
      /\ \A k \in 1..Len(conn) : k # c => conn'[k] = conn[k]
  BY <1>1, RegistryDisconnect DEF Disconnect
<1>3. FrameStep /\ PendingStep
  BY <1>1, StackSame, PendingSame DEF IInv, Disconnect
<1>4. ThreadStep(0) /\ WrapperStep(0) /\ WaiterStep(0)
  <2>1. \A k \in (Len(conn) + 1)..Len(conn') : ~IsWait(k)'
    BY <1>1, <1>2
  <2>2. UNCHANGED <<stack, threads, abandoned, ran, repeated, stale>>
    BY DEF Disconnect, history
  <2>3. \A i \in 1..Len(stack'), u \in Nat \ {0} :
              CodeOf(stack'[i], u) => i \in 1..Len(stack) /\ CodeOf(stack[i], u)
    BY <2>2
  <2>4. \A k \in 1..Len(conn) : IsWait(k) /\ conn[k].live => conn'[k].live
    BY <1>2 DEF Disconnect, IsWait
  <2> QED BY <1>2, <2>1, <2>2, <2>3, <2>4, QuietStep
<1> QED BY <1>2, <1>3, <1>4, StepKeeps DEF Disconnect, history

\* Code returns: the thread it was is dead.
LEMMA ReturnKeeps ==
    ASSUME IInv, Return
    PROVE  IInv'
<1> DEFINE t == Top.thread
<1>1. /\ Registry' /\ Grows /\ PendingStep /\ Frames /\ Coroutines /\ InCode
      /\ UNCHANGED <<conn, abandoned, ran, repeated, stale, overlapped, fires>>
  BY Untouched, PendingSame DEF IInv, Return, history
<1>2. /\ stack # <<>> /\ Top.kind = "code" /\ t \in Nat
      /\ Len(stack) \in 1..Len(stack) /\ Top = stack[Len(stack)]
  BY <1>1, CodeOnTop
<1>3. /\ FrameStep /\ Len(stack') = Len(stack) - 1 /\ Len(stack) \in Nat
      /\ \A i \in 1..Len(stack') : i \in 1..Len(stack) /\ i < Len(stack) /\ stack'[i] = stack[i]
  BY <1>1, <1>2, PopStep DEF Return
<1>4. Len(conn) \in Nat
  BY ConnsAre DEF IInv
<1>5. CASE t = 0
  <2>1. UNCHANGED threads
    BY <1>5 DEF Return
  <2>2. \A i \in 1..Len(stack'), u \in Nat \ {0} :
              CodeOf(stack'[i], u) => i \in 1..Len(stack) /\ CodeOf(stack[i], u)
    BY <1>3
  <2>3. ThreadStep(0) /\ WrapperStep(0) /\ WaiterStep(0)
    BY <1>1, <1>4, <2>1, <2>2, QuietStep
  <2> QED BY <1>1, <1>3, <2>3, StepKeeps
<1>6. CASE t # 0
  <2>1. CodeOf(stack[Len(stack)], t)
    BY <1>2 DEF CodeOf
  <2>2. /\ t \in 1..Len(threads) /\ threads[t].status = "running"
        /\ \A k \in 1..Len(stack) : CodeOf(stack[k], t) => k = Len(stack)
        /\ threads \in Seq(Threads) /\ Len(threads) \in Nat /\ threads[t] \in Threads
    <3>1. t <= Len(threads) /\ threads[t].status = "running"
          /\ \A k \in 1..Len(stack) : CodeOf(stack[k], t) => k = Len(stack)
      BY <1>1, <1>2, <1>6, <2>1 DEF Coroutines
    <3>2. threads \in Seq(Threads) /\ Len(threads) \in Nat
      BY <1>1 DEF Coroutines
    <3> HIDE DEF t
    <3> QED BY <1>2, <1>6, <3>1, <3>2
  <2>3. /\ threads' \in Seq(Threads) /\ Len(threads') = Len(threads)
        /\ threads'[t].status = "dead" /\ threads'[t].on = threads[t].on
        /\ \A u \in 1..Len(threads) : u # t => threads'[u] = threads[u]
    <3>1. threads' = [threads EXCEPT ![t].status = "dead"]
      BY <1>6 DEF Return
    <3>2. PICK r \in Threads : r = [threads[t] EXCEPT !.status = "dead"]
      BY <2>2 DEF Threads
    <3>3. r.status = "dead" /\ r.on = threads[t].on
      BY <2>2, <3>2 DEF Threads
    <3>4. threads' = [threads EXCEPT ![t] = r]
      BY <3>1, <3>2
    <3> HIDE DEF t
    <3> QED BY <2>2, <3>3, <3>4
  <2>4. ThreadStep(t)
    <3>1. Len(threads') <= MaxThreads /\ threads[t].on <= Len(conn)
      BY <1>1, <2>2, <2>3 DEF Coroutines
    <3>2. \A u \in 1..Len(threads) : threads[u].status = "suspended" => threads[u].on \in Live'
      BY <1>1 DEF Coroutines, Live
    <3>3. ASSUME NEW i \in 1..Len(stack'), NEW u \in Nat \ {0}, CodeOf(stack'[i], u)
          PROVE  u # t /\ i \in 1..Len(stack) /\ CodeOf(stack[i], u)
      <4>1. i \in 1..Len(stack) /\ i < Len(stack) /\ CodeOf(stack[i], u)
        BY <1>3, <3>3
      <4>2. i # Len(stack)
        BY <1>3, <4>1
      <4> HIDE DEF t
      <4> QED BY <2>2, <4>1, <4>2
    <3> HIDE DEF t
    <3> QED BY <1>1, <1>4, <2>2, <2>3, <3>1, <3>2, <3>3 DEF ThreadStep
  <2>5. WrapperStep(0)
    BY <1>1 DEF WrapperStep, IInv, Flags
  <2>6. WaiterStep(t)
    <3>1. \A c \in 1..Len(conn) : ~overlapped /\ ~abandoned /\ IsWait(c) /\ conn[c].live =>
             conn[c].pair.func.thread # t
      BY <2>2 DEF IInv, Waiters
    <3> HIDE DEF t
    <3> QED BY <1>1, <1>4, <3>1 DEF WaiterStep, IInv, Flags
  <2> HIDE DEF t
  <2> QED BY <1>1, <1>2, <1>3, <2>4, <2>5, <2>6, StepKeeps
<1> QED BY <1>5, <1>6

----------------------------------------------------------------------------
(* Waiting. *)

\* The running coroutine is new, or known to run, and is the top of the stack only.
LEMMA RunningThread ==
    ASSUME IInv, InCode
    PROVE  /\ Running \in 1..(Len(threads) + 1) /\ Len(threads) \in Nat
           /\ Running \in 1..Len(threads) => threads[Running].status = "running"
           /\ \A i \in 1..Len(stack) : CodeOf(stack[i], Running) => i = Len(stack)
<1>1. /\ Coroutines /\ Top.thread \in Nat /\ Top.kind = "code"
      /\ Len(stack) \in 1..Len(stack) /\ Top = stack[Len(stack)]
  BY CodeOnTop DEF IInv
<1>2. threads \in Seq(Threads) /\ Len(threads) \in Nat
  BY <1>1 DEF Coroutines
<1>3. CASE Top.thread = 0
  <2>1. Running = Len(threads) + 1
    BY <1>3 DEF Running
  <2>2. \A i \in 1..Len(stack) : ~CodeOf(stack[i], Len(threads) + 1)
    BY <1>1, <1>2 DEF Coroutines
  <2> QED BY <1>2, <2>1, <2>2
<1>4. CASE Top.thread # 0
  <2>1. Running = Top.thread
    BY <1>4 DEF Running
  <2>2. CodeOf(stack[Len(stack)], Top.thread)
    BY <1>1 DEF CodeOf
  <2>3. /\ Top.thread <= Len(threads) /\ threads[Top.thread].status = "running"
        /\ \A k \in 1..Len(stack) : CodeOf(stack[k], Top.thread) => k = Len(stack)
    BY <1>1, <1>4, <2>2 DEF Coroutines
  <2> QED BY <1>1, <1>2, <1>4, <2>1, <2>3
<1> QED BY <1>3, <1>4

\* The running thread changes, and no other.
LEMMA BecomesOne ==
    ASSUME IInv, InCode, NEW status \in {"suspended", "running", "dead"}, NEW c \in Nat,
           Becomes(status, c)
    PROVE  /\ threads' \in Seq(Threads) /\ Len(threads') \in Nat
           /\ Len(threads) <= Len(threads') /\ Len(threads') <= MaxThreads
           /\ Running \in 1..Len(threads') /\ Running \in 1..MaxThreads
           /\ threads'[Running].status = status /\ threads'[Running].on = c
           /\ \A u \in 1..Len(threads') : u # Running =>
                 u \in 1..Len(threads) /\ threads'[u] = threads[u]
<1> DEFINE r == [status |-> status, on |-> c]
<1>1. /\ r \in Threads /\ r.status = status /\ r.on = c
  BY DEF Threads
<1>2. /\ Running \in 1..(Len(threads) + 1) /\ Len(threads) \in Nat
      /\ threads \in Seq(Threads) /\ Len(threads) <= MaxThreads /\ Running <= MaxThreads
  BY RunningThread DEF IInv, Coroutines, Becomes
<1>3. threads' = IF Top.thread = 0 THEN Append(threads, r) ELSE [threads EXCEPT ![Top.thread] = r]
  BY DEF Becomes
<1> HIDE DEF r
<1>4. CASE Top.thread = 0
  <2>1. Running = Len(threads) + 1 /\ threads' = Append(threads, r)
    BY <1>3, <1>4 DEF Running
  <2>2. /\ threads' \in Seq(Threads) /\ Len(threads') = Len(threads) + 1
        /\ threads'[Len(threads) + 1] = r
        /\ \A u \in 1..Len(threads) : threads'[u] = threads[u]
    BY <1>1, <1>2, <2>1, Pushed
  <2>3. \A u \in 1..Len(threads') : u # Running => u \in 1..Len(threads)
    BY <1>2, <2>1, <2>2
  <2> QED BY <1>1, <1>2, <2>1, <2>2, <2>3, SignalAssumption
<1>5. CASE Top.thread # 0
  <2>1. Running = Top.thread /\ threads' = [threads EXCEPT ![Running] = r]
    BY <1>3, <1>5 DEF Running
  <2>2. Running \in 1..Len(threads)
    <3>1. Top.thread \in Nat /\ Len(stack) \in 1..Len(stack) /\ CodeOf(stack[Len(stack)], Top.thread)
      BY CodeOnTop DEF IInv, CodeOf
    <3>2. Top.thread <= Len(threads)
      BY <1>5, <3>1 DEF IInv, Coroutines
    <3> QED BY <1>2, <1>5, <2>1, <3>1, <3>2
  <2> QED BY <1>1, <1>2, <2>1, <2>2, SignalAssumption
<1> QED BY <1>4, <1>5

\* The connection of Wait is live and has the running thread.
LEMMA WaitConnects ==
    ASSUME IInv, InCode, NEW d \in BOOLEAN, Running \in 1..MaxThreads,
           ConnectPair(Top.state, Pair(d, WaitWrapper(Len(conn) + 1, Running)))
    PROVE  /\ Registry' /\ Grows /\ Len(conn) \in Nat /\ Len(conn') = Len(conn) + 1
           /\ \A c \in 1..Len(conn) : conn'[c] = conn[c]
           /\ conn'[Len(conn) + 1].live
           /\ conn'[Len(conn) + 1].pair.func = WaitWrapper(Len(conn) + 1, Running)
           /\ WaitWrapper(Len(conn) + 1, Running).thread = Running
           /\ Live' = Live \cup {Len(conn) + 1}
<1> DEFINE c == Len(conn) + 1
           g == WaitWrapper(c, Running)
<1>1. Len(conn) \in Nat /\ c \in 1..MaxConns /\ Registry
  <2>1. Len(conn) \in Nat /\ Len(conn) < MaxConns
    BY ConnsAre DEF IInv, ConnectPair
  <2> QED BY <2>1, SignalAssumption DEF IInv
<1>2. g \in Funcs /\ g.kind = "wait" /\ g.of = c /\ g.thread = Running
  BY <1>1, FuncsMade
<1>3. PICK p \in Entries : p = Pair(d, g) /\ p.func = g
  BY <1>2, EntriesAre DEF Pair
<1>4. PICK s \in States : s = Top.state
  BY CodeOnTop DEF IInv
<1>5. ConnectPair(s, p) /\ (p.func.kind # "plain" => p.func.of = c)
  BY <1>2, <1>3, <1>4
<1>6. /\ Registry' /\ Grows /\ Len(conn') = c /\ conn'[c] = Conn(s, p)
      /\ \A k \in 1..Len(conn) : conn'[k] = conn[k]
  BY <1>1, <1>5, RegistryConnect
<1>7. conn'[c].live /\ conn'[c].pair = p
  BY <1>6 DEF Conn
<1>8. Live' = Live \cup {c}
  <2>1. DOMAIN conn = 1..Len(conn) /\ DOMAIN conn' = 1..Len(conn')
    BY <1>1, <1>6 DEF Registry
  <2>2. 1..Len(conn') = 1..Len(conn) \cup {c}
    BY <1>1, <1>6
  <2> HIDE DEF c
  <2> QED BY <1>6, <1>7, <2>1, <2>2 DEF Live
<1> QED BY <1>1, <1>2, <1>3, <1>6, <1>7, <1>8

\* No live Wait is of a running thread, unless fires overlapped.
LEMMA NotWaiting ==
    ASSUME IInv, NEW t, t \in 1..Len(threads) => threads[t].status = "running",
           ~overlapped, ~abandoned, NEW c \in 1..Len(conn), IsWait(c), conn[c].live
    PROVE  conn[c].pair.func.thread # t
<1>1. /\ conn[c].pair.func.thread \in 1..Len(threads)
      /\ threads[conn[c].pair.func.thread].status = "suspended"
  BY DEF IInv, Coroutines, Waiters
<1> QED BY <1>1

\* Wait: the thread that was running is suspended in the connection it made.
LEMMA WaitKeeps ==
    ASSUME IInv, NEW d \in BOOLEAN, Wait(d)
    PROVE  IInv'
<1> DEFINE c == Len(conn) + 1
           t == Running
<1>1. /\ InCode /\ PendingStep /\ Frames /\ Coroutines /\ Flags
      /\ UNCHANGED <<abandoned, ran, repeated, stale, overlapped, fires>>
      /\ ConnectPair(Top.state, Pair(d, WaitWrapper(c, t)))
      /\ Becomes("suspended", c) /\ stack' = Front(stack)
  BY PendingSame DEF IInv, Wait, history
<1>2. /\ Len(threads) \in Nat /\ t \in 1..Len(threads) => threads[t].status = "running"
      /\ \A i \in 1..Len(stack) : CodeOf(stack[i], t) => i = Len(stack)
  BY <1>1, RunningThread
<1>3. Len(conn) \in Nat /\ c \in Nat
  BY ConnsAre DEF IInv
<1>4. /\ threads' \in Seq(Threads) /\ Len(threads') \in Nat
      /\ Len(threads) <= Len(threads') /\ Len(threads') <= MaxThreads
      /\ t \in 1..Len(threads') /\ t \in 1..MaxThreads
      /\ threads'[t].status = "suspended" /\ threads'[t].on = c
      /\ \A u \in 1..Len(threads') : u # t => u \in 1..Len(threads) /\ threads'[u] = threads[u]
  BY <1>1, <1>3, BecomesOne
<1>5. /\ Registry' /\ Grows /\ Len(conn') = c
      /\ \A k \in 1..Len(conn) : conn'[k] = conn[k]
      /\ conn'[c].live /\ conn'[c].pair.func = WaitWrapper(c, t)
      /\ WaitWrapper(c, t).thread = t /\ Live' = Live \cup {c}
  BY <1>1, <1>4, WaitConnects
<1>6. /\ FrameStep
      /\ \A i \in 1..Len(stack') : i \in 1..Len(stack) /\ i < Len(stack) /\ stack'[i] = stack[i]
  BY <1>1, PopStep DEF InCode
<1>7. \A k \in (Len(conn) + 1)..Len(conn') : k = c
  BY <1>3, <1>5
<1> HIDE DEF c, t
<1>8. ThreadStep(t)
  <2>1. \A u \in 1..Len(threads) : threads[u].status = "suspended" => threads[u].on \in Live'
    BY <1>1, <1>5 DEF Coroutines
  <2>2. ASSUME NEW i \in 1..Len(stack'), NEW u \in Nat \ {0}, CodeOf(stack'[i], u)
        PROVE  u # t /\ i \in 1..Len(stack) /\ CodeOf(stack[i], u)
    <3>1. i \in 1..Len(stack) /\ i < Len(stack) /\ CodeOf(stack[i], u)
      BY <1>6, <2>2
    <3>2. Len(stack) \in Nat
      BY <1>1 DEF Frames
    <3>3. i # Len(stack)
      BY <3>1, <3>2
    <3> QED BY <1>2, <3>1, <3>3
  <2>3. threads'[t].on <= Len(conn') /\ threads'[t].on \in Live'
        /\ conn'[threads'[t].on].pair.func = WaitWrapper(threads'[t].on, t)
    BY <1>3, <1>4, <1>5
  <2>4. \A k \in (Len(conn) + 1)..Len(conn') : conn'[k].pair.func.thread \in 1..Len(threads')
    BY <1>4, <1>5, <1>7
  <2> QED BY <1>4, <2>1, <2>2, <2>3, <2>4 DEF ThreadStep
<1>9. WrapperStep(0)
  BY <1>1, <1>5 DEF WrapperStep, Flags
<1>10. WaiterStep(t)
  <2>1. \A k \in 1..Len(conn) : ~overlapped /\ ~abandoned /\ IsWait(k) /\ conn[k].live =>
             conn[k].pair.func.thread # t
    BY <1>2, NotWaiting
  <2> QED BY <1>1, <1>4, <1>5, <1>7, <2>1 DEF WaiterStep, Flags
<1> QED BY <1>1, <1>4, <1>5, <1>6, <1>8, <1>9, <1>10, StepKeeps

\* Wait of C++: the connection is made and the thread goes on.
LEMMA CppWaitKeeps ==
    ASSUME IInv, NEW d \in BOOLEAN, CppWait(d)
    PROVE  IInv'
<1> DEFINE c == Len(conn) + 1
           t == Running
<1>1. /\ InCode /\ PendingStep /\ Frames /\ Coroutines /\ Flags
      /\ UNCHANGED <<ran, repeated, stale, overlapped, fires>> /\ abandoned' = TRUE
      /\ ConnectPair(Top.state, Pair(d, WaitWrapper(c, t)))
      /\ Becomes("running", 0)
      /\ stack' = Append(Front(stack), [Top EXCEPT !.thread = t])
  BY PendingSame DEF IInv, CppWait, history
<1>2. /\ Len(threads) \in Nat /\ t \in 1..Len(threads) => threads[t].status = "running"
      /\ \A i \in 1..Len(stack) : CodeOf(stack[i], t) => i = Len(stack)
  BY <1>1, RunningThread
<1>3. Len(conn) \in Nat /\ c \in Nat
  BY ConnsAre DEF IInv
<1>4. /\ threads' \in Seq(Threads) /\ Len(threads') \in Nat
      /\ Len(threads) <= Len(threads') /\ Len(threads') <= MaxThreads
      /\ t \in 1..Len(threads') /\ t \in 1..MaxThreads
      /\ threads'[t].status = "running" /\ threads'[t].on = 0
      /\ \A u \in 1..Len(threads') : u # t => u \in 1..Len(threads) /\ threads'[u] = threads[u]
  BY <1>1, <1>3, BecomesOne
<1>5. /\ Registry' /\ Grows /\ Len(conn') = c
      /\ \A k \in 1..Len(conn) : conn'[k] = conn[k]
      /\ conn'[c].live /\ conn'[c].pair.func = WaitWrapper(c, t)
      /\ WaitWrapper(c, t).thread = t /\ Live' = Live \cup {c}
  BY <1>1, <1>4, WaitConnects
<1>6. \A k \in (Len(conn) + 1)..Len(conn') : k = c
  BY <1>3, <1>5
<1>7. /\ stack' \in Seq(Codes \cup Fires) /\ Len(stack') = Len(stack) /\ Len(stack) \in Nat
      /\ Len(stack) > 0
      /\ stack'[Len(stack)].kind = "code" /\ stack'[Len(stack)].thread = t
      /\ \A i \in 1..(Len(stack) - 1) : stack'[i] = stack[i]
  <2>1. stack # <<>> /\ Top \in Codes
    BY <1>1, CodeOnTop
  <2>2. PICK r \in Codes : r = [Top EXCEPT !.thread = t]
    <3>1. PICK m \in Nat : m = t
      BY <1>4
    <3>2. [Top EXCEPT !.thread = m] \in Codes
      BY <2>1 DEF Codes
    <3> QED BY <3>1, <3>2
  <2>3. r.kind = "code" /\ r.thread = t /\ r \in Codes \cup Fires
    BY <2>1, <2>2 DEF Codes
  <2>4. /\ Len(stack) \in Nat /\ Len(stack) > 0
        /\ Front(stack) \in Seq(Codes \cup Fires) /\ Len(Front(stack)) = Len(stack) - 1
        /\ \A i \in 1..(Len(stack) - 1) : Front(stack)[i] = stack[i]
    BY <1>1, <2>1, TopOfStack
  <2>5. PICK q \in Seq(Codes \cup Fires) : q = Front(stack)
    BY <2>4
  <2>6. stack' = Append(q, r)
    BY <1>1, <2>2, <2>5
  <2>7. /\ stack' \in Seq(Codes \cup Fires) /\ Len(stack') = Len(q) + 1
        /\ stack'[Len(q) + 1] = r /\ \A i \in 1..Len(q) : stack'[i] = q[i]
    BY <2>3, <2>6, Pushed
  <2>8. Len(q) = Len(stack) - 1 /\ Len(q) + 1 = Len(stack)
    BY <2>4, <2>5
  <2> QED BY <2>3, <2>4, <2>5, <2>7, <2>8
<1> HIDE DEF c, t
<1>8. FrameStep
  <2>1. \A i \in 1..Len(stack') : i \in 1..(Len(stack) - 1) \/ i = Len(stack)
    BY <1>7
  <2>2. \A i \in 1..(Len(stack) - 1) : i \in 1..Len(stack)
    BY <1>7
  <2> QED BY <1>1, <1>7, <2>1, <2>2 DEF FrameStep, Frames
<1>9. ThreadStep(t)
  <2>1. \A u \in 1..Len(threads) : threads[u].status = "suspended" => threads[u].on \in Live'
    BY <1>1, <1>5 DEF Coroutines
  <2>2. ASSUME NEW i \in 1..Len(stack'), NEW u \in Nat \ {0}, CodeOf(stack'[i], u)
        PROVE  \/ u # t /\ i \in 1..Len(stack) /\ CodeOf(stack[i], u)
               \/ u = t /\ t <= Len(threads') /\ threads'[t].status = "running" /\ i = Len(stack')
    <3>1. CASE i = Len(stack)
      <4>1. u = t
        BY <1>7, <2>2, <3>1 DEF CodeOf
      <4> QED BY <1>4, <1>7, <3>1, <4>1
    <3>2. CASE i # Len(stack)
      <4>1. i \in 1..(Len(stack) - 1) /\ i \in 1..Len(stack)
        BY <1>7, <3>2
      <4> QED BY <1>2, <1>7, <2>2, <3>2, <4>1
    <3> QED BY <3>1, <3>2
  <2>3. threads'[t].on <= Len(conn')
    BY <1>3, <1>4, <1>5
  <2>4. \A k \in (Len(conn) + 1)..Len(conn') : conn'[k].pair.func.thread \in 1..Len(threads')
    BY <1>4, <1>5, <1>6
  <2> QED BY <1>4, <2>1, <2>2, <2>3, <2>4 DEF ThreadStep
<1>10. WrapperStep(0)
  BY <1>1, <1>5 DEF WrapperStep, Flags
<1>11. WaiterStep(t)
  BY <1>1 DEF WaiterStep, Flags
<1> QED BY <1>1, <1>4, <1>5, <1>8, <1>9, <1>10, <1>11, StepKeeps

----------------------------------------------------------------------------
(* Running a handler. *)

\* A handler starts on top of base, or there is none to start.
OnBase(base) ==
    /\ base \in Seq(Codes \cup Fires) /\ Len(base) < MaxDepth
    /\ \A i \in 1..Len(base) : base[i].kind = "fire" =>
          /\ i \in 1..Len(stack) /\ stack[i].kind = "fire"
          /\ \/ base[i] = stack[i]
             \/ stack[i].j < Len(stack[i].copy) /\ base[i] = CallNext(stack[i])
    /\ \A i \in 1..Len(base) : base[i].kind = "code" => i \in 1..Len(stack) /\ base[i] = stack[i]

\* Whatever a handler does at its start, the FireNows below it are those of base.
LEMMA BaseFrames ==
    ASSUME NEW base, OnBase(base), NEW s \in States, NEW t \in Nat,
           stack' = base \/ stack' = Append(base, Code(s, t))
    PROVE  /\ FrameStep /\ Len(base) \in Nat /\ Len(base) <= Len(stack')
           /\ \A i \in 1..Len(stack') : stack'[i].kind = "fire" =>
                 i \in 1..Len(base) /\ stack'[i] = base[i]
           /\ \A i \in 1..Len(stack'), u \in Nat \ {0} : CodeOf(stack'[i], u) =>
                 \/ i \in 1..Len(stack) /\ CodeOf(stack[i], u)
                 \/ u = t /\ i = Len(stack')
<1>1. /\ base \in Seq(Codes \cup Fires) /\ Len(base) \in Nat /\ Len(base) < MaxDepth
  BY DEF OnBase
<1>2. CASE stack' = base
  <2>1. Len(base) <= MaxDepth
    BY <1>1, SignalAssumption
  <2> QED BY <1>1, <1>2, <2>1 DEF OnBase, FrameStep, CodeOf
<1>3. CASE stack' = Append(base, Code(s, t))
  <2>1. Code(s, t) \in Codes \cup Fires /\ Code(s, t).kind = "code" /\ Code(s, t).thread = t
    BY CodeMade
  <2>2. /\ stack' \in Seq(Codes \cup Fires) /\ Len(stack') = Len(base) + 1
        /\ stack'[Len(base) + 1] = Code(s, t)
        /\ \A i \in 1..Len(base) : stack'[i] = base[i]
    BY <1>1, <1>3, <2>1, Pushed
  <2>3. Len(stack') <= MaxDepth /\ Len(base) <= Len(stack')
    BY <1>1, <2>2, SignalAssumption
  <2>4. \A i \in 1..Len(stack') : i \in 1..Len(base) \/ i = Len(base) + 1
    BY <1>1, <2>2
  <2>5. \A i \in 1..Len(stack') : stack'[i].kind = "fire" => i \in 1..Len(base) /\ stack'[i] = base[i]
    BY <2>1, <2>2, <2>4
  <2>6. FrameStep
    BY <2>2, <2>3, <2>5 DEF OnBase, FrameStep
  <2>7. ASSUME NEW i \in 1..Len(stack'), NEW u \in Nat \ {0}, CodeOf(stack'[i], u)
        PROVE  \/ i \in 1..Len(stack) /\ CodeOf(stack[i], u)
               \/ u = t /\ i = Len(stack')
    <3>1. CASE i \in 1..Len(base)
      BY <2>2, <2>7, <3>1 DEF OnBase, CodeOf
    <3>2. CASE i = Len(base) + 1
      BY <2>1, <2>2, <2>7, <3>2 DEF CodeOf
    <3> QED BY <2>4, <3>1, <3>2
  <2> QED BY <1>1, <2>3, <2>5, <2>6, <2>7
<1> QED BY <1>2, <1>3

\* A handler runs: the function of a connection, on top of base.
LEMMA RunEffect ==
    ASSUME IInv, NEW s \in States, NEW g, NEW base, Run(s, g, base), OnBase(base),
           NEW c \in 1..Len(conn), conn[c].pair.func = g,
           ~overlapped /\ Wrapper(c) => Placed(c)
    PROVE  /\ Registry' /\ Grows /\ FrameStep /\ UNCHANGED <<order, overlapped, fires>>
           /\ \E t \in Nat : ThreadStep(t) /\ WaiterStep(t)
           /\ (~overlapped /\ Wrapper(c) => ~Placed(c)') => \E x : WrapperStep(x)
           /\ \A i \in 1..Len(stack') : stack'[i].kind = "fire" =>
                 i \in 1..Len(base) /\ stack'[i] = base[i]
<1>1. /\ Registry /\ Frames /\ Coroutines /\ Flags /\ Single /\ Waiters
      /\ UNCHANGED <<order, overlapped, fires, abandoned>>
      /\ Len(conn) \in Nat /\ g \in Funcs
  BY ConnsAre DEF IInv, Run
<1>2. CASE RunPlain(s, g, base) \/ WrapperRaises(s, g, base)
  <2>1. /\ UNCHANGED <<connected, conn, threads, ran, repeated, stale>>
        /\ stack' = base \/ stack' = Append(base, Code(s, 0))
    BY <1>2 DEF RunPlain, WrapperRaises
  <2>2. Registry' /\ Grows
    BY <1>1, <2>1, Untouched
  <2>3. /\ FrameStep
        /\ \A i \in 1..Len(stack') : stack'[i].kind = "fire" => i \in 1..Len(base) /\ stack'[i] = base[i]
        /\ \A i \in 1..Len(stack'), u \in Nat \ {0} : CodeOf(stack'[i], u) =>
              i \in 1..Len(stack) /\ CodeOf(stack[i], u)
    BY <2>1, BaseFrames
  <2>4. ThreadStep(0) /\ WrapperStep(0) /\ WaiterStep(0)
    BY <1>1, <2>1, <2>2, <2>3, QuietStep
  <2> QED BY <1>1, <2>2, <2>3, <2>4
<1>3. CASE RunOnce(s, g, base) \/ RunWait(s, g, base)
  <2>1. /\ g.kind # "plain" /\ Disconnected(g.of) /\ ran' = ran \cup {g.of}
        /\ repeated' = (repeated \/ g.of \in ran)
    BY <1>3 DEF RunOnce, RunWait, WrapperRuns, WrapperDisconnects
  <2>2. g.of = c /\ Wrapper(c) /\ c # 0
    BY <1>1, <2>1 DEF Registry, Wrapper
  <2>3. /\ Registry' /\ Grows /\ Len(conn') = Len(conn) /\ ~conn'[c].live
        /\ \A k \in 1..Len(conn) : k # c => conn'[k] = conn[k]
    BY <1>1, <2>1, <2>2, RegistryDisconnect
  <2>4. ASSUME ~overlapped, ~Placed(c)'
        PROVE  WrapperStep(c)
    BY <2>1, <2>2, <2>3, <2>4 DEF WrapperStep
  <2>5. (~overlapped /\ Wrapper(c) => ~Placed(c)') => \E x : WrapperStep(x)
    <3>1. ASSUME overlapped
          PROVE  WrapperStep(c)
      BY <2>1, <2>2, <2>3, <3>1 DEF WrapperStep
    <3> QED BY <2>2, <2>4, <3>1
  <2>6. \A u \in 1..Len(threads) : threads[u].status = "suspended" /\ threads[u].on # c =>
           threads[u].on \in Live'
    <3> SUFFICES ASSUME NEW u \in 1..Len(threads), threads[u].status = "suspended", threads[u].on # c
                 PROVE  threads[u].on \in Live'
      OBVIOUS
    <3>1. threads[u].on \in 1..Len(conn) /\ conn[threads[u].on].live
      BY <1>1, ConnsAre DEF Coroutines
    <3>2. DOMAIN conn' = 1..Len(conn')
      BY <2>3 DEF Registry
    <3> QED BY <2>3, <3>1, <3>2 DEF Live
  <2>7. \A k \in (Len(conn) + 1)..Len(conn') : FALSE
    BY <1>1, <2>3
  <2>8. ASSUME NEW k \in 1..Len(conn), IsWait(k), conn'[k].live, ~overlapped, ~abandoned,
               NEW t, g.kind = "wait", t = g.thread
        PROVE  conn[k].pair.func.thread # t
    <3>1. k # c /\ conn[k].live
      BY <2>3, <2>8
    <3>2. conn[c].live /\ IsWait(c)
      BY <1>1, <2>2, <2>8 DEF Single, IsWait
    <3> QED BY <1>1, <2>8, <3>1, <3>2 DEF Waiters
  <2>9. ASSUME NEW u \in 1..Len(threads), threads[u].status = "suspended", threads[u].on = c
         PROVE  g.kind = "wait" /\ g.thread = u
    <3>1. conn[threads[u].on].pair.func = WaitWrapper(threads[u].on, u)
      BY <1>1, <2>9 DEF Coroutines
    <3>2. g = WaitWrapper(c, u)
      BY <2>9, <3>1
    <3> QED BY <3>2 DEF WaitWrapper
  <2>10. CASE threads' = threads /\ stale' = stale
             /\ (stack' = base \/ stack' = Append(base, Code(s, 0)))
             /\ \A u \in 1..Len(threads) : threads[u].status = "suspended" => threads[u].on # c
    <3>1. /\ FrameStep
          /\ \A i \in 1..Len(stack') : stack'[i].kind = "fire" => i \in 1..Len(base) /\ stack'[i] = base[i]
          /\ \A i \in 1..Len(stack'), u \in Nat \ {0} : CodeOf(stack'[i], u) =>
              i \in 1..Len(stack) /\ CodeOf(stack[i], u)
      BY <2>10, BaseFrames
    <3>2. /\ threads \in Seq(Threads) /\ Len(threads) \in Nat /\ Len(threads) <= MaxThreads
      BY <1>1 DEF Coroutines
    <3>3. ThreadStep(0)
      BY <2>6, <2>7, <2>10, <3>1, <3>2 DEF ThreadStep
    <3>4. \A k \in 1..Len(conn) : IsWait(k) => conn[k].pair.func.thread # 0
      BY <1>1 DEF Coroutines
    <3>5. WaiterStep(0)
      BY <1>1, <2>7, <2>10, <3>4 DEF WaiterStep, Flags
    <3> QED BY <1>1, <2>3, <2>5, <3>1, <3>3, <3>5
  <2>11. CASE RunOnce(s, g, base)
    <3>1. /\ g.kind = "once" /\ stack' = Append(base, Code(s, 0)) /\ threads' = threads /\ stale' = stale
      BY <2>11 DEF RunOnce
    <3>2. \A u \in 1..Len(threads) : threads[u].status = "suspended" => threads[u].on # c
      BY <2>9, <3>1
    <3> QED BY <2>10, <3>1, <3>2
  <2>12. CASE RunWait(s, g, base) /\ threads[g.thread].status # "suspended"
    <3>1. g.kind = "wait" /\ stack' = base /\ threads' = threads /\ stale' = stale
      BY <1>1, <2>12 DEF RunWait, Flags
    <3>2. \A u \in 1..Len(threads) : threads[u].status = "suspended" => threads[u].on # c
      BY <2>12, <2>9
    <3> QED BY <2>10, <3>1, <3>2
  <2>13. CASE RunWait(s, g, base) /\ threads[g.thread].status = "suspended"
    <3> DEFINE t == g.thread
               r == [status |-> "running", on |-> 0]
    <3>1. /\ g.kind = "wait" /\ stack' = Append(base, Code(s, t))
          /\ threads' = [threads EXCEPT ![t] = r]
          /\ stale' = (stale \/ threads[t].on # c)
      BY <2>2, <2>13 DEF RunWait
    <3>2. /\ t \in 1..Len(threads) /\ t \in Nat \ {0} /\ threads \in Seq(Threads)
          /\ Len(threads) \in Nat /\ Len(threads) <= MaxThreads
      <4>1. threads \in Seq(Threads) /\ Len(threads) \in Nat /\ Len(threads) <= MaxThreads
        BY <1>1 DEF Coroutines
      <4>2. t \in 1..Len(threads)
        BY <1>1, <3>1 DEF Coroutines, IsWait
      <4> QED BY <4>1, <4>2
    <3>3. r \in Threads /\ r.status = "running" /\ r.on = 0
      BY DEF Threads
    <3> HIDE DEF r
    <3>4. /\ threads' \in Seq(Threads) /\ Len(threads') = Len(threads)
          /\ threads'[t] = r /\ \A u \in 1..Len(threads) : u # t => threads'[u] = threads[u]
      BY <3>1, <3>2, <3>3
    <3>5. /\ FrameStep
          /\ \A i \in 1..Len(stack') : stack'[i].kind = "fire" => i \in 1..Len(base) /\ stack'[i] = base[i]
          /\ \A i \in 1..Len(stack'), u \in Nat \ {0} : CodeOf(stack'[i], u) =>
                 \/ i \in 1..Len(stack) /\ CodeOf(stack[i], u)
                 \/ u = t /\ i = Len(stack')
      BY <3>1, <3>2, BaseFrames
    <3>6. \A i \in 1..Len(stack) : ~CodeOf(stack[i], t)
      BY <1>1, <2>13, <3>2 DEF Coroutines
    <3>7. \A u \in 1..Len(threads) : u # t /\ threads[u].status = "suspended" => threads[u].on # c
      BY <2>9
    <3>8. ThreadStep(t)
      <4>1. 0 <= Len(conn')
        BY <1>1, <2>3
      <4> HIDE DEF t
      <4>2. /\ threads' \in Seq(Threads) /\ Len(threads) <= Len(threads') /\ Len(threads') <= MaxThreads
            /\ \A u \in 1..Len(threads') :
                  u = t \/ (u \in 1..Len(threads) /\ threads'[u] = threads[u])
        BY <3>2, <3>4
      <4>3. threads'[t].on <= Len(conn') /\ threads'[t].status = "running"
        BY <3>3, <3>4, <4>1
      <4>4. \A u \in 1..Len(threads) :
               u # t /\ threads[u].status = "suspended" => threads[u].on \in Live'
        BY <2>6, <3>7
      <4>5. \A i \in 1..Len(stack'), u \in Nat \ {0} : CodeOf(stack'[i], u) =>
               \/ u # t /\ i \in 1..Len(stack) /\ CodeOf(stack[i], u)
               \/ u = t /\ t <= Len(threads') /\ threads'[t].status = "running" /\ i = Len(stack')
        <5>1. t <= Len(threads')
          BY <3>2, <3>4
        <5> QED BY <3>5, <3>6, <4>3, <5>1
      <4>6. \A k \in (Len(conn) + 1)..Len(conn') :
               IsWait(k)' => conn'[k].pair.func.thread \in 1..Len(threads')
        BY <2>7
      <4>7. threads'[t].status # "suspended"
        BY <4>3
      <4> QED BY <4>2, <4>3, <4>4, <4>5, <4>6, <4>7 DEF ThreadStep
    <3>9. WaiterStep(t)
      <4>1. stale' \in BOOLEAN
        BY <1>1, <3>1 DEF Flags
      <4>2. ASSUME ~overlapped, ~abandoned
            PROVE  threads[t].on = c
        <5>1. conn[c].live /\ IsWait(c)
          BY <1>1, <2>2, <3>1, <4>2 DEF Single, IsWait
        <5> QED BY <1>1, <4>2, <5>1 DEF Waiters
      <4>3. stale' => stale \/ overlapped \/ abandoned
        BY <3>1, <4>2
      <4>4. \A k \in 1..Len(conn) : ~overlapped /\ ~abandoned /\ IsWait(k) /\ conn'[k].live =>
               conn[k].pair.func.thread # t
        BY <2>8, <3>1
      <4> HIDE DEF t
      <4> QED BY <1>1, <2>7, <4>1, <4>3, <4>4 DEF WaiterStep, Flags
    <3> QED BY <1>1, <2>3, <2>5, <3>2, <3>5, <3>8, <3>9
  <2> QED BY <1>3, <2>11, <2>12, <2>13
<1> QED BY <1>2, <1>3 DEF Run

\* The scheduler runs the first deferred call of a state.
LEMMA RunDeferredKeeps ==
    ASSUME IInv, NEW s \in States, NEW d \in BOOLEAN, RunDeferred(s, d)
    PROVE  IInv'
<1> DEFINE q == pending[s][d]
<1>1. /\ stack = <<>> /\ q # <<>> /\ pending' = [pending EXCEPT ![s][d] = Tail(@)]
      /\ Run(s, Head(q), <<>>)
  BY DEF RunDeferred
<1>2. /\ pending \in [States -> [BOOLEAN -> Seq(Funcs)]] /\ q \in Seq(Funcs) /\ Len(q) > 0
      /\ Registry /\ Pendings /\ Frames /\ Single /\ Len(stack) = 0
  BY <1>1 DEF IInv, Pendings
<1>3. PendingStep /\ pending'[s][d] = Tail(q)
  <2>1. Tail(q) \in Seq(Funcs)
    BY <1>1, <1>2, HeadTailProperties
  <2>2. PICK v \in Seq(Funcs) : v = Tail(q)
    BY <2>1
  <2>3. pending' = [pending EXCEPT ![s][d] = v]
    BY <1>1, <1>2, <2>2
  <2>4. /\ pending' \in [States -> [BOOLEAN -> Seq(Funcs)]] /\ pending'[s][d] = v
        /\ \A r \in States, e \in BOOLEAN : r # s \/ e # d => pending'[r][e] = pending[r][e]
    BY <1>2, <2>3
  <2>5. ASSUME NEW r \in States, NEW e \in BOOLEAN
        PROVE  \/ pending'[r][e] = pending[r][e]
               \/ pending[r][e] # <<>> /\ pending'[r][e] = Tail(pending[r][e])
    BY <1>1, <2>2, <2>4
  <2> QED BY <2>2, <2>4, <2>5 DEF PendingStep
<1>4. PICK g \in Funcs : g = Head(q) /\ g = q[1]
  BY <1>1, <1>2
<1>5. 1 \in 1..Len(q)
  BY <1>2
<1>6. \E c \in 1..Len(conn) : conn[c].state = s /\ conn[c].pair = Pair(d, q[1])
  BY <1>2, <1>5 DEF Pendings
<1>7. PICK c \in 1..Len(conn) : /\ conn[c].state = s /\ conn[c].pair = Pair(d, g)
                                /\ conn[c].pair.func = g /\ conn[c].pair.desync = d
  BY <1>4, <1>6 DEF Pair
<1>8. Pends(c, 1)
  BY <1>4, <1>5, <1>7 DEF Pends
<1>9. OnBase(<<>>)
  <2>1. <<>> \in Seq(Codes \cup Fires) /\ Len(<<>>) = 0
    BY EmptySeq
  <2> QED BY <2>1, SignalAssumption DEF OnBase
<1>10. /\ Registry' /\ Grows /\ FrameStep /\ UNCHANGED <<order, overlapped, fires>>
       /\ \E t \in Nat : ThreadStep(t) /\ WaiterStep(t)
       /\ (~overlapped /\ Wrapper(c) => ~Placed(c)') => \E x : WrapperStep(x)
  <2>1. Placed(c)
    BY <1>8 DEF Placed
  <2>2. PICK base : base = <<>>
    OBVIOUS
  <2>3. Run(s, g, base) /\ OnBase(base)
    BY <1>1, <1>4, <1>9, <2>2
  <2> QED BY <1>7, <2>1, <2>3, RunEffect
<1>11. ASSUME ~overlapped, Wrapper(c)
       PROVE  ~Placed(c)'
  <2>1. OnePlace(c)
    BY <1>2, <1>11 DEF Single
  <2>2. conn'[c].pair = conn[c].pair /\ conn'[c].state = conn[c].state
    BY <1>10 DEF Grows
  <2>3. ASSUME NEW i \in Nat, Pends(c, i)'
        PROVE  FALSE
    <3>1. i \in 1..Len(Tail(q)) /\ Tail(q)[i] = g
      BY <1>3, <1>7, <2>2, <2>3 DEF Pends
    <3> HIDE DEF q
    <3>2. Len(Tail(q)) = Len(q) - 1 /\ \A m \in 1..Len(Tail(q)) : Tail(q)[m] = q[m + 1]
      BY <1>1, <1>2, HeadTailProperties
    <3>3. i + 1 \in 1..Len(q) /\ q[i + 1] = g /\ i + 1 \in Nat /\ 1 \in Nat
      BY <1>2, <3>1, <3>2
    <3>4. Pends(c, i + 1)
      BY <1>7, <3>3 DEF Pends, q
    <3>5. i + 1 = 1
      BY <1>8, <2>1, <3>3, <3>4 DEF OnePlace
    <3>6. i \in Nat /\ i # 0
      BY <3>1
    <3> QED BY <3>5, <3>6
  <2>4. ASSUME NEW k \in Nat, NEW n \in Nat, Copies(c, k, n)'
        PROVE  FALSE
    <3>1. k \in 1..Len(stack)
      BY <1>10, <2>4 DEF Copies, FrameStep
    <3> QED BY <1>2, <3>1
  <2> QED BY <2>3, <2>4 DEF Placed
<1> QED BY <1>3, <1>10, <1>11, StepKeeps

----------------------------------------------------------------------------
(* FireNow goes on. *)

\* The FireNow on top.
LEMMA FireOnTop ==
    ASSUME IInv, stack # <<>>, Top.kind = "fire"
    PROVE  /\ Len(stack) \in Nat /\ Len(stack) > 0 /\ Len(stack) \in 1..Len(stack)
           /\ Top \in Fires /\ Top = stack[Len(stack)]
           /\ Copied(Top) /\ Reached(Top) /\ Len(stack) < MaxDepth
           /\ Top.at \in Nat /\ Top.j \in Nat /\ Top.copy \in Seq(Entries) /\ Len(Top.copy) \in Nat
           /\ Front(stack) \in Seq(Codes \cup Fires) /\ Len(Front(stack)) = Len(stack) - 1
           /\ \A i \in 1..(Len(stack) - 1) : Front(stack)[i] = stack[i]
<1>1. /\ Len(stack) \in Nat /\ Len(stack) > 0 /\ Top = stack[Len(stack)]
      /\ Top \in Codes \cup Fires
      /\ Front(stack) \in Seq(Codes \cup Fires) /\ Len(Front(stack)) = Len(stack) - 1
      /\ \A i \in 1..(Len(stack) - 1) : Front(stack)[i] = stack[i]
  BY TopOfStack DEF IInv
<1>2. Len(stack) \in 1..Len(stack)
  BY <1>1
<1>3. Top \in Fires
  BY <1>1, FrameKinds
<1>4. Copied(Top) /\ Reached(Top) /\ Len(stack) < MaxDepth
  BY <1>1, <1>2 DEF IInv, Frames
<1>5. Top.at \in Nat /\ Top.j \in Nat /\ Top.copy \in Seq(Entries) /\ Len(Top.copy) \in Nat
  BY <1>3 DEF Fires
<1> QED BY <1>1, <1>2, <1>3, <1>4, <1>5

\* A FireNow calls the next function of its copy.
LEMMA FireCallKeeps ==
    ASSUME IInv, stack # <<>>, Top.kind = "fire", FireCall
    PROVE  IInv'
<1> DEFINE L == Len(stack)
<1>1. PICK f \in Fires : f = Top
  BY FireOnTop
<1>2. /\ L \in Nat /\ L > 0 /\ L \in 1..L /\ f = stack[L] /\ f.kind = "fire"
      /\ Copied(f) /\ Reached(f) /\ L < MaxDepth
      /\ f.at \in Nat /\ f.j \in Nat /\ f.copy \in Seq(Entries) /\ Len(f.copy) \in Nat
      /\ Front(stack) \in Seq(Codes \cup Fires) /\ Len(Front(stack)) = L - 1
      /\ \A i \in 1..(L - 1) : Front(stack)[i] = stack[i]
  BY <1>1, FireOnTop
<1>3. PICK base : base = Append(Front(stack), CallNext(f))
  OBVIOUS
<1>4. /\ f.j < Len(f.copy) /\ UNCHANGED pending
      /\ Run(order[f.at], f.copy[f.j + 1].func, base)
  BY <1>1, <1>3 DEF FireCall, Iterated, CallNext
<1>5. Registry /\ Frames /\ Single /\ Pendings
  BY DEF IInv
<1>6. /\ CallNext(f) \in Fires /\ CallNext(f).at = f.at /\ CallNext(f).copy = f.copy
      /\ CallNext(f).j = f.j + 1 /\ f.at > 0 /\ CallNext(f).kind = "fire"
  BY <1>2, <1>4, <1>5, CallCounts
<1>7. f.j + 1 \in 1..Len(f.copy) /\ f.j + 1 \in Nat
  BY <1>2, <1>4
<1>8. PICK c \in 1..Len(conn) : conn[c].state = order[f.at] /\ conn[c].pair = f.copy[f.j + 1]
  BY <1>2, <1>7 DEF Copied
<1>9. PICK s \in States : s = order[f.at] /\ s = conn[c].state
  BY <1>5, <1>8, ConnsAre
<1>10. Copies(c, L, f.j + 1)
  BY <1>2, <1>6, <1>7, <1>8 DEF Copies
<1>11. /\ OnBase(base) /\ Len(base) = L /\ base[L] = CallNext(f)
  <2>1. PICK q \in Seq(Codes \cup Fires) : q = Front(stack)
    BY <1>2
  <2>2. PICK x \in Codes \cup Fires : x = CallNext(f)
    BY <1>6
  <2>3. Len(q) = L - 1 /\ Len(q) + 1 = L
    BY <1>2, <2>1
  <2>4. /\ base \in Seq(Codes \cup Fires) /\ Len(base) = L /\ base[L] = x
        /\ \A i \in 1..(L - 1) : base[i] = q[i]
    <3>1. base = Append(q, x)
      BY <1>3, <2>1, <2>2
    <3>2. /\ base \in Seq(Codes \cup Fires) /\ Len(base) = Len(q) + 1
          /\ base[Len(q) + 1] = x /\ \A i \in 1..Len(q) : base[i] = q[i]
      BY <3>1, Pushed
    <3> HIDE DEF L
    <3> QED BY <2>3, <3>2
  <2>5. \A i \in 1..(L - 1) : base[i] = stack[i] /\ i \in 1..L
    BY <1>2, <2>1, <2>4
  <2>6. \A i \in 1..Len(base) : i \in 1..(L - 1) \/ i = L
    BY <1>2, <2>4
  <2> QED BY <1>2, <1>4, <1>6, <2>2, <2>4, <2>5, <2>6 DEF OnBase
<1>12. /\ Registry' /\ Grows /\ FrameStep /\ UNCHANGED <<order, overlapped, fires>>
       /\ \E t \in Nat : ThreadStep(t) /\ WaiterStep(t)
       /\ (~overlapped /\ Wrapper(c) => ~Placed(c)') => \E x : WrapperStep(x)
       /\ \A i \in 1..Len(stack') : stack'[i].kind = "fire" =>
                 i \in 1..Len(base) /\ stack'[i] = base[i]
  <2>1. Placed(c)
    BY <1>2, <1>7, <1>10 DEF Placed
  <2>2. PICK g : g = conn[c].pair.func
    OBVIOUS
  <2>3. Run(s, g, base)
    BY <1>4, <1>8, <1>9, <2>2
  <2> QED BY <1>11, <2>1, <2>2, <2>3, RunEffect
<1>13. PendingStep
  BY <1>4, <1>5, PendingSame
<1>14. ASSUME ~overlapped, Wrapper(c)
       PROVE  ~Placed(c)'
  <2>1. OnePlace(c)
    BY <1>5, <1>14 DEF Single
  <2>2. conn'[c].pair = conn[c].pair /\ conn'[c].state = conn[c].state
    BY <1>12 DEF Grows
  <2>3. ASSUME NEW i \in Nat, Pends(c, i)'
        PROVE  FALSE
    <3>1. Pends(c, i)
      BY <1>4, <2>2, <2>3 DEF Pends
    <3> QED BY <1>2, <1>7, <1>10, <2>1, <3>1 DEF OnePlace
  <2>4. ASSUME NEW k \in Nat, NEW n \in Nat, Copies(c, k, n)'
        PROVE  FALSE
    <3>1. Copies(c, k, n)
      BY <1>5, <1>12, <1>13, <2>4, PlacesBack
    <3>2. k = L /\ n = f.j + 1
      BY <1>2, <1>7, <1>10, <2>1, <3>1 DEF OnePlace
    <3>3. k \in 1..Len(stack') /\ stack'[k].kind = "fire" /\ stack'[k].j < n
      BY <2>4 DEF Copies
    <3>4. stack'[k] = CallNext(f)
      BY <1>11, <1>12, <3>2, <3>3
    <3> QED BY <1>2, <1>6, <3>2, <3>3, <3>4
  <2> QED BY <2>3, <2>4 DEF Placed
<1> QED BY <1>12, <1>13, <1>14, StepKeeps

\* A FireNow is through.
LEMMA FireEndKeeps ==
    ASSUME IInv, stack # <<>>, FireEnd
    PROVE  IInv'
<1>1. /\ Registry' /\ Grows /\ PendingStep /\ Frames
      /\ UNCHANGED <<conn, threads, abandoned, ran, repeated, stale, overlapped, fires>>
      /\ stack' = Front(stack)
  BY Untouched, PendingSame DEF IInv, FireEnd, history
<1>2. /\ FrameStep
      /\ \A i \in 1..Len(stack') : i \in 1..Len(stack) /\ stack'[i] = stack[i]
  BY <1>1, PopStep
<1>3. Len(conn) \in Nat
  BY ConnsAre DEF IInv
<1>4. ThreadStep(0) /\ WrapperStep(0) /\ WaiterStep(0)
  BY <1>1, <1>2, <1>3, QuietStep
<1> QED BY <1>1, <1>2, <1>4, StepKeeps

\* A wrapper is connected at most once.
LEMMA ConnectedOnce ==
    ASSUME Registry, NEW c, Wrapper(c), NEW s \in States, conn[c].state = s,
           NEW n \in 1..Len(connected[s]), NEW m \in 1..Len(connected[s]),
           connected[s][n] = conn[c].pair, connected[s][m] = conn[c].pair
    PROVE  n = m
<1> DEFINE p == conn[c].pair
<1>1. connected[s] \in Seq(Entries) /\ p \in Entries /\ Live \subseteq 1..Len(conn)
  BY ConnsAre DEF Registry, Wrapper
<1>2. Made(Live, s, p) \in SUBSET {c}
  <2>1. ASSUME NEW b \in Made(Live, s, p)
        PROVE  b = c
    <3>1. b \in 1..Len(conn) /\ conn[b].pair = p
      BY <1>1, <2>1 DEF Made
    <3> QED BY <3>1 DEF Registry, Wrapper
  <2> QED BY <2>1
<1>3. IsFiniteSet({c}) /\ Cardinality({c}) = 1
  BY FS_Singleton
<1>4. Cardinality(Made(Live, s, p)) <= 1 /\ Cardinality(Made(Live, s, p)) \in Nat
  <2> HIDE DEF p
  <2>1. IsFiniteSet(Made(Live, s, p)) /\ Cardinality(Made(Live, s, p)) <= Cardinality({c})
    BY <1>2, <1>3, FS_Subset
  <2> QED BY <1>3, <2>1, FS_CardinalityType
<1>5. Cardinality(Places(connected[s], p)) <= 1 /\ IsFiniteSet(Places(connected[s], p))
      /\ Cardinality(Places(connected[s], p)) \in Nat
  <2>1. Occurrences(connected[s], p) = Cardinality(Made(Live, s, p))
    BY <1>1 DEF Registry
  <2>2. Occurrences(connected[s], p) = Cardinality(Places(connected[s], p))
        /\ IsFiniteSet(Places(connected[s], p))
    BY <1>1, PlacesFinite
  <2> QED BY <1>4, <2>1, <2>2
<1>6. n \in Places(connected[s], p) /\ m \in Places(connected[s], p)
  BY DEF Places
<1> DEFINE P == Places(connected[s], p)
<1>7. P # {} /\ IsFiniteSet(P)
  BY <1>5, <1>6
<1>8. Cardinality(P) = 1
  <2> HIDE DEF P
  <2>1. Cardinality(P) # 0
    BY <1>7, FS_EmptySet
  <2>2. Cardinality(P) \in Nat /\ Cardinality(P) <= 1
    BY <1>5 DEF P
  <2> QED BY <2>1, <2>2
<1>9. \E x : P = {x}
  <2> HIDE DEF P
  <2> QED BY <1>7, <1>8, FS_Singleton
<1> QED BY <1>6, <1>9

\* A pair that is connected is that of a live connection.
LEMMA ConnectedLive ==
    ASSUME Registry, NEW s \in States, NEW n \in 1..Len(connected[s])
    PROVE  \E c \in 1..Len(conn) :
              conn[c].live /\ conn[c].state = s /\ conn[c].pair = connected[s][n]
<1> DEFINE p == connected[s][n]
<1>1. connected[s] \in Seq(Entries) /\ p \in Entries
  BY DEF Registry
<1>2. Occurrences(connected[s], p) # 0
  BY <1>1, PlacesFinite
<1>3. Cardinality(Made(Live, s, p)) # 0
  <2> HIDE DEF p
  <2> QED BY <1>1, <1>2 DEF Registry
<1>4. Made(Live, s, p) # {}
  BY <1>3, FS_EmptySet
<1>5. Live = {c \in 1..Len(conn) : conn[c].live}
  BY ConnsAre
<1> QED BY <1>4, <1>5 DEF Made

\* A FireNow that begins or copies, or Fire: nothing is connected or disconnected.
LEMMA FireStepKeeps ==
    ASSUME IInv, UNCHANGED <<order, connected, conn, threads, abandoned, ran, repeated, stale>>,
           overlapped' \in BOOLEAN, overlapped => overlapped',
           fires' \in Nat, fires' <= MaxFires,
           Frames', Pendings', Single',
           \A i \in 1..Len(stack'), u \in Nat \ {0} :
              CodeOf(stack'[i], u) => i \in 1..Len(stack) /\ CodeOf(stack[i], u)
    PROVE  IInv'
<1>1. Registry' /\ Grows
  BY Untouched DEF IInv
<1>2. ThreadStep(0)
  <2>1. Len(conn) \in Nat
    BY ConnsAre DEF IInv
  <2> QED BY <1>1, <2>1, QuietStep
<1>3. Coroutines'
  BY <1>1, <1>2, ThreadStepKeeps DEF IInv
<1>4. Ran' /\ Flags'
  BY DEF IInv, Ran, Flags
<1>5. Waiters'
  BY DEF IInv, Waiters, IsWait
<1>6. OnceSpawnsOnce' /\ ResumedForItsWait'
  BY DEF IInv, OnceSpawnsOnce, ResumedForItsWait
<1> QED BY <1>1, <1>3, <1>4, <1>5, <1>6 DEF IInv

\* A FireNow comes to the next state: what it copies is connected there now.
LEMMA FireStateKeeps ==
    ASSUME IInv, stack # <<>>, Top.kind = "fire", FireState
    PROVE  IInv'
<1> DEFINE L == Len(stack)
<1>1. PICK f \in Fires : f = Top
  BY FireOnTop
<1>2. /\ L \in Nat /\ L > 0 /\ L \in 1..L /\ f = stack[L] /\ f.kind = "fire"
      /\ Copied(f) /\ Reached(f) /\ L < MaxDepth
      /\ f.at \in Nat /\ f.j \in Nat /\ f.copy \in Seq(Entries) /\ Len(f.copy) \in Nat
      /\ Front(stack) \in Seq(Codes \cup Fires) /\ Len(Front(stack)) = L - 1
      /\ \A i \in 1..(L - 1) : Front(stack)[i] = stack[i]
  BY <1>1, FireOnTop
<1>3. PICK e : e = CopyNext(f)
  OBVIOUS
<1>4. /\ f.j >= Len(f.copy) /\ f.at < Len(order)
      /\ UNCHANGED <<order, connected, conn, pending, threads, abandoned, ran, repeated, stale,
                     overlapped, fires>>
      /\ stack' = Append(Front(stack), e)
  BY <1>1, <1>3 DEF FireState, Iterated, CopyNext, history
<1>5. Registry /\ Frames /\ Single /\ Pendings /\ Flags /\ Ran
  BY DEF IInv
<1>6. /\ e \in Fires /\ Copied(e) /\ Reached(e) /\ e.kind = "fire" /\ e.at = f.at + 1
      /\ e.copy = connected[order[f.at + 1]] /\ e.j = 0
  BY <1>2, <1>3, <1>4, <1>5, CopyCounts
<1>7. /\ stack' \in Seq(Codes \cup Fires) /\ Len(stack') = L /\ stack'[L] = e
      /\ \A i \in 1..(L - 1) : stack'[i] = stack[i] /\ i \in 1..L
      /\ \A i \in 1..L : i \in 1..(L - 1) \/ i = L
  <2>1. PICK q \in Seq(Codes \cup Fires) : q = Front(stack)
    BY <1>2
  <2>2. /\ stack' \in Seq(Codes \cup Fires) /\ Len(stack') = Len(q) + 1
        /\ stack'[Len(q) + 1] = e /\ \A i \in 1..Len(q) : stack'[i] = q[i]
    <3>1. e \in Codes \cup Fires /\ stack' = Append(q, e)
      BY <1>4, <1>6, <2>1
    <3> QED BY <3>1, Pushed
  <2>3. Len(q) = L - 1 /\ Len(q) + 1 = L
    BY <1>2, <2>1
  <2>4. \A i \in 1..L : i \in 1..(L - 1) \/ i = L
    BY <1>2
  <2>5. \A i \in 1..(L - 1) : i \in 1..L
    BY <1>2
  <2> HIDE DEF L
  <2> QED BY <1>2, <2>1, <2>2, <2>3, <2>4, <2>5
<1>8. Registry' /\ Grows
  BY <1>4, <1>5, Untouched
<1>9. Frames'
  <2>1. L <= MaxDepth
    BY <1>2, SignalAssumption
  <2>2. ASSUME NEW i \in 1..L
        PROVE  \/ i \in 1..L /\ stack'[i] = stack[i]
               \/ i < MaxDepth /\ Copied(stack'[i]) /\ Reached(stack'[i])
    BY <1>2, <1>6, <1>7
  <2> QED BY <1>5, <1>7, <1>8, <2>1, <2>2, FramesKept
<1>10. Pendings'
  BY <1>4, <1>5 DEF Pendings
<1>11. ASSUME NEW i \in 1..Len(stack'), NEW u \in Nat \ {0}, CodeOf(stack'[i], u)
       PROVE  i \in 1..Len(stack) /\ CodeOf(stack[i], u)
  BY <1>6, <1>7, <1>11 DEF CodeOf
<1> DEFINE s == order[f.at + 1]
<1>12. f.at + 1 \in 1..Len(order) /\ s \in States /\ connected[s] \in Seq(Entries)
  <2>1. order \in Seq(States)
    BY <1>5 DEF Registry
  <2>2. f.at + 1 \in 1..Len(order)
    BY <1>2, <1>4, <2>1
  <2> QED BY <1>5, <2>1, <2>2 DEF Registry
<1>13. Single'
  <2> SUFFICES ASSUME ~overlapped, NEW c \in 1..Len(conn), Wrapper(c)
               PROVE  /\ OnePlace(c)'
                      /\ Placed(c)' => c \notin ran /\ (IsWait(c) => conn[c].live)
                      /\ conn[c].live => NotAhead(c)'
    BY <1>4 DEF Single, Wrapper, IsWait
  <2>1. /\ OnePlace(c)
        /\ Placed(c) => c \notin ran /\ (IsWait(c) => conn[c].live)
        /\ conn[c].live => NotAhead(c)
    BY <1>5 DEF Single
  <2>2. \A i \in Nat : Pends(c, i)' <=> Pends(c, i)
    BY <1>4 DEF Pends
  <2>3. ASSUME NEW k \in Nat, NEW n \in Nat, Copies(c, k, n)'
        PROVE  \/ k \in 1..(L - 1) /\ Copies(c, k, n)
               \/ k = L /\ conn[c].state = s /\ n \in 1..Len(connected[s])
                        /\ connected[s][n] = conn[c].pair
    <3>1. /\ k \in 1..L /\ stack'[k].kind = "fire" /\ stack'[k].at > 0
          /\ order[stack'[k].at] = conn[c].state
          /\ stack'[k].j < n /\ n <= Len(stack'[k].copy) /\ stack'[k].copy[n] = conn[c].pair
      BY <1>4, <1>7, <2>3 DEF Copies
    <3>2. CASE k \in 1..(L - 1)
      BY <1>7, <3>1, <3>2 DEF Copies
    <3>3. CASE k = L
      <4>1. conn[c].state = s /\ 0 < n /\ n <= Len(connected[s]) /\ connected[s][n] = conn[c].pair
        BY <1>6, <1>7, <3>1, <3>3
      <4>2. n \in 1..Len(connected[s])
        BY <1>12, <4>1
      <4> QED BY <3>3, <4>1, <4>2
    <3> QED BY <1>7, <3>1, <3>2, <3>3
  <2>4. ASSUME NEW l \in 1..L, Ahead(stack[l], conn[c].state)'
        PROVE  /\ Ahead(stack[l], conn[c].state)
               /\ l = L => conn[c].state # s
    <3>1. PICK i \in 1..Len(order) : stack'[l].at < i /\ order[i] = conn[c].state
      BY <1>4, <2>4 DEF Ahead
    <3>2. stack'[l].kind = "fire"
      BY <2>4 DEF Ahead
    <3>3. CASE l \in 1..(L - 1)
      <4>1. stack'[l] = stack[l] /\ l # L
        BY <1>2, <1>7, <3>3
      <4> QED BY <3>1, <3>2, <4>1 DEF Ahead
    <3>4. CASE l = L
      <4>1. f.at + 1 < i
        BY <1>6, <1>7, <3>1, <3>4
      <4>2. f.at < i /\ i # f.at + 1
        BY <1>2, <4>1
      <4>3. conn[c].state # s
        BY <1>5, <1>12, <3>1, <4>2 DEF Registry
      <4> QED BY <1>2, <3>1, <3>4, <4>2, <4>3 DEF Ahead
    <3> QED BY <1>7, <3>3, <3>4
  <2>5. CASE conn[c].state = s /\ \E n \in 1..Len(connected[s]) : connected[s][n] = conn[c].pair
    <3>1. conn[c].live
      <4>1. PICK n \in 1..Len(connected[s]) : connected[s][n] = conn[c].pair
        BY <2>5
      <4>2. PICK r \in States : r = s
        BY <1>12
      <4>3. PICK b \in 1..Len(conn) : conn[b].live /\ conn[b].pair = conn[c].pair
        BY <1>5, <4>1, <4>2, ConnectedLive
      <4>4. b = c
        BY <1>5, <4>3 DEF Registry, Wrapper
      <4> QED BY <4>3, <4>4
    <3>2. NotAhead(c) /\ c \notin ran
      BY <1>5, <2>1, <3>1 DEF Ran
    <3>3. Ahead(stack[L], conn[c].state)
      <4>1. f.at < f.at + 1
        BY <1>2
      <4> QED BY <1>2, <1>12, <2>5, <4>1 DEF Ahead
    <3>4. \A i \in Nat : ~Pends(c, i)'
      BY <1>2, <2>2, <3>2, <3>3 DEF NotAhead
    <3>5. \A k, n \in Nat : ~(k \in 1..(L - 1) /\ Copies(c, k, n))
      <4> SUFFICES ASSUME NEW k \in Nat, NEW n \in Nat, k \in 1..(L - 1), Copies(c, k, n)
                   PROVE  FALSE
        OBVIOUS
      <4>1. L \in k..L
        BY <1>2
      <4> QED BY <3>2, <3>3, <4>1 DEF NotAhead
    <3>6. ASSUME NEW k \in Nat, NEW n \in Nat, Copies(c, k, n)'
          PROVE  k = L /\ n \in 1..Len(connected[s]) /\ connected[s][n] = conn[c].pair
      BY <2>3, <3>5, <3>6
    <3>7. OnePlace(c)'
      <4>1. ASSUME NEW k \in Nat, NEW n \in Nat, NEW l \in Nat, NEW m \in Nat,
                   Copies(c, k, n)', Copies(c, l, m)'
            PROVE  k = l /\ n = m
        <5>1. k = L /\ l = L
          BY <3>6, <4>1
        <5>2. n \in 1..Len(connected[s]) /\ connected[s][n] = conn[c].pair
          BY <3>6, <4>1
        <5>3. m \in 1..Len(connected[s]) /\ connected[s][m] = conn[c].pair
          BY <3>6, <4>1
        <5>4. n = m
          <6> HIDE DEF s
          <6> QED BY <1>5, <1>12, <2>5, <5>2, <5>3, ConnectedOnce
        <5> QED BY <5>1, <5>4
      <4> QED BY <3>4, <4>1 DEF OnePlace
    <3>8. NotAhead(c)'
      <4>1. ASSUME NEW k \in Nat, NEW n \in Nat, Copies(c, k, n)', NEW l \in k..Len(stack')
            PROVE  ~Ahead(stack[l], conn[c].state)'
        <5>1. l = L /\ l \in 1..L
          <6>1. k = L
            BY <3>6, <4>1
          <6>2. l \in L..L
            BY <1>7, <4>1, <6>1
          <6> HIDE DEF L
          <6> QED BY <1>2, <6>2
        <5> QED BY <2>4, <2>5, <5>1
      <4> QED BY <3>4, <4>1 DEF NotAhead
    <3> QED BY <3>1, <3>2, <3>7, <3>8
  <2>6. CASE ~(conn[c].state = s /\ \E n \in 1..Len(connected[s]) : connected[s][n] = conn[c].pair)
    <3>1. ASSUME NEW k \in Nat, NEW n \in Nat, Copies(c, k, n)'
          PROVE  k \in 1..(L - 1) /\ Copies(c, k, n)
      BY <2>3, <2>6, <3>1
    <3>2. OnePlace(c)'
      BY <2>1, <2>2, <3>1 DEF OnePlace
    <3>3. Placed(c)' => Placed(c)
      BY <2>2, <3>1 DEF Placed
    <3>4. conn[c].live => NotAhead(c)'
      <4> SUFFICES ASSUME conn[c].live PROVE NotAhead(c)'
        OBVIOUS
      <4>1. NotAhead(c)
        BY <2>1
      <4>2. ASSUME NEW i \in Nat, Pends(c, i)', NEW l \in 1..Len(stack')
            PROVE  ~Ahead(stack[l], conn[c].state)'
        BY <1>7, <2>2, <2>4, <4>1, <4>2 DEF NotAhead
      <4>3. ASSUME NEW k \in Nat, NEW n \in Nat, Copies(c, k, n)', NEW l \in k..Len(stack')
            PROVE  ~Ahead(stack[l], conn[c].state)'
        <5>1. k \in 1..(L - 1) /\ Copies(c, k, n)
          BY <3>1, <4>3
        <5>2. l \in 1..L /\ l \in k..L
          BY <1>2, <1>7, <5>1
        <5> QED BY <2>4, <4>1, <5>1, <5>2 DEF NotAhead
      <4> QED BY <4>2, <4>3 DEF NotAhead
    <3> QED BY <2>1, <3>2, <3>3, <3>4
  <2> QED BY <2>5, <2>6
<1>14. overlapped' \in BOOLEAN /\ (overlapped => overlapped') /\ fires' \in Nat /\ fires' <= MaxFires
  BY <1>4, <1>5 DEF Flags
<1> HIDE DEF L, s
<1> QED BY <1>4, <1>9, <1>10, <1>11, <1>13, <1>14, FireStepKeeps

----------------------------------------------------------------------------
(* Firing begins. *)

\* The elements of a set of numbers, counted from the least.
LEMMA NthExists ==
    ASSUME NEW N \in Nat, NEW T \in SUBSET (1..N), NEW n \in 1..Cardinality(T)
    PROVE  \E i \in T : Cardinality({k \in T : k <= i}) = n
<1> DEFINE upTo(m) == {k \in T : k <= m}
           count(m) == Cardinality(upTo(m))
<1>1. /\ IsFiniteSet(T) /\ Cardinality(T) \in Nat /\ n \in Nat /\ n > 0
      /\ \A k \in T : k \in Nat /\ 1 <= k /\ k <= N
  <2>1. IsFiniteSet(1..N)
    BY FS_Interval
  <2>2. IsFiniteSet(T)
    BY <2>1, FS_Subset
  <2>3. Cardinality(T) \in Nat
    BY <2>2, FS_CardinalityType
  <2>4. \A k \in 1..N : k \in Nat /\ 1 <= k /\ k <= N
    OBVIOUS
  <2>5. T \subseteq 1..N
    OBVIOUS
  <2>6. \A k \in T : k \in Nat /\ 1 <= k /\ k <= N
    BY <2>4, <2>5
  <2>7. n \in Nat /\ n > 0
    BY <2>3
  <2> QED BY <2>2, <2>3, <2>6, <2>7
<1>2. \A m \in Nat : IsFiniteSet(upTo(m)) /\ count(m) \in Nat
  <2> SUFFICES ASSUME NEW m \in Nat PROVE IsFiniteSet(upTo(m)) /\ count(m) \in Nat
    OBVIOUS
  <2>1. upTo(m) \subseteq T
    OBVIOUS
  <2>2. IsFiniteSet(upTo(m))
    BY <1>1, <2>1, FS_Subset
  <2> QED BY <2>2, FS_CardinalityType
<1> DEFINE B == {m \in Nat : n <= count(m)}
<1>3. N \in B
  <2>1. upTo(N) = T
    BY <1>1
  <2> QED BY <1>1, <2>1
<1>4. PICK m \in B : \A k \in B : m <= k
  <2>1. B \in SUBSET Nat /\ B # {}
    BY <1>3
  <2> HIDE DEF B
  <2> QED BY <2>1, LeastNatural
<1>5. m \in Nat /\ n <= count(m) /\ \A k \in Nat : k < m => count(k) < n
  <2>1. m \in Nat /\ n <= count(m)
    BY <1>4
  <2>2. ASSUME NEW k \in Nat, k < m PROVE count(k) < n
    <3>1. k \notin B
      BY <1>4, <2>1, <2>2
    <3>2. ~(n <= count(k)) /\ count(k) \in Nat
      BY <1>2, <3>1
    <3> HIDE DEF count
    <3> QED BY <1>1, <3>2
  <2> QED BY <2>1, <2>2
<1>6. m # 0
  <2>1. ASSUME m = 0 PROVE FALSE
    <3>1. upTo(m) = {}
      <4>1. \A k \in T : ~(k <= 0)
        BY <1>1
      <4> QED BY <2>1, <4>1
    <3>2. count(m) = 0
      BY <3>1, FS_EmptySet
    <3> HIDE DEF count
    <3> QED BY <1>1, <1>5, <3>2
  <2> QED BY <2>1
<1>7. m - 1 \in Nat /\ m - 1 < m
  BY <1>5, <1>6
<1>8. count(m - 1) < n /\ count(m - 1) \in Nat /\ IsFiniteSet(upTo(m - 1))
  BY <1>2, <1>5, <1>7
<1>9. upTo(m) = upTo(m - 1) \cup (IF m \in T THEN {m} ELSE {}) /\ m \notin upTo(m - 1)
  <2>1. \A k \in Nat : (k <= m <=> k <= m - 1 \/ k = m) /\ ~(m <= m - 1)
    BY <1>5, <1>7
  <2>2. \A k \in T : (k <= m <=> k <= m - 1 \/ k = m) /\ ~(m <= m - 1)
    BY <1>1, <2>1
  <2>3. ~(m <= m - 1) /\ m <= m
    BY <1>5
  <2> QED BY <2>2, <2>3
<1>10. m \in T
  <2>1. ASSUME m \notin T PROVE FALSE
    <3>1. upTo(m) = upTo(m - 1)
      BY <1>9, <2>1
    <3>2. count(m) = count(m - 1)
      BY <3>1
    <3> HIDE DEF count
    <3> QED BY <1>1, <1>5, <1>8, <3>2
  <2> QED BY <2>1
<1>11. count(m) = count(m - 1) + 1
  <2>1. upTo(m) = upTo(m - 1) \cup {m}
    BY <1>9, <1>10
  <2> HIDE DEF upTo
  <2> QED BY <1>8, <1>9, <2>1, FS_AddElement
<1>12. count(m) = n
  <2> HIDE DEF count
  <2> QED BY <1>1, <1>5, <1>8, <1>11
<1> QED BY <1>10, <1>12

\* What Fire defers has each pair with its flag once for each time it is connected.
LEMMA FunctionsOfPairs ==
    ASSUME NEW seq \in Seq(Entries), NEW d \in BOOLEAN
    PROVE  LET r == FunctionsOf(seq, d)
           IN  /\ r \in Seq(Funcs)
               /\ \E m \in [1..Len(r) -> 1..Len(seq)] :
                     /\ \A i \in 1..Len(r) : seq[m[i]] = Pair(d, r[i])
                     /\ \A i, k \in 1..Len(r) : m[i] = m[k] => i = k
<1> DEFINE T == {i \in DOMAIN seq : seq[i].desync = d}
           nth(n) == CHOOSE i \in T : Cardinality({k \in T : k <= i}) = n
           r == FunctionsOf(seq, d)
           N == Cardinality(T)
           m == [n \in 1..N |-> nth(n)]
<1>1. r = [n \in 1..N |-> seq[nth(n)].func]
  BY DEF FunctionsOf
<1>2. T \in SUBSET (1..Len(seq)) /\ Len(seq) \in Nat
  OBVIOUS
<1>3. N \in Nat
  <2>1. IsFiniteSet(1..Len(seq))
    <3>1. 1 \in Int /\ Len(seq) \in Int
      BY <1>2
    <3> QED BY <3>1, FS_Interval
  <2> HIDE DEF T
  <2> QED BY <1>2, <2>1, FS_Subset, FS_CardinalityType
<1>4. \A n \in 1..N : nth(n) \in T /\ Cardinality({k \in T : k <= nth(n)}) = n
  <2> SUFFICES ASSUME NEW n \in 1..N
               PROVE  nth(n) \in T /\ Cardinality({k \in T : k <= nth(n)}) = n
    OBVIOUS
  <2> HIDE DEF T
  <2>1. \E i \in T : Cardinality({k \in T : k <= i}) = n
    BY <1>2, NthExists
  <2> QED BY <2>1
<1> HIDE DEF r, nth, N
<1>5. \A n \in 1..N : nth(n) \in 1..Len(seq) /\ seq[nth(n)] \in Entries /\ seq[nth(n)].desync = d
  <2>1. \A i \in T : i \in 1..Len(seq) /\ seq[i] \in Entries /\ seq[i].desync = d
    OBVIOUS
  <2> HIDE DEF T
  <2> QED BY <1>4, <2>1
<1> HIDE DEF T
<1>6. \A n \in 1..N : seq[nth(n)] = Pair(d, seq[nth(n)].func) /\ seq[nth(n)].func \in Funcs
  BY <1>5, EntriesAre DEF Pair
<1>7. r \in Seq(Funcs) /\ Len(r) = N
  BY <1>1, <1>3, <1>6
<1>8. m \in [1..Len(r) -> 1..Len(seq)]
  BY <1>5, <1>7
<1>9. \A i \in 1..Len(r) : seq[m[i]] = Pair(d, r[i])
  BY <1>1, <1>6, <1>7
<1>10. ASSUME NEW i \in 1..Len(r), NEW k \in 1..Len(r), m[i] = m[k]
       PROVE  i = k
  <2>1. nth(i) = nth(k) /\ i \in 1..N /\ k \in 1..N
    BY <1>7, <1>10
  <2> QED BY <1>4, <2>1
<1> HIDE DEF m
<1>11. /\ r \in Seq(Funcs)
       /\ \E x \in [1..Len(r) -> 1..Len(seq)] :
             /\ \A i \in 1..Len(r) : seq[x[i]] = Pair(d, r[i])
             /\ \A i, k \in 1..Len(r) : x[i] = x[k] => i = k
  BY <1>7, <1>8, <1>9, <1>10
<1> QED BY <1>11 DEF r

\* A fire that does not overlap finds nothing to come.
LEMMA NothingToCome ==
    ASSUME IInv, Begin, ~overlapped'
    PROVE  /\ ~overlapped
           /\ \A s \in States, d \in BOOLEAN : pending[s][d] = <<>>
           /\ \A l \in 1..Len(stack) : stack[l].kind = "fire" =>
                 stack[l].at = Len(order) /\ stack[l].j = Len(stack[l].copy)
<1>1. ~overlapped /\ ~CallsToCome
  BY DEF Begin
<1>2. ASSUME NEW l \in 1..Len(stack), stack[l].kind = "fire"
      PROVE  stack[l].at = Len(order) /\ stack[l].j = Len(stack[l].copy)
  <2>1. stack \in Seq(Codes \cup Fires) /\ order \in Seq(States)
    BY DEF IInv, Frames, Registry
  <2>2. l \in DOMAIN stack /\ Len(order) \in Nat
    BY <2>1
  <2>3. PICK f \in Fires : f = stack[l] /\ Copied(f)
    BY <1>2, <2>1, FrameKinds DEF IInv, Frames
  <2>4. ~(f.j < Len(f.copy)) /\ ~(f.at < Len(order))
    BY <1>1, <1>2, <2>2, <2>3 DEF CallsToCome, Unfinished, Iterated
  <2>5. f.at \in Nat /\ f.j \in Nat /\ Len(f.copy) \in Nat
    BY DEF Fires
  <2>6. f.at <= Len(order) /\ f.j <= Len(f.copy)
    BY <2>3 DEF Copied
  <2>7. f.at = Len(order) /\ f.j = Len(f.copy)
    BY <2>2, <2>4, <2>5, <2>6
  <2> QED BY <2>3, <2>7
<1> QED BY <1>1, <1>2 DEF CallsToCome

\* What beginning a fire does to the history.
LEMMA BeginFlags ==
    ASSUME IInv, Begin
    PROVE  /\ overlapped' \in BOOLEAN /\ (overlapped => overlapped')
           /\ fires' \in Nat /\ fires' <= MaxFires
           /\ UNCHANGED <<order, connected, conn, threads, abandoned, ran, repeated, stale>>
<1>1. fires \in Nat /\ fires < MaxFires /\ fires' = fires + 1 /\ overlapped \in BOOLEAN
  BY DEF IInv, Flags, Begin, CanFire
<1>2. fires' \in Nat /\ fires' <= MaxFires
  BY <1>1, SignalAssumption
<1>3. overlapped' \in BOOLEAN /\ (overlapped => overlapped')
  BY <1>1 DEF Begin, CallsToCome
<1> QED BY <1>2, <1>3 DEF Begin

\* FireNow begins.
LEMMA FireNowKeeps ==
    ASSUME IInv, FireNow
    PROVE  IInv'
<1> DEFINE L == Len(stack)
<1>1. /\ Begin /\ L + 2 <= MaxDepth /\ stack' = Append(stack, Firing) /\ UNCHANGED pending
      /\ UNCHANGED <<order, connected, conn, threads, abandoned, ran, repeated, stale>>
      /\ Registry /\ Frames /\ Pendings
      /\ stack \in Seq(Codes \cup Fires) /\ L \in Nat
  BY DEF FireNow, Begin, IInv, Frames
<1>2. Firing \in Fires /\ Firing.kind = "fire" /\ Copied(Firing) /\ Reached(Firing)
  BY <1>1, FireBegins
<1>3. /\ stack' \in Seq(Codes \cup Fires) /\ Len(stack') = L + 1 /\ stack'[L + 1] = Firing
      /\ \A i \in 1..L : stack'[i] = stack[i]
  BY <1>1, <1>2, Pushed
<1>4. \A i \in 1..(L + 1) : i \in 1..L \/ i = L + 1
  BY <1>1
<1>5. L + 1 < MaxDepth /\ L + 1 <= MaxDepth
  BY <1>1, SignalAssumption
<1>6. Registry' /\ Grows
  BY <1>1, Untouched
<1>7. Frames'
  BY <1>1, <1>2, <1>3, <1>4, <1>5, <1>6, FramesKept
<1>8. Pendings'
  BY <1>1 DEF Pendings
<1>9. \A i \in 1..Len(stack'), u \in Nat \ {0} :
              CodeOf(stack'[i], u) => i \in 1..Len(stack) /\ CodeOf(stack[i], u)
  BY <1>2, <1>3, <1>4 DEF CodeOf
<1>10. Single'
  <2> SUFFICES ASSUME ~overlapped', NEW c \in 1..Len(conn)
               PROVE  OnePlace(c)' /\ ~Placed(c)' /\ NotAhead(c)'
    BY <1>1 DEF Single
  <2>1. /\ \A s \in States, d \in BOOLEAN : pending[s][d] = <<>>
        /\ \A l \in 1..L : stack[l].kind = "fire" => stack[l].j = Len(stack[l].copy)
    BY <1>1, NothingToCome
  <2>2. \A i \in Nat : ~Pends(c, i)'
    <3>1. conn[c].state \in States /\ conn[c].pair.desync \in BOOLEAN
      BY <1>1, ConnsAre
    <3>2. pending[conn[c].state][conn[c].pair.desync] = <<>>
      BY <2>1, <3>1
    <3> QED BY <1>1, <3>2 DEF Pends
  <2>3. ASSUME NEW k \in Nat, NEW n \in Nat, Copies(c, k, n)'
        PROVE  FALSE
    <3>1. /\ k \in 1..(L + 1) /\ stack'[k].kind = "fire" /\ stack'[k].at > 0
          /\ stack'[k].j < n /\ n <= Len(stack'[k].copy)
      BY <1>3, <2>3 DEF Copies
    <3>2. CASE k = L + 1
      BY <1>3, <3>1, <3>2 DEF Firing
    <3>3. CASE k \in 1..L
      <4>1. stack[k].kind = "fire" /\ stack[k].j = Len(stack[k].copy) /\ stack'[k] = stack[k]
        BY <1>3, <2>1, <3>1, <3>3
      <4>2. stack[k] \in Fires
        BY <1>1, <3>3, <4>1, FrameKinds
      <4>3. stack[k].j \in Nat
        BY <4>2 DEF Fires
      <4> QED BY <3>1, <4>1, <4>3
    <3> QED BY <1>4, <3>1, <3>2, <3>3
  <2> QED BY <2>2, <2>3 DEF OnePlace, Placed, NotAhead
<1>11. /\ overlapped' \in BOOLEAN /\ (overlapped => overlapped')
       /\ fires' \in Nat /\ fires' <= MaxFires
  BY <1>1, BeginFlags
<1> QED BY <1>1, <1>7, <1>8, <1>9, <1>10, <1>11, FireStepKeeps

\* Fire defers every function that is connected.
LEMMA FireKeeps ==
    ASSUME IInv, Fire
    PROVE  IInv'
<1>1. /\ Begin /\ UNCHANGED stack
      /\ pending' = [s \in States |-> [d \in BOOLEAN |->
                        pending[s][d] \o FunctionsOf(connected[s], d)]]
      /\ UNCHANGED <<order, connected, conn, threads, abandoned, ran, repeated, stale>>
      /\ Registry /\ Frames /\ Pendings /\ Ran
  BY DEF Fire, Begin, IInv
<1>2. Registry' /\ Grows
  BY <1>1, Untouched
<1>3. Frames'
  BY <1>1, <1>2, FramesKept DEF Frames
<1>4. ASSUME NEW s \in States, NEW d \in BOOLEAN
      PROVE  /\ pending'[s][d] = pending[s][d] \o FunctionsOf(connected[s], d)
             /\ FunctionsOf(connected[s], d) \in Seq(Funcs)
             /\ \E m \in [1..Len(FunctionsOf(connected[s], d)) -> 1..Len(connected[s])] :
                   /\ \A i \in 1..Len(FunctionsOf(connected[s], d)) :
                         connected[s][m[i]] = Pair(d, FunctionsOf(connected[s], d)[i])
                   /\ \A i, k \in 1..Len(FunctionsOf(connected[s], d)) : m[i] = m[k] => i = k
             /\ pending[s][d] \in Seq(Funcs)
  <2>1. connected[s] \in Seq(Entries) /\ pending[s][d] \in Seq(Funcs)
    BY <1>1 DEF Registry, Pendings
  <2> QED BY <1>1, <2>1, FunctionsOfPairs
<1>5. Pendings'
  <2>1. pending' \in [States -> [BOOLEAN -> Seq(Funcs)]]
    <3>1. \A s \in States, d \in BOOLEAN : pending[s][d] \o FunctionsOf(connected[s], d) \in Seq(Funcs)
      BY <1>4, ConcatProperties
    <3> QED BY <1>1, <3>1
  <2>2. ASSUME NEW s \in States, NEW d \in BOOLEAN, NEW i \in 1..Len(pending'[s][d])
        PROVE  \E c \in 1..Len(conn) : conn[c].state = s /\ conn[c].pair = Pair(d, pending'[s][d][i])
    <3> DEFINE p == pending[s][d]
               r == FunctionsOf(connected[s], d)
    <3>1. pending'[s][d] = p \o r /\ p \in Seq(Funcs) /\ r \in Seq(Funcs)
      BY <1>4
    <3> HIDE DEF p, r
    <3>2. /\ Len(p \o r) = Len(p) + Len(r)
          /\ (p \o r)[i] = IF i <= Len(p) THEN p[i] ELSE r[i - Len(p)]
      <4>1. /\ Len(p \o r) = Len(p) + Len(r)
            /\ \A k \in 1..(Len(p) + Len(r)) : (p \o r)[k] = IF k <= Len(p) THEN p[k] ELSE r[k - Len(p)]
        BY <3>1, ConcatProperties
      <4>2. i \in 1..(Len(p) + Len(r))
        BY <3>1, <4>1
      <4> QED BY <4>1, <4>2
    <3>3. CASE i <= Len(p)
      <4>1. i \in 1..Len(p) /\ pending'[s][d][i] = p[i]
        BY <3>1, <3>2, <3>3
      <4> QED BY <1>1, <4>1 DEF Pendings, p
    <3>4. CASE ~(i <= Len(p))
      <4>1. i - Len(p) \in 1..Len(r) /\ pending'[s][d][i] = r[i - Len(p)]
        <5>1. Len(p) \in Nat /\ Len(r) \in Nat
          BY <3>1
        <5>2. i \in 1..(Len(p) + Len(r))
          BY <3>1, <3>2
        <5>3. i - Len(p) \in 1..Len(r)
          BY <3>4, <5>1, <5>2
        <5> QED BY <3>1, <3>2, <3>4, <5>3
      <4>2. PICK n \in 1..Len(connected[s]) : connected[s][n] = Pair(d, r[i - Len(p)])
        <5>1. PICK m \in [1..Len(r) -> 1..Len(connected[s])] :
                    \A k \in 1..Len(r) : connected[s][m[k]] = Pair(d, r[k])
          <6>1. \E m \in [1..Len(r) -> 1..Len(connected[s])] :
                    /\ \A k \in 1..Len(r) : connected[s][m[k]] = Pair(d, r[k])
                    /\ \A k, l \in 1..Len(r) : m[k] = m[l] => k = l
            BY <1>4 DEF r
          <6> QED BY <6>1
        <5>2. m[i - Len(p)] \in 1..Len(connected[s])
          BY <4>1
        <5> QED BY <4>1, <5>1, <5>2
      <4>3. PICK c \in 1..Len(conn) : conn[c].state = s /\ conn[c].pair = connected[s][n]
        BY <1>1, ConnectedLive
      <4> QED BY <4>1, <4>2, <4>3
    <3> QED BY <3>3, <3>4
  <2>3. \A s \in States, d \in BOOLEAN : \A i \in 1..Len(pending'[s][d]) :
           \E c \in 1..Len(conn') : conn'[c].state = s /\ conn'[c].pair = Pair(d, pending'[s][d][i])
    <3>1. conn' = conn
      BY <1>1
    <3> QED BY <2>2, <3>1
  <2> QED BY <2>1, <2>3 DEF Pendings
<1>6. Single'
  <2> SUFFICES ASSUME ~overlapped', NEW c \in 1..Len(conn), Wrapper(c)
               PROVE  /\ OnePlace(c)'
                      /\ Placed(c)' => c \notin ran /\ conn[c].live
                      /\ NotAhead(c)'
    BY <1>1 DEF Single, Wrapper
  <2> DEFINE s == conn[c].state
             d == conn[c].pair.desync
             r == FunctionsOf(connected[s], d)
  <2>1. s \in States /\ d \in BOOLEAN /\ conn[c].pair \in Entries
    BY <1>1, ConnsAre
  <2>2. /\ pending[s][d] = <<>>
        /\ \A l \in 1..Len(stack) : stack[l].kind = "fire" =>
                 stack[l].at = Len(order) /\ stack[l].j = Len(stack[l].copy)
    BY <1>1, <2>1, NothingToCome
  <2>3. pending'[s][d] = r /\ r \in Seq(Funcs)
    <3>1. pending'[s][d] = <<>> \o r /\ r \in Seq(Funcs)
      <4>1. pending'[s][d] = pending[s][d] \o r /\ r \in Seq(Funcs)
        BY <1>4, <2>1
      <4> HIDE DEF r
      <4> QED BY <2>2, <4>1
    <3> HIDE DEF r
    <3> QED BY <3>1, ConcatEmptySeq
  <2>4. PICK m \in [1..Len(r) -> 1..Len(connected[s])] :
              /\ \A i \in 1..Len(r) : connected[s][m[i]] = Pair(d, r[i])
              /\ \A i, k \in 1..Len(r) : m[i] = m[k] => i = k
    BY <1>4, <2>1
  <2>5. conn[c].pair = Pair(d, conn[c].pair.func)
    BY <2>1 DEF Entries, Pair
  <2>6. ASSUME NEW i \in Nat, Pends(c, i)'
        PROVE  i \in 1..Len(r) /\ m[i] \in 1..Len(connected[s]) /\ connected[s][m[i]] = conn[c].pair
    <3>1. i \in 1..Len(r) /\ r[i] = conn[c].pair.func
      BY <1>1, <2>3, <2>6 DEF Pends
    <3> QED BY <2>4, <2>5, <3>1
  <2>7. ASSUME NEW k \in Nat, NEW n \in Nat, Copies(c, k, n)'
        PROVE  FALSE
    <3>1. /\ k \in 1..Len(stack) /\ stack[k].kind = "fire"
          /\ stack[k].j < n /\ n <= Len(stack[k].copy)
      BY <1>1, <2>7 DEF Copies
    <3>2. stack[k] \in Fires
      BY <1>1, <3>1, FrameKinds DEF Frames
    <3>3. stack[k].j \in Nat /\ stack[k].j = Len(stack[k].copy)
      BY <2>2, <3>1, <3>2 DEF Fires
    <3> QED BY <3>1, <3>3
  <2>8. OnePlace(c)'
    <3>1. ASSUME NEW i \in Nat, NEW k \in Nat, Pends(c, i)', Pends(c, k)'
          PROVE  i = k
      <4>1. i \in 1..Len(r) /\ m[i] \in 1..Len(connected[s]) /\ connected[s][m[i]] = conn[c].pair
        BY <2>6, <3>1
      <4>2. k \in 1..Len(r) /\ m[k] \in 1..Len(connected[s]) /\ connected[s][m[k]] = conn[c].pair
        BY <2>6, <3>1
      <4>3. m[i] = m[k]
        BY <1>1, <2>1, <4>1, <4>2, ConnectedOnce
      <4> QED BY <2>4, <4>1, <4>2, <4>3
    <3> QED BY <2>7, <3>1 DEF OnePlace
  <2>9. Placed(c)' => c \notin ran /\ conn[c].live
    <3> SUFFICES ASSUME Placed(c)'
                 PROVE  conn[c].live
      BY <1>1 DEF Ran
    <3>1. PICK i \in Nat : Pends(c, i)'
      BY <2>7 DEF Placed
    <3>2. m[i] \in 1..Len(connected[s]) /\ connected[s][m[i]] = conn[c].pair
      BY <2>6, <3>1
    <3>3. PICK b \in 1..Len(conn) : conn[b].live /\ conn[b].pair = conn[c].pair
      <4>1. PICK x, n : x = s /\ n = m[i]
        OBVIOUS
      <4>2. x \in States /\ n \in 1..Len(connected[x]) /\ connected[x][n] = conn[c].pair
        BY <2>1, <3>2, <4>1
      <4>3. \E b \in 1..Len(conn) :
               conn[b].live /\ conn[b].state = x /\ conn[b].pair = connected[x][n]
        BY <1>1, <4>2, ConnectedLive
      <4> QED BY <4>2, <4>3
    <3>4. b = c
      BY <1>1, <3>3 DEF Registry, Wrapper
    <3> QED BY <3>3, <3>4
  <2>10. NotAhead(c)'
    <3>1. ASSUME NEW l \in 1..Len(stack), Ahead(stack[l], conn[c].state)'
          PROVE  FALSE
      <4>1. stack[l].kind = "fire" /\ \E i \in 1..Len(order) : stack[l].at < i
        BY <1>1, <3>1 DEF Ahead
      <4>2. stack[l].at = Len(order) /\ Len(order) \in Nat
        <5>1. order \in Seq(States)
          BY <1>1 DEF Registry
        <5> QED BY <2>2, <4>1, <5>1
      <4> QED BY <4>1, <4>2
    <3> QED BY <1>1, <2>7, <3>1 DEF NotAhead
  <2> QED BY <2>8, <2>9, <2>10
<1>7. \A i \in 1..Len(stack'), u \in Nat \ {0} :
              CodeOf(stack'[i], u) => i \in 1..Len(stack) /\ CodeOf(stack[i], u)
  BY <1>1
<1>8. /\ overlapped' \in BOOLEAN /\ (overlapped => overlapped')
      /\ fires' \in Nat /\ fires' <= MaxFires
  BY <1>1, BeginFlags
<1> QED BY <1>1, <1>3, <1>5, <1>6, <1>7, <1>8, FireStepKeeps

----------------------------------------------------------------------------
(* The theorems. *)

\* A fire that goes on is in the middle of its loops.
LEMMA ContinueFireKeeps ==
    ASSUME IInv, ContinueFire
    PROVE  IInv'
<1>1. stack # <<>> /\ Top.kind = "fire"
  BY DEF ContinueFire
<1>2. CASE FireCall
  BY <1>1, <1>2, FireCallKeeps
<1>3. CASE FireState
  BY <1>1, <1>3, FireStateKeeps
<1>4. CASE FireEnd
  BY <1>1, <1>4, FireEndKeeps
<1> QED BY <1>2, <1>3, <1>4 DEF ContinueFire

\* A step in which nothing of the signal changes.
LEMMA StutterKeeps ==
    ASSUME IInv, UNCHANGED vars
    PROVE  IInv'
<1>1. /\ Registry' /\ Grows /\ FrameStep /\ PendingStep
      /\ UNCHANGED <<conn, stack, threads, abandoned, ran, repeated, stale, overlapped, fires>>
  BY Untouched, StackSame, PendingSame DEF IInv, vars, history
<1>2. Len(conn) \in Nat
  BY ConnsAre DEF IInv
<1>3. ThreadStep(0) /\ WrapperStep(0) /\ WaiterStep(0)
  <2>1. \A c \in (Len(conn) + 1)..Len(conn') : ~IsWait(c)'
    BY <1>1, <1>2
  <2>2. \A c \in 1..Len(conn) : IsWait(c) /\ conn[c].live => conn'[c].live
    BY <1>1
  <2>3. \A i \in 1..Len(stack'), u \in Nat \ {0} :
              CodeOf(stack'[i], u) => i \in 1..Len(stack) /\ CodeOf(stack[i], u)
    BY <1>1
  <2> QED BY <1>1, <2>1, <2>2, <2>3, QuietStep
<1> QED BY <1>1, <1>3, StepKeeps

\* A new signal has no connections, calls or threads.
LEMMA InitKeeps == Init => IInv
<1> SUFFICES ASSUME Init PROVE IInv
  OBVIOUS
<1>1. /\ order = <<>> /\ conn = <<>> /\ stack = <<>> /\ threads = <<>> /\ ran = {}
      /\ fires = 0 /\ ~overlapped /\ ~abandoned /\ ~repeated /\ ~stale
      /\ overlapped = FALSE /\ abandoned = FALSE /\ repeated = FALSE /\ stale = FALSE
      /\ MaxConns \in Nat /\ MaxThreads \in Nat /\ MaxFires \in Nat /\ MaxDepth \in Nat
  BY SignalAssumption DEF Init
<1>2. /\ connected \in [States -> Seq(Entries)] /\ \A s \in States : connected[s] = <<>>
      /\ pending \in [States -> [BOOLEAN -> Seq(Funcs)]]
      /\ \A s \in States, d \in BOOLEAN : pending[s][d] = <<>>
  BY DEF Init
<1>3. Live = {} /\ (\A s, p : Made(Live, s, p) = {})
  BY <1>1 DEF Live, Made
<1>4. Registry
  <2>1. \A s \in States, p \in Entries :
              Occurrences(connected[s], p) = Cardinality(Made(Live, s, p))
    <3> SUFFICES ASSUME NEW s \in States, NEW p \in Entries
                 PROVE  Occurrences(connected[s], p) = Cardinality(Made(Live, s, p))
      OBVIOUS
    <3>1. Cardinality(Made(Live, s, p)) = 0
      BY <1>3, FS_EmptySet
    <3>2. connected[s] \in Seq(Entries) /\ Len(connected[s]) = 0
      BY <1>2
    <3>3. \A i \in 1..Len(connected[s]) : connected[s][i] # p
      BY <3>2
    <3>4. Occurrences(connected[s], p) = 0
      BY <3>2, <3>3, PlacesFinite
    <3> QED BY <3>1, <3>4
  <2>2. order \in Seq(States) /\ conn \in Seq(Conns) /\ Len(order) = 0 /\ Len(conn) = 0
    BY <1>1
  <2>3. \A n \in 1..0 : FALSE
    OBVIOUS
  <2> QED BY <1>1, <1>2, <2>1, <2>2, <2>3 DEF Registry
<1>5. Len(stack) = 0 /\ Len(conn) = 0 /\ Len(threads) = 0
      /\ stack \in Seq(Codes \cup Fires) /\ threads \in Seq(Threads)
  BY <1>1
<1>6. \A n \in 1..0 : FALSE
  OBVIOUS
<1>7. Frames
  BY <1>1, <1>5, <1>6 DEF Frames
<1>8. Coroutines
  BY <1>1, <1>5, <1>6 DEF Coroutines
<1>9. Pendings
  <2>1. \A s \in States, d \in BOOLEAN : Len(pending[s][d]) = 0
    BY <1>2
  <2> QED BY <1>2, <1>6, <2>1 DEF Pendings
<1>10. Single /\ Ran /\ Waiters
  BY <1>1, <1>5, <1>6 DEF Single, Ran, Waiters
<1>11. Flags /\ OnceSpawnsOnce /\ ResumedForItsWait
  <2>1. fires \in Nat /\ fires <= MaxFires
    BY <1>1
  <2> QED BY <1>1, <2>1, Zenon DEF Flags, OnceSpawnsOnce, ResumedForItsWait
<1> QED BY <1>4, <1>7, <1>8, <1>9, <1>10, <1>11 DEF IInv

\* The invariant holds of every signal, however its handlers connect, disconnect,
\* wait and fire in the middle of fires, with the faults of the code or without them.
THEOREM Invariance == Spec => []IInv
<1>1. Init => IInv
  BY InitKeeps
<1>2. IInv /\ [Next]_vars => IInv'
  <2> SUFFICES ASSUME IInv, [Next]_vars PROVE IInv'
    OBVIOUS
  <2>1. CASE UNCHANGED vars
    BY <2>1, StutterKeeps
  <2>2. ASSUME NEW s \in States, StartScript(s) PROVE IInv'
    BY <2>2, StartScriptKeeps
  <2>3. ASSUME NEW s \in States, NEW d \in BOOLEAN, RunDeferred(s, d) PROVE IInv'
    BY <2>3, RunDeferredKeeps
  <2>4. ASSUME NEW f \in Functions, NEW d \in BOOLEAN, Connect(f, d) PROVE IInv'
    BY <2>4, ConnectKeeps
  <2>5. ASSUME NEW d \in BOOLEAN, Once(d) PROVE IInv'
    BY <2>5, OnceKeeps
  <2>6. ASSUME NEW d \in BOOLEAN, Wait(d) PROVE IInv'
    BY <2>6, WaitKeeps
  <2>7. ASSUME NEW d \in BOOLEAN, CppWait(d) PROVE IInv'
    BY <2>7, CppWaitKeeps
  <2>8. ASSUME NEW c \in DOMAIN conn, Disconnect(c) PROVE IInv'
    BY <2>8, DisconnectKeeps
  <2>9. CASE Return
    BY <2>9, ReturnKeeps
  <2>10. CASE Fire
    BY <2>10, FireKeeps
  <2>11. CASE FireNow
    BY <2>11, FireNowKeeps
  <2>12. CASE ContinueFire
    BY <2>12, ContinueFireKeeps
  <2> QED BY <2>1, <2>2, <2>3, <2>4, <2>5, <2>6, <2>7, <2>8, <2>9, <2>10, <2>11, <2>12 DEF Next
<1> QED BY <1>1, <1>2, PTL DEF Spec

\* The vector of a state has a pair as often as connections with a ref connected it:
\* Disconnect may erase an equal pair of another connection, and the counts agree.
THEOREM EntriesCounted == Spec => []EntriesAreConnections
<1>1. IInv => EntriesAreConnections
  <2> SUFFICES ASSUME IInv, NEW s \in States,
                      NEW pair \in ToSet(connected[s]) \cup {conn[c].pair : c \in DOMAIN conn}
               PROVE  Occurrences(connected[s], pair) = Cardinality(Made(Live, s, pair))
    BY DEF EntriesAreConnections
  <2>1. pair \in Entries
    <3>1. Registry /\ connected[s] \in Seq(Entries)
      BY DEF IInv, Registry
    <3>2. CASE pair \in ToSet(connected[s])
      BY <3>1, <3>2 DEF ToSet
    <3>3. CASE pair \in {conn[c].pair : c \in DOMAIN conn}
      BY <3>1, <3>3, ConnsAre
    <3> QED BY <3>2, <3>3
  <2> QED BY <2>1 DEF IInv, Registry
<1> QED BY <1>1, Invariance, PTL

\* The function of Once is spawned once, unless fires overlapped.
THEOREM OnceRunsOnce == Spec => []OnceSpawnsOnce
<1>1. IInv => OnceSpawnsOnce
  BY DEF IInv
<1> QED BY <1>1, Invariance, PTL

\* A thread is resumed by the wrapper of the Wait that it is suspended in, unless
\* fires overlapped or Wait was called from C++.
THEOREM WaitResumed == Spec => []ResumedForItsWait
<1>1. IInv => ResumedForItsWait
  BY DEF IInv
<1> QED BY <1>1, Invariance, PTL

\* A thread that is suspended in Wait is in the vector of its state.
THEOREM WaiterKept == Spec => []NoLostWaiter
<1>1. IInv => NoLostWaiter
  <2> SUFFICES ASSUME IInv, NEW t \in DOMAIN threads, threads[t].status = "suspended"
               PROVE  LET c == threads[t].on
                      IN  c \in Live /\ Contains(connected[conn[c].state], conn[c].pair)
    BY DEF NoLostWaiter
  <2>1. Registry /\ threads \in Seq(Threads) /\ t \in 1..Len(threads)
    BY DEF IInv, Coroutines
  <2>2. threads[t].on \in Live
    BY <2>1 DEF IInv, Coroutines
  <2>3. PICK c \in 1..Len(conn) : c = threads[t].on /\ c \in Live
    BY <2>1, <2>2, ConnsAre
  <2>4. PICK s, p : s = conn[c].state /\ p = conn[c].pair
    OBVIOUS
  <2>5. s \in States /\ p \in Entries /\ connected[s] \in Seq(Entries)
    BY <2>1, <2>4, ConnsAre DEF Registry
  <2>6. c \in Made(Live, s, p) /\ IsFiniteSet(Made(Live, s, p))
    <3>1. Live \in SUBSET (1..Len(conn))
      BY <2>1, ConnsAre
    <3>2. c \in Made(Live, s, p)
      BY <2>3, <2>4 DEF Made
    <3> QED BY <2>1, <3>1, <3>2, ConnsAre
  <2>7. Cardinality(Made(Live, s, p)) # 0
    BY <2>6, FS_EmptySet
  <2>8. Occurrences(connected[s], p) # 0
    BY <2>1, <2>5, <2>7 DEF Registry
  <2>9. \E i \in 1..Len(connected[s]) : connected[s][i] = p
    BY <2>5, <2>8, PlacesFinite
  <2>10. Contains(connected[s], p)
    BY <2>5, <2>9 DEF Contains
  <2> QED BY <2>3, <2>4, <2>10
<1> QED BY <1>1, Invariance, PTL

\* FireNow calls what is connected throughout, and nothing more often than it was
\* connected, whatever its handlers do.
THEOREM FireReaches == Spec => []FireReachesAll
<1>1. IInv => FireReachesAll
  <2> SUFFICES ASSUME IInv, NEW i \in DOMAIN stack, stack[i].kind = "fire", ~Unfinished(stack[i]),
                      NEW c \in DOMAIN conn
               PROVE  LET s == conn[c].state
                          pair == conn[c].pair
                          calls == Cardinality({g \in stack[i].given :
                                                   order[g[1]] = s /\ g[3] = pair})
                      IN  /\ calls >= Cardinality(Made(stack[i].born \cap Live, s, pair))
                          /\ calls <= Cardinality(Made(DOMAIN conn, s, pair))
    BY DEF FireReachesAll
  <2>1. /\ Registry /\ i \in 1..Len(stack) /\ stack[i] \in Codes \cup Fires
        /\ Copied(stack[i]) /\ Reached(stack[i])
    <3>1. stack \in Seq(Codes \cup Fires)
      BY DEF IInv, Frames
    <3>2. i \in 1..Len(stack) /\ stack[i] \in Codes \cup Fires
      BY <3>1
    <3> QED BY <3>2 DEF IInv, Frames
  <2>2. PICK f \in Fires : f = stack[i]
    BY <2>1, FrameKinds
  <2>3. PICK s, pair : s = conn[c].state /\ pair = conn[c].pair
    OBVIOUS
  <2>4. /\ DOMAIN conn = 1..Len(conn) /\ s \in States /\ pair \in Entries /\ c \in 1..Len(conn)
        /\ Len(order) \in Nat
    <3>1. order \in Seq(States)
      BY <2>1 DEF Registry
    <3> QED BY <2>1, <2>3, <3>1, ConnsAre
  <2>5. /\ Copied(f) /\ Reached(f) /\ f.at \in Nat /\ f.j \in Nat
        /\ f.copy \in Seq(Entries) /\ Len(f.copy) \in Nat
        /\ f.given \in SUBSET (Nat \X Nat \X Entries)
    BY <2>1, <2>2 DEF Fires
  <2>6. f.at = Len(order) /\ f.j = Len(f.copy)
    <3>1. ~(f.j < Len(f.copy)) /\ ~(f.at < Len(order))
      BY <2>2 DEF Unfinished, Iterated
    <3>2. f.at <= Len(order) /\ f.j <= Len(f.copy)
      BY <2>5 DEF Copied
    <3> QED BY <2>4, <2>5, <3>1, <3>2
  <2>7. PICK a \in 1..Len(order) : order[a] = s
    BY <2>1, <2>3, <2>4 DEF Registry
  <2>8. \A b \in 1..Len(order) : order[b] = s <=> b = a
    BY <2>1, <2>7 DEF Registry
  <2>9. {g \in f.given : order[g[1]] = s /\ g[3] = pair} = CallsAt(f, a, pair)
    <3>1. \A g \in f.given : g[1] \in 1..Len(order)
      <4> SUFFICES ASSUME NEW g \in f.given PROVE g[1] \in 1..Len(order)
        OBVIOUS
      <4>1. 1 <= g[1] /\ g[1] <= f.at
        BY <2>5 DEF Reached
      <4>2. g[1] \in Nat
        BY <2>5
      <4> QED BY <2>4, <2>6, <4>1, <4>2
    <3> QED BY <2>8, <3>1 DEF CallsAt
  <2>10. Within(f, s, pair, Cardinality(CallsAt(f, a, pair)))
    <3>1. CASE a < f.at
      <4>1. a \in 1..(f.at - 1)
        BY <2>5, <3>1
      <4> QED BY <2>4, <2>5, <2>7, <4>1 DEF Reached
    <3>2. CASE ~(a < f.at)
      <4>1. a = f.at /\ f.at > 0
        BY <2>4, <2>6, <3>2
      <4>2. /\ Cardinality(CallsAt(f, a, pair)) = Cardinality(Done(f, pair))
            /\ Within(f, s, pair, Occurrences(f.copy, pair))
        BY <2>4, <2>5, <2>7, <4>1 DEF Reached
      <4>3. Done(f, pair) = Places(f.copy, pair)
        BY <2>6 DEF Done, Places
      <4>4. Occurrences(f.copy, pair) = Cardinality(Places(f.copy, pair))
        BY <2>5, PlacesFinite
      <4> QED BY <4>2, <4>3, <4>4
    <3> QED BY <3>1, <3>2
  <2>11. PICK calls : calls = Cardinality({g \in f.given : order[g[1]] = s /\ g[3] = pair})
    OBVIOUS
  <2>12. calls >= Cardinality(Made(f.born \cap Live, s, pair))
         /\ calls <= Cardinality(Made(DOMAIN conn, s, pair))
    BY <2>4, <2>9, <2>10, <2>11 DEF Within
  <2> QED BY <2>2, <2>3, <2>11, <2>12
<1> QED BY <1>1, Invariance, PTL

\* Every variable has its type; a fire never comes to more states or functions than
\* there are.
THEOREM TypeCorrect == Spec => []TypeOK
<1>1. IInv => TypeOK
  <2> SUFFICES ASSUME IInv PROVE TypeOK
    OBVIOUS
  <2>1. Registry /\ Frames /\ Coroutines /\ Pendings /\ Flags
    BY DEF IInv
  <2>2. ToSet(order) \subseteq States /\ Len(order) = Cardinality(ToSet(order))
    <3>1. /\ order \in Seq(States) /\ Len(order) \in Nat
          /\ \A a, b \in 1..Len(order) : order[a] = order[b] => a = b
      BY <2>1 DEF Registry
    <3>2. ToSet(order) = {order[a] : a \in 1..Len(order)}
      BY <3>1 DEF ToSet
    <3>3. PICK g \in [1..Len(order) -> ToSet(order)] : \A a \in 1..Len(order) : g[a] = order[a]
      <4>1. [a \in 1..Len(order) |-> order[a]] \in [1..Len(order) -> ToSet(order)]
        BY <3>2
      <4> QED BY <4>1
    <3>4. IsFiniteSet(1..Len(order)) /\ Cardinality(1..Len(order)) = Len(order)
      <4>1. 1 \in Int /\ Len(order) \in Int
        BY <3>1
      <4>2. /\ IsFiniteSet(1..Len(order))
            /\ Cardinality(1..Len(order)) = IF 1 > Len(order) THEN 0 ELSE Len(order) - 1 + 1
        BY <4>1, FS_Interval
      <4>3. (IF 1 > Len(order) THEN 0 ELSE Len(order) - 1 + 1) = Len(order)
        BY <3>1
      <4> QED BY <4>2, <4>3
    <3>5. /\ \A a, b \in 1..Len(order) : g[a] = g[b] => a = b
          /\ \A x \in ToSet(order) : \E a \in 1..Len(order) : g[a] = x
      BY <3>1, <3>2, <3>3
    <3>6. Cardinality(ToSet(order)) = Cardinality(1..Len(order))
      BY <3>4, <3>5, SameSize
    <3>7. ToSet(order) \subseteq States
      BY <3>1, <3>2
    <3> QED BY <3>4, <3>6, <3>7
  <2>3. \A s \in States : ToSet(connected[s]) \subseteq Entries
    <3>1. \A s \in States : connected[s] \in Seq(Entries)
      BY <2>1 DEF Registry
    <3> QED BY <3>1 DEF ToSet
  <2>4. \A c \in DOMAIN conn : conn[c] \in [live : BOOLEAN, state : States, pair : Entries]
    BY <2>1, ConnsAre DEF Conns
  <2>5. \A s \in States, d \in BOOLEAN :
          \A i \in DOMAIN pending[s][d] : Pair(d, pending[s][d][i]) \in Entries
    <3> SUFFICES ASSUME NEW s \in States, NEW d \in BOOLEAN, NEW i \in DOMAIN pending[s][d]
                 PROVE  Pair(d, pending[s][d][i]) \in Entries
      OBVIOUS
    <3>1. pending[s][d] \in Seq(Funcs)
      BY <2>1 DEF Pendings
    <3>2. pending[s][d][i] \in Funcs
      BY <3>1
    <3> QED BY <3>2, EntriesAre DEF Pair
  <2>6. stack \in Seq(Codes \cup Fires) /\ DOMAIN stack = 1..Len(stack) /\ Len(stack) <= MaxDepth
    <3>1. stack \in Seq(Codes \cup Fires)
      BY <2>1 DEF Frames
    <3> QED BY <2>1, <3>1 DEF Frames
  <2>7. threads \in Seq(Threads) /\ DOMAIN threads = 1..Len(threads) /\ Len(threads) \in Nat
    <3>1. threads \in Seq(Threads)
      BY <2>1 DEF Coroutines
    <3> QED BY <3>1
  <2>8. \A i \in DOMAIN stack :
          \/ stack[i] \in [kind : {"code"}, state : States, thread : 0..Len(threads)]
          \/ stack[i].kind = "fire" /\ stack[i].at <= Len(order)
                                    /\ stack[i].j <= Len(stack[i].copy)
    <3> SUFFICES ASSUME NEW i \in 1..Len(stack), stack[i].kind # "fire"
                 PROVE  stack[i] \in [kind : {"code"}, state : States, thread : 0..Len(threads)]
      BY <2>1, <2>6 DEF Frames, Copied
    <3>1. PICK f \in Codes : f = stack[i]
      <4>1. stack[i] \in Codes \cup Fires
        BY <2>6
      <4> QED BY <4>1, FrameKinds
    <3>2. f.thread \in Nat /\ f.kind = "code" /\ f.state \in States
      BY DEF Codes
    <3>3. f.thread # 0 => f.thread <= Len(threads)
      BY <2>1, <3>1, <3>2 DEF Coroutines, CodeOf
    <3>4. f.thread \in 0..Len(threads)
      BY <2>7, <3>2, <3>3
    <3>5. f = [kind |-> f.kind, state |-> f.state, thread |-> f.thread]
      BY DEF Codes
    <3> QED BY <3>1, <3>2, <3>4, <3>5
  <2>9. \A t \in DOMAIN threads : threads[t] \in
          [status : {"suspended", "running", "dead"}, on : 0..Len(conn)]
    <3> SUFFICES ASSUME NEW t \in 1..Len(threads)
                 PROVE  threads[t] \in [status : {"suspended", "running", "dead"}, on : 0..Len(conn)]
      BY <2>7
    <3>1. PICK h \in Threads : h = threads[t]
      BY <2>7
    <3>2. h.on \in Nat /\ h.on <= Len(conn) /\ Len(conn) \in Nat
      <4>1. h.on <= Len(conn)
        BY <2>1, <3>1 DEF Coroutines
      <4> QED BY <2>1, <4>1, ConnsAre DEF Threads
    <3>3. h.on \in 0..Len(conn)
      BY <3>2
    <3>4. h = [status |-> h.status, on |-> h.on] /\ h.status \in {"suspended", "running", "dead"}
      BY DEF Threads
    <3> QED BY <3>1, <3>3, <3>4
  <2> QED BY <2>1, <2>2, <2>3, <2>4, <2>5, <2>6, <2>8, <2>9 DEF TypeOK, Coroutines, Flags
<1> QED BY <1>1, Invariance, PTL

----------------------------------------------------------------------------
(* Late calls: how the stack and the map change. *)

\* Append of anything.
LEMMA Longer ==
    ASSUME NEW S, NEW seq \in Seq(S), NEW x
    PROVE  /\ Len(Append(seq, x)) = Len(seq) + 1 /\ Append(seq, x)[Len(seq) + 1] = x
           /\ \A i \in 1..Len(seq) : Append(seq, x)[i] = seq[i]
           /\ \A i \in 1..Len(Append(seq, x)) : i \in 1..Len(seq) \/ i = Len(seq) + 1
<1>1. seq \in Seq(S \cup {x}) /\ x \in S \cup {x}
  OBVIOUS
<1>2. PICK T : T = S \cup {x}
  OBVIOUS
<1>3. seq \in Seq(T) /\ x \in T /\ Len(seq) \in Nat
  BY <1>1, <1>2
<1>4. /\ Len(Append(seq, x)) = Len(seq) + 1 /\ Append(seq, x)[Len(seq) + 1] = x
      /\ \A i \in 1..Len(seq) : Append(seq, x)[i] = seq[i]
  BY <1>3, Pushed
<1>5. \A i \in 1..(Len(seq) + 1) : i \in 1..Len(seq) \/ i = Len(seq) + 1
  BY <1>3
<1> QED BY <1>4, <1>5

\* A handler is put on base, or is over at once.
LEMMA RunFrames ==
    ASSUME NEW S, NEW base \in Seq(S), NEW s, NEW g, Run(s, g, base)
    PROVE  \A i \in 1..Len(stack') : stack'[i].kind = "fire" =>
              i \in 1..Len(base) /\ stack'[i] = base[i]
<1>1. stack' = base \/ \E t : stack' = Append(base, Code(s, t))
  BY DEF Run, RunPlain, WrapperRaises, RunOnce, RunWait
<1>2. CASE stack' = base
  BY <1>2
<1>3. CASE stack' # base
  <2>1. PICK t : stack' = Append(base, Code(s, t))
    BY <1>1, <1>3
  <2>2. Code(s, t).kind = "code"
    BY DEF Code
  <2> QED BY <2>1, <2>2, Longer
<1> QED BY <1>2, <1>3

\* A FireNow after a step is one from before it, has not begun to call, or has just
\* copied the vector of a state.
FramesGoOn ==
    \A i \in 1..Len(stack') : stack'[i].kind = "fire" =>
        \/ /\ i \in 1..Len(stack) /\ stack[i].kind = "fire"
           /\ stack'[i] = stack[i] \/ stack'[i] = CallNext(stack[i])
        \/ stack'[i].at = 0
        \/ stack'[i].at \in 1..Len(order) /\ stack'[i].copy = connected[order[stack'[i].at]]

\* The top of the stack is removed, or replaced by code.
LEMMA FrontGoesOn ==
    ASSUME Frames, stack # <<>>,
           \/ stack' = Front(stack)
           \/ \E x : stack' = Append(Front(stack), x) /\ x.kind = "code"
    PROVE  FramesGoOn
<1>1. /\ Len(stack) \in Nat /\ Len(stack) > 0
      /\ Front(stack) \in Seq(Codes \cup Fires) /\ Len(Front(stack)) = Len(stack) - 1
      /\ \A i \in 1..(Len(stack) - 1) : Front(stack)[i] = stack[i]
  BY TopOfStack
<1>2. \A i \in 1..(Len(stack) - 1) : i \in 1..Len(stack)
  BY <1>1
<1>3. CASE stack' = Front(stack)
  BY <1>1, <1>2, <1>3 DEF FramesGoOn
<1>4. ASSUME NEW x, stack' = Append(Front(stack), x), x.kind = "code"
      PROVE  FramesGoOn
  <2>1. PICK q \in Seq(Codes \cup Fires) : q = Front(stack)
    BY <1>1
  <2>2. /\ Len(stack') = Len(q) + 1 /\ stack'[Len(q) + 1] = x
        /\ \A i \in 1..Len(q) : stack'[i] = q[i]
        /\ \A i \in 1..Len(stack') : i \in 1..Len(q) \/ i = Len(q) + 1
    BY <1>4, <2>1, Longer
  <2> QED BY <1>1, <1>2, <1>4, <2>1, <2>2 DEF FramesGoOn
<1> QED BY <1>3, <1>4

\* Every step leaves FireNows as they were, or calls, copies or begins.
LEMMA StepGoesOn ==
    ASSUME IInv, [Next]_vars
    PROVE  FramesGoOn
<1>1. Registry /\ Frames /\ stack \in Seq(Codes \cup Fires) /\ Len(stack) \in Nat
  <2>1. Frames /\ stack \in Seq(Codes \cup Fires)
    BY DEF IInv, Frames
  <2> QED BY <2>1 DEF IInv
<1>2. CASE UNCHANGED stack
  BY <1>2 DEF FramesGoOn
<1>3. ASSUME NEW s \in States, StartScript(s) PROVE FramesGoOn
  <2>1. stack' = <<Code(s, 0)>> /\ Code(s, 0).kind = "code"
    BY <1>3 DEF StartScript, Code
  <2>2. Len(stack') = 1 /\ stack'[1].kind = "code"
    BY <2>1
  <2>3. \A i \in 1..Len(stack') : stack'[i].kind = "code"
    BY <2>2
  <2> QED BY <2>3 DEF FramesGoOn
<1>4. ASSUME NEW s \in States, NEW d \in BOOLEAN, RunDeferred(s, d) PROVE FramesGoOn
  <2>1. <<>> \in Seq(Codes) /\ Len(<<>>) = 0
    OBVIOUS
  <2>2. PICK base \in Seq(Codes) : base = <<>> /\ Len(base) = 0
    BY <2>1
  <2>3. Run(s, Head(pending[s][d]), base)
    BY <1>4, <2>2 DEF RunDeferred
  <2>4. \A i \in 1..Len(stack') : stack'[i].kind = "fire" => i \in 1..Len(base)
    BY <2>3, RunFrames
  <2> QED BY <2>2, <2>4 DEF FramesGoOn
<1>5. ASSUME NEW d \in BOOLEAN, Wait(d) PROVE FramesGoOn
  BY <1>1, <1>5, FrontGoesOn DEF Wait, InCode
<1>6. ASSUME NEW d \in BOOLEAN, CppWait(d) PROVE FramesGoOn
  <2>1. InCode /\ stack' = Append(Front(stack), [Top EXCEPT !.thread = Running])
    BY <1>6 DEF CppWait
  <2>2. Top \in Codes
    BY <1>1, <2>1, CodeOnTop
  <2>3. [Top EXCEPT !.thread = Running].kind = "code"
    BY <2>2 DEF Codes
  <2> QED BY <1>1, <2>1, <2>3, FrontGoesOn DEF InCode
<1>7. CASE Return
  BY <1>1, <1>7, FrontGoesOn DEF Return, InCode
<1>8. CASE FireNow
  <2>1. stack' = Append(stack, Firing) /\ Firing.at = 0
    BY <1>8 DEF FireNow, Firing
  <2> QED BY <1>1, <2>1, Longer DEF FramesGoOn
<1>9. CASE ContinueFire
  <2>1. PICK f \in Fires : f = Top
    BY <1>9, FireOnTop DEF ContinueFire
  <2>2. stack # <<>> /\ Top.kind = "fire"
    BY <1>9 DEF ContinueFire
  <2>3. PICK q \in Seq(Codes \cup Fires) : q = Front(stack)
    BY <2>2, FireOnTop
  <2>4. /\ Len(stack) \in 1..Len(stack) /\ Top = stack[Len(stack)] /\ f.at \in Nat
        /\ Len(q) = Len(stack) - 1 /\ Len(q) + 1 = Len(stack)
        /\ \A i \in 1..Len(q) : q[i] = stack[i] /\ i \in 1..Len(stack)
    <3>1. /\ Len(stack) \in 1..Len(stack) /\ Top = stack[Len(stack)] /\ f.at \in Nat
          /\ Len(q) = Len(stack) - 1
          /\ \A i \in 1..(Len(stack) - 1) : q[i] = stack[i]
      BY <2>1, <2>2, <2>3, FireOnTop
    <3>2. Len(q) + 1 = Len(stack) /\ \A i \in 1..(Len(stack) - 1) : i \in 1..Len(stack)
      BY <1>1, <3>1
    <3> QED BY <3>1, <3>2
  <2>5. CASE FireCall
    <3>1. PICK x : x = CallNext(f)
      OBVIOUS
    <3>2. PICK base : base = Append(q, x)
      OBVIOUS
    <3>3. Run(order[f.at], f.copy[f.j + 1].func, base) /\ f.j < Len(f.copy)
      BY <2>1, <2>3, <2>5, <3>1, <3>2 DEF FireCall, Iterated, CallNext
    <3>4. f.at > 0 /\ x \in Fires
      BY <1>1, <2>1, <2>2, <3>1, <3>3, CallCounts, FireOnTop
    <3>5. base \in Seq(Codes \cup Fires)
      BY <3>2, <3>4
    <3>6. \A i \in 1..Len(stack') : stack'[i].kind = "fire" =>
              i \in 1..Len(base) /\ stack'[i] = base[i]
      BY <3>3, <3>5, RunFrames
    <3>7. \A i \in 1..Len(base) :
              (i \in 1..Len(q) /\ base[i] = q[i]) \/ (i = Len(q) + 1 /\ base[i] = x)
      <4>1. /\ base[Len(q) + 1] = x /\ \A i \in 1..Len(q) : base[i] = q[i]
            /\ \A i \in 1..Len(base) : i \in 1..Len(q) \/ i = Len(q) + 1
        BY <3>2, Longer
      <4> QED BY <4>1
    <3>8. f = stack[Len(stack)] /\ f.kind = "fire"
      BY <2>1, <2>2, <2>4
    <3>9. ASSUME NEW i \in 1..Len(stack'), stack'[i].kind = "fire"
          PROVE  /\ i \in 1..Len(stack) /\ stack[i].kind = "fire"
                 /\ stack'[i] = stack[i] \/ stack'[i] = CallNext(stack[i])
      <4>1. i \in 1..Len(base) /\ stack'[i] = base[i]
        BY <3>6, <3>9
      <4>2. CASE i \in 1..Len(q) /\ base[i] = q[i]
        BY <2>4, <3>9, <4>1, <4>2
      <4>3. CASE i = Len(q) + 1 /\ base[i] = x
        BY <2>4, <3>1, <3>8, <4>1, <4>3
      <4> QED BY <3>7, <4>1, <4>2, <4>3
    <3> QED BY <3>9 DEF FramesGoOn
  <2>6. CASE FireState
    <3>1. PICK e : e = CopyNext(f)
      OBVIOUS
    <3>2. stack' = Append(q, e) /\ f.j >= Len(f.copy) /\ f.at < Len(order)
      BY <2>1, <2>3, <2>6, <3>1 DEF FireState, Iterated, CopyNext
    <3>3. e.at = f.at + 1 /\ e.copy = connected[order[f.at + 1]]
      BY <3>1 DEF CopyNext, Fires
    <3>4. e.at \in 1..Len(order)
      <4>1. order \in Seq(States)
        BY <1>1 DEF Registry
      <4>2. Len(order) \in Nat
        BY <4>1
      <4> QED BY <2>4, <3>2, <3>3, <4>2
    <3>5. /\ Len(stack') = Len(q) + 1 /\ stack'[Len(q) + 1] = e
          /\ \A i \in 1..Len(q) : stack'[i] = q[i]
          /\ \A i \in 1..Len(stack') : i \in 1..Len(q) \/ i = Len(q) + 1
      BY <3>2, Longer
    <3> QED BY <2>4, <3>3, <3>4, <3>5 DEF FramesGoOn
  <2>7. CASE FireEnd
    BY <1>1, <2>2, <2>7, FrontGoesOn DEF FireEnd
  <2> QED BY <1>9, <2>5, <2>6, <2>7 DEF ContinueFire
<1>10. ASSUME NEW f \in Functions, NEW d \in BOOLEAN, Connect(f, d) PROVE UNCHANGED stack
  BY <1>10 DEF Connect
<1>11. ASSUME NEW d \in BOOLEAN, Once(d) PROVE UNCHANGED stack
  BY <1>11 DEF Once
<1>12. ASSUME NEW c \in DOMAIN conn, Disconnect(c) PROVE UNCHANGED stack
  BY <1>12 DEF Disconnect
<1>13. Fire => UNCHANGED stack
  BY DEF Fire
<1>14. UNCHANGED vars => UNCHANGED stack
  BY DEF vars
<1> QED BY <1>2, <1>3, <1>4, <1>5, <1>6, <1>7, <1>8, <1>9, <1>10, <1>11, <1>12, <1>13, <1>14 DEF Next

\* States keep their places in the map.
LEMMA OrderKept ==
    ASSUME Registry, [Next]_vars
    PROVE  \A i \in 1..Len(order) : order'[i] = order[i]
<1>1. order \in Seq(States)
  BY DEF Registry
<1>2. ASSUME NEW s, NEW p, ConnectPair(s, p)
      PROVE  \A i \in 1..Len(order) : order'[i] = order[i]
  <2>1. order' = order \/ order' = Append(order, s)
    BY <1>2 DEF ConnectPair, Keyed
  <2> QED BY <1>1, <2>1, Longer
<1>3. ASSUME NEW s, NEW g, NEW base, Run(s, g, base) PROVE UNCHANGED order
  BY <1>3 DEF Run
<1>4. ASSUME NEW s \in States, NEW d \in BOOLEAN, RunDeferred(s, d) PROVE UNCHANGED order
  BY <1>3, <1>4 DEF RunDeferred
<1>5. FireCall => UNCHANGED order
  BY <1>3 DEF FireCall
<1>6. /\ (\A s \in States : StartScript(s) => UNCHANGED order)
      /\ (\A c \in DOMAIN conn : Disconnect(c) => UNCHANGED order)
      /\ (Return => UNCHANGED order) /\ (Fire => UNCHANGED order) /\ (FireNow => UNCHANGED order)
      /\ (FireState => UNCHANGED order) /\ (FireEnd => UNCHANGED order)
      /\ (UNCHANGED vars => UNCHANGED order)
  BY DEF StartScript, Disconnect, Return, Fire, FireNow, Begin, FireState, FireEnd, vars
<1>7. ContinueFire => UNCHANGED order
  BY <1>5, <1>6 DEF ContinueFire
<1>8. /\ \A f \in Functions, d \in BOOLEAN : Connect(f, d) => \E s, p : ConnectPair(s, p)
      /\ \A d \in BOOLEAN : Once(d) \/ Wait(d) \/ CppWait(d) => \E s, p : ConnectPair(s, p)
  BY DEF Connect, Once, Wait, CppWait
<1> QED BY <1>2, <1>4, <1>6, <1>7, <1>8 DEF Next

----------------------------------------------------------------------------
(* Late calls: what is deferred and copied. *)

\* The calls of a pair in a state that FireNows copied and did not come to.
CopiedToCome(s, pair) ==
    {p \in (DOMAIN stack) \X (1..MaxConns) :
        LET f == stack[p[1]]
        IN  /\ f.kind = "fire" /\ f.at > 0 /\ order[f.at] = s
            /\ p[2] > f.j /\ p[2] <= Len(f.copy) /\ f.copy[p[2]] = pair}

\* A pair without a connection is not in the vector.
LEMMA NotConnected ==
    ASSUME Registry, NEW s \in States, NEW pair \in Entries, Made(Live, s, pair) = {}
    PROVE  \A i \in 1..Len(connected[s]) : connected[s][i] # pair
<1>1. Cardinality(Made(Live, s, pair)) = 0
  BY FS_EmptySet
<1>2. connected[s] \in Seq(Entries) /\ Occurrences(connected[s], pair) = 0
  BY <1>1 DEF Registry
<1> QED BY <1>2, PlacesFinite

\* The tail of a sequence has no more of anything.
LEMMA OccurrencesTail ==
    ASSUME NEW S, NEW seq \in Seq(S), seq # <<>>, NEW e
    PROVE  Occurrences(Tail(seq), e) <= Occurrences(seq, e)
<1>1. /\ Tail(seq) \in Seq(S) /\ Len(seq) \in Nat /\ Len(Tail(seq)) = Len(seq) - 1
      /\ \A i \in 1..(Len(seq) - 1) : Tail(seq)[i] = seq[i + 1]
  OBVIOUS
<1>2. PICK P, Q : P = Places(Tail(seq), e) /\ Q = Places(seq, e)
  OBVIOUS
<1>3. IsFiniteSet(Q) /\ Occurrences(Tail(seq), e) = Cardinality(P) /\ Occurrences(seq, e) = Cardinality(Q)
  BY <1>1, <1>2, PlacesFinite
<1>4. \A i \in P : i \in Nat /\ i + 1 \in Q
  <2> SUFFICES ASSUME NEW i \in P PROVE i \in Nat /\ i + 1 \in Q
    OBVIOUS
  <2>1. i \in 1..Len(Tail(seq)) /\ Tail(seq)[i] = e
    BY <1>2 DEF Places
  <2>2. i \in 1..(Len(seq) - 1) /\ i \in Nat /\ i + 1 \in 1..Len(seq)
    BY <1>1, <2>1
  <2> QED BY <1>1, <1>2, <2>1, <2>2 DEF Places
<1>5. [i \in P |-> i + 1] \in Injection(P, Q)
  BY <1>4 DEF Injection, IsInjective
<1> QED BY <1>3, <1>5, FS_Injection

\* Adding what lacks something adds none of it.
LEMMA OccurrencesConcat ==
    ASSUME NEW S, NEW seq \in Seq(S), NEW r \in Seq(S), NEW e, \A i \in 1..Len(r) : r[i] # e
    PROVE  Occurrences(seq \o r, e) <= Occurrences(seq, e)
<1>1. /\ seq \o r \in Seq(S) /\ Len(seq \o r) = Len(seq) + Len(r)
      /\ \A k \in 1..(Len(seq) + Len(r)) :
            (seq \o r)[k] = IF k <= Len(seq) THEN seq[k] ELSE r[k - Len(seq)]
  BY ConcatProperties
<1>2. PICK P, Q : P = Places(seq \o r, e) /\ Q = Places(seq, e)
  OBVIOUS
<1>3. IsFiniteSet(Q) /\ Occurrences(seq \o r, e) = Cardinality(P) /\ Occurrences(seq, e) = Cardinality(Q)
  BY <1>1, <1>2, PlacesFinite
<1>4. P \in SUBSET Q
  <2> SUFFICES ASSUME NEW i \in P PROVE i \in Q
    OBVIOUS
  <2>1. i \in 1..(Len(seq) + Len(r)) /\ (seq \o r)[i] = e
    BY <1>1, <1>2 DEF Places
  <2>2. Len(seq) \in Nat /\ Len(r) \in Nat
    OBVIOUS
  <2>3. CASE i <= Len(seq)
    <3>1. i \in 1..Len(seq)
      BY <2>1, <2>2, <2>3
    <3> QED BY <1>1, <1>2, <2>1, <2>3, <3>1 DEF Places
  <2>4. CASE ~(i <= Len(seq))
    <3>1. i - Len(seq) \in 1..Len(r)
      BY <2>1, <2>2, <2>4
    <3>2. (seq \o r)[i] = r[i - Len(seq)]
      BY <1>1, <2>1, <2>4
    <3> QED BY <2>1, <3>1, <3>2
  <2> QED BY <2>3, <2>4
<1> QED BY <1>3, <1>4, FS_Subset

\* What is deferred of a function that is not connected gets less.
LEMMA FewerDeferred ==
    ASSUME IInv, [Next]_vars, NEW s \in States, NEW pair \in Entries, Made(Live, s, pair) = {}
    PROVE  Occurrences(pending'[s][pair.desync], pair.func)
              <= Occurrences(pending[s][pair.desync], pair.func)
<1> DEFINE q == pending[s][pair.desync]
<1>1. PICK d \in BOOLEAN : d = pair.desync
  BY EntriesAre
<1>2. Registry /\ pending \in [States -> [BOOLEAN -> Seq(Funcs)]] /\ pending[s][d] \in Seq(Funcs)
      /\ connected[s] \in Seq(Entries)
  BY DEF IInv, Pendings, Registry
<1>3. Occurrences(pending[s][d], pair.func) \in Nat
  BY <1>2, PlacesFinite
<1>4. CASE UNCHANGED pending
  BY <1>1, <1>3, <1>4
<1>5. ASSUME NEW r \in States, NEW e \in BOOLEAN, RunDeferred(r, e)
      PROVE  \/ pending'[s][d] = pending[s][d]
             \/ pending[s][d] # <<>> /\ pending'[s][d] = Tail(pending[s][d])
  BY <1>2, <1>5 DEF RunDeferred
<1>6. CASE \E r \in States, e \in BOOLEAN : RunDeferred(r, e)
  <2>1. CASE pending'[s][d] = pending[s][d]
    BY <1>1, <1>3, <2>1
  <2>2. CASE pending[s][d] # <<>> /\ pending'[s][d] = Tail(pending[s][d])
    BY <1>1, <1>2, <2>2, OccurrencesTail
  <2> QED BY <1>5, <1>6, <2>1, <2>2
<1>7. CASE Fire
  <2>1. PICK r : r = FunctionsOf(connected[s], d)
    OBVIOUS
  <2>2. pending'[s][d] = pending[s][d] \o r
    BY <1>7, <2>1 DEF Fire
  <2>3. r \in Seq(Funcs) /\ \A i \in 1..Len(r) : \E n \in 1..Len(connected[s]) :
              connected[s][n] = Pair(d, r[i])
    <3>1. /\ r \in Seq(Funcs)
          /\ \E m \in [1..Len(r) -> 1..Len(connected[s])] :
               /\ \A i \in 1..Len(r) : connected[s][m[i]] = Pair(d, r[i])
               /\ \A i, k \in 1..Len(r) : m[i] = m[k] => i = k
      <4>1. LET f == FunctionsOf(connected[s], d)
            IN  /\ f \in Seq(Funcs)
                /\ \E m \in [1..Len(f) -> 1..Len(connected[s])] :
                      /\ \A i \in 1..Len(f) : connected[s][m[i]] = Pair(d, f[i])
                      /\ \A i, k \in 1..Len(f) : m[i] = m[k] => i = k
        BY <1>2, FunctionsOfPairs
      <4> QED BY <2>1, <4>1
    <3>2. PICK m \in [1..Len(r) -> 1..Len(connected[s])] :
               \A i \in 1..Len(r) : connected[s][m[i]] = Pair(d, r[i])
      BY <3>1
    <3>3. \A i \in 1..Len(r) : m[i] \in 1..Len(connected[s])
      OBVIOUS
    <3> QED BY <3>1, <3>2, <3>3
  <2>4. Pair(d, pair.func) = pair
    BY <1>1 DEF Pair, Entries
  <2>5. \A i \in 1..Len(r) : r[i] # pair.func
    BY <1>2, <2>3, <2>4, NotConnected
  <2> QED BY <1>1, <1>2, <2>2, <2>3, <2>5, OccurrencesConcat
<1>8. /\ (\A r \in States : StartScript(r) => UNCHANGED pending)
      /\ (\A f \in Functions, e \in BOOLEAN : Connect(f, e) => UNCHANGED pending)
      /\ (\A e \in BOOLEAN : Once(e) \/ Wait(e) \/ CppWait(e) => UNCHANGED pending)
      /\ (\A c \in DOMAIN conn : Disconnect(c) => UNCHANGED pending)
      /\ (Return => UNCHANGED pending) /\ (FireNow => UNCHANGED pending)
      /\ (ContinueFire => UNCHANGED pending) /\ (UNCHANGED vars => UNCHANGED pending)
  BY DEF StartScript, Connect, Once, Wait, CppWait, Disconnect, Return, FireNow, ContinueFire,
         FireCall, FireState, FireEnd, vars
<1> QED BY <1>4, <1>6, <1>7, <1>8 DEF Next

\* So do the copies of the FireNows.
LEMMA FewerCopied ==
    ASSUME IInv, IInv', [Next]_vars, NEW s \in States, NEW pair \in Entries,
           Made(Live, s, pair) = {}
    PROVE  CopiedToCome(s, pair)' \subseteq CopiedToCome(s, pair)
<1>1. Registry /\ Frames /\ Registry' /\ Frames' /\ FramesGoOn
  BY StepGoesOn DEF IInv
<1>2. stack \in Seq(Codes \cup Fires) /\ stack' \in Seq(Codes \cup Fires) /\ order \in Seq(States)
  BY <1>1 DEF Frames, Registry
<1>3. DOMAIN stack = 1..Len(stack) /\ DOMAIN stack' = 1..Len(stack') /\ Len(order) \in Nat
  BY <1>2
<1>4. \A i \in 1..Len(order) : order'[i] = order[i]
  BY <1>1, OrderKept
<1> SUFFICES ASSUME NEW p \in CopiedToCome(s, pair)'
             PROVE  p \in CopiedToCome(s, pair)
  OBVIOUS
<1>5. PICK k \in 1..Len(stack'), n \in 1..MaxConns : p = <<k, n>>
  BY <1>3 DEF CopiedToCome
<1>6. PICK g : g = stack'[k]
  OBVIOUS
<1>7. /\ g.kind = "fire" /\ g.at > 0 /\ order'[g.at] = s
      /\ n > g.j /\ n <= Len(g.copy) /\ g.copy[n] = pair
  BY <1>5, <1>6 DEF CopiedToCome
<1>8. g \in Fires /\ n \in Nat
  <2>1. g \in Codes \cup Fires
    BY <1>2, <1>6
  <2>2. n \in Nat
    BY SignalAssumption
  <2> QED BY <1>7, <2>1, <2>2, FrameKinds
<1>9. ASSUME k \in 1..Len(stack), stack[k].kind = "fire",
             g = stack[k] \/ g = CallNext(stack[k])
      PROVE  p \in CopiedToCome(s, pair)
  <2>1. stack[k] \in Codes \cup Fires
    BY <1>2, <1>9
  <2>2. PICK f \in Fires : f = stack[k]
    BY <1>9, <2>1, FrameKinds
  <2>3. f.kind = "fire" /\ f.at \in Nat /\ f.j \in Nat /\ f.at <= Len(order)
    BY <1>1, <1>9, <2>2 DEF Frames, Copied, Fires
  <2>4. g.at = f.at /\ g.copy = f.copy /\ (g.j = f.j \/ g.j = f.j + 1)
    BY <1>9, <2>2 DEF CallNext, Fires
  <2>5. n > f.j /\ f.at > 0 /\ f.at \in 1..Len(order)
    BY <1>3, <1>7, <1>8, <2>3, <2>4
  <2>6. order[f.at] = s
    BY <1>4, <1>7, <2>4, <2>5
  <2>7. n <= Len(f.copy) /\ f.copy[n] = pair
    BY <1>7, <2>4
  <2>8. k \in DOMAIN stack
    BY <1>3, <1>9
  <2> QED BY <1>5, <2>2, <2>3, <2>5, <2>6, <2>7, <2>8 DEF CopiedToCome
<1>10. ASSUME g.at \in 1..Len(order), g.copy = connected[order[g.at]]
       PROVE  FALSE
  <2>1. order[g.at] = s
    BY <1>4, <1>7, <1>10
  <2>2. g.copy = connected[s] /\ Len(g.copy) \in Nat
    BY <1>8, <1>10, <2>1 DEF Fires
  <2>3. n \in 1..Len(connected[s])
    BY <1>7, <1>8, <2>2
  <2> QED BY <1>1, <1>7, <2>2, <2>3, NotConnected
<1> QED BY <1>1, <1>6, <1>7, <1>8, <1>9, <1>10 DEF FramesGoOn

\* A function that is connected no longer gets no further calls: a step of any
\* operation makes no more of them to come.
THEOREM NoLateCalls == Spec => NoLateCall
<1>1. ASSUME IInv, IInv', [Next]_vars, NEW s \in States, NEW pair \in {conn[c].pair : c \in DOMAIN conn},
             Made(Live, s, pair) = {}
      PROVE  ToCome(s, pair)' <= ToCome(s, pair)
  <2>1. Registry /\ pair \in Entries
    BY <1>1, ConnsAre DEF IInv
  <2>2. PICK a, b, x, y :
           /\ a = Occurrences(pending[s][pair.desync], pair.func)
           /\ b = Occurrences(pending'[s][pair.desync], pair.func)
           /\ x = Cardinality(CopiedToCome(s, pair)) /\ y = Cardinality(CopiedToCome(s, pair)')
    OBVIOUS
  <2>3. b <= a
    BY <1>1, <2>1, <2>2, FewerDeferred
  <2>4. a \in Nat /\ b \in Nat
    <3>1. pair.desync \in BOOLEAN
      BY <2>1, EntriesAre
    <3>2. pending[s][pair.desync] \in Seq(Funcs) /\ pending'[s][pair.desync] \in Seq(Funcs)
      BY <1>1, <3>1 DEF IInv, Pendings
    <3> QED BY <2>2, <3>2, PlacesFinite
  <2>5. IsFiniteSet(CopiedToCome(s, pair))
    <3>1. DOMAIN stack = 1..Len(stack) /\ Len(stack) \in Nat
      <4>1. stack \in Seq(Codes \cup Fires)
        BY <1>1 DEF IInv, Frames
      <4> QED BY <4>1
    <3>2. IsFiniteSet(DOMAIN stack) /\ IsFiniteSet(1..MaxConns)
      <4>1. 1 \in Int /\ Len(stack) \in Int /\ MaxConns \in Int
        BY <3>1, SignalAssumption
      <4> QED BY <3>1, <4>1, FS_Interval
    <3>3. IsFiniteSet((DOMAIN stack) \X (1..MaxConns))
      BY <3>2, FS_Product
    <3>4. CopiedToCome(s, pair) \in SUBSET ((DOMAIN stack) \X (1..MaxConns))
      BY DEF CopiedToCome
    <3> QED BY <3>3, <3>4, FS_Subset
  <2>6. y <= x /\ x \in Nat /\ y \in Nat
    <3>1. CopiedToCome(s, pair)' \subseteq CopiedToCome(s, pair)
      BY <1>1, <2>1, FewerCopied
    <3>2. PICK Y : Y = CopiedToCome(s, pair)'
      OBVIOUS
    <3>3. Y \in SUBSET CopiedToCome(s, pair)
      BY <3>1, <3>2
    <3>4. IsFiniteSet(Y) /\ Cardinality(Y) <= Cardinality(CopiedToCome(s, pair))
      BY <2>5, <3>3, FS_Subset
    <3> QED BY <2>2, <2>5, <3>2, <3>4, FS_CardinalityType
  <2>7. ToCome(s, pair) = a + x
    BY <2>2 DEF ToCome, CopiedToCome
  <2>8. ToCome(s, pair)' = b + y
    BY <2>2 DEF ToCome, CopiedToCome
  <2> QED BY <2>3, <2>4, <2>6, <2>7, <2>8
<1>2. IInv /\ IInv' /\ [Next]_vars =>
         \A s \in States : \A pair \in {conn[c].pair : c \in DOMAIN conn} :
            Made(Live, s, pair) = {} => ToCome(s, pair)' <= ToCome(s, pair)
  BY <1>1
<1>3. IInv /\ IInv' /\ [Next]_vars =>
         [\A s \in States : \A pair \in {conn[c].pair : c \in DOMAIN conn} :
            Made(Live, s, pair) = {} => ToCome(s, pair)' <= ToCome(s, pair)]_vars
  BY <1>2
<1> QED BY <1>3, Invariance, PTL DEF Spec, NoLateCall
============================================================================
