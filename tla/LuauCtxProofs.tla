---------------------------- MODULE LuauCtxProofs ----------------------------
(***************************************************************************)
(* Theorems about LuauCtx for any bounds and either way of raising.        *)
(*                                                                         *)
(* A frame that still knows its locals has them, and under a waiting       *)
(* xpcall its handler, on its stack (Healthy).  That a return or a raise   *)
(* finds its value on top needs every destructor in between to leave the   *)
(* stack alone, and the destructors of all frames that die are two nested  *)
(* loops.  Their result is a recursive function; what it keeps is proved   *)
(* by the least number of steps that would not have kept it (LeastNatural, *)
(* StaysIn).                                                               *)
(***************************************************************************)
EXTENDS LuauCtx, FiniteSetTheorems, TLAPS

\* What a frame is made of.
Stacks == Seq(Slots)
Contexts == [size : Nat, made : Nat, copied : BOOLEAN]
Shapes == [stack : Stacks, locals : Stacks, ctxs : Seq(Contexts), call : Calls \cup {Running},
           odd : BOOLEAN]

\* What a protected call puts on the stack of its frame.
Suspended(f) == IF f.call.mode = "xpcall" THEN <<Handler>> ELSE <<>>
\* Only copied contexts resize a stack; a frame whose locals are known has them,
\* and the handler of the xpcall it waits in above them.
Healthy(f) ==
    /\ \A n \in 1..Len(f.ctxs) : f.ctxs[n].size # 0 => f.ctxs[n].copied
    /\ f.call.mode = "xpcall" => f.call.errh >= 1
    /\ ~f.odd => /\ f.stack = f.locals \o Suspended(f)
                 /\ f.call.mode = "xpcall" => f.call.errh = Len(f.locals) + 1
\* All frames are healthy; the last one executes and the others wait.
Frames ==
    /\ frames \in Seq(Shapes) /\ Depth \in 1..MaxFrames
    /\ \A i \in 1..Depth : Healthy(frames[i])
    /\ Top.call = Running
    /\ \A i \in 1..(Depth - 1) : frames[i].call \in Calls
\* What was handed over last.
Handed == last \in [sent : Stacks, got : Stacks, sound : BOOLEAN] /\ ValuesDelivered
\* The inductive invariant.
IInv ==
    /\ Frames /\ Handed /\ UndefinedOnlyWhenOdd
    /\ status \in {"running", "panic", "undefined"} /\ unwinds \in Unwinds

----------------------------------------------------------------------------
(* Steps taken one after the other. *)

\* A set of naturals has a least element.
LEMMA LeastNatural ==
    ASSUME NEW T \in SUBSET Nat, T # {}
    PROVE  \E m \in T : \A k \in T : m <= k
<1> DEFINE F == {0..k : k \in T}
<1>1. F \subseteq FiniteSubsetsOf(Nat) /\ F # {}
  <2>1. \A k \in T : 0..k \in SUBSET Nat /\ IsFiniteSet(0..k)
    BY FS_Interval
  <2> QED BY <2>1 DEF FiniteSubsetsOf
<1>2. IsWellFoundedOn(StrictSubsetOrdering(Nat), FiniteSubsetsOf(Nat))
  BY FS_StrictSubsetOrderingWellFounded
<1> HIDE DEF F
<1>3. PICK x \in F : \A y \in F : ~ (<<y, x>> \in StrictSubsetOrdering(Nat))
  BY <1>1, <1>2, WFMin
<1>4. PICK m \in T : x = 0..m
  BY <1>3 DEF F
<1>5. ASSUME NEW k \in T, k < m PROVE FALSE
  <2>1. 0..k \in F /\ 0..k \subseteq Nat /\ x \subseteq Nat
    BY <1>4 DEF F
  <2>2. 0..k \subseteq x /\ m \in x /\ m \notin 0..k
    BY <1>4, <1>5
  <2>3. <<0..k, x>> \in StrictSubsetOrdering(Nat)
    BY <2>1, <2>2 DEF StrictSubsetOrdering
  <2> QED BY <1>3, <2>1, <2>3
<1> QED BY <1>5

\* g takes the steps F[1], ..., F[N] one after the other from s.
Takes(g, N, s, F) == g[0] = s /\ \A n \in 1..N : g[n] = F[n][g[n - 1]]

\* There is always such a g.
LEMMA Iterated ==
    ASSUME NEW S, NEW N \in Nat, NEW s \in S, NEW F \in [1..N -> [S -> S]]
    PROVE  \E g \in [0..N -> S] : Takes(g, N, s, F)
<1> DEFINE Steps(g, m) == \A n \in 0..m : g[n] = IF n = 0 THEN s ELSE F[n][g[n - 1]]
           T == {m \in 0..N : ~\E g \in [0..m -> S] : Steps(g, m)}
<1>1. ASSUME T # {} PROVE FALSE
  <2>1. T \in SUBSET Nat
    OBVIOUS
  <2>2. PICK m \in T : \A k \in T : m <= k
    <3> HIDE DEF T
    <3> QED BY <1>1, <2>1, LeastNatural
  <2>3. CASE m = 0
    <3>1. [n \in 0..0 |-> s] \in [0..m -> S] /\ Steps([n \in 0..0 |-> s], m)
      BY <2>3
    <3> QED BY <3>1
  <2>4. CASE m # 0
    <3>1. m \in 1..N /\ m - 1 \in 0..N /\ m - 1 \notin T
      <4>1. m \in 1..N
        BY <2>2, <2>4
      <4>2. m - 1 \in 0..N /\ ~(m <= m - 1)
        BY <4>1
      <4> HIDE DEF T
      <4> QED BY <2>2, <4>1, <4>2
    <3>2. PICK g \in [0..(m - 1) -> S] : Steps(g, m - 1)
      BY <3>1
    <3> DEFINE h == [n \in 0..m |-> IF n = m THEN F[m][g[m - 1]] ELSE g[n]]
    <3>3. h \in [0..m -> S]
      BY <3>1
    <3>4. Steps(h, m)
      <4> SUFFICES ASSUME NEW n \in 0..m PROVE h[n] = IF n = 0 THEN s ELSE F[n][h[n - 1]]
        OBVIOUS
      <4>1. CASE n = m
        BY <3>1, <4>1
      <4>2. CASE n # m
        <5>1. n \in 0..(m - 1) /\ (n # 0 => n - 1 \in 0..(m - 1))
          BY <3>1, <4>2
        <5>2. h[n] = g[n] /\ (n # 0 => h[n - 1] = g[n - 1])
          BY <3>1, <4>2, <5>1
        <5> QED BY <3>2, <5>1, <5>2
      <4> QED BY <4>1, <4>2
    <3> QED BY <3>3, <3>4
  <2> QED BY <2>3, <2>4
<1>2. N \notin T
  BY <1>1
<1>3. PICK g \in [0..N -> S] : Steps(g, N)
  BY <1>2
<1>4. Takes(g, N, s, F)
  BY <1>3 DEF Takes
<1> QED BY <1>4

\* However the steps are taken, they stay in S.
LEMMA StaysIn ==
    ASSUME NEW S, NEW N \in Nat, NEW g, g[0] \in S, \A n \in 1..N : g[n - 1] \in S => g[n] \in S
    PROVE  \A n \in 0..N : g[n] \in S
<1> DEFINE T == {m \in 0..N : g[m] \notin S}
<1> SUFFICES ASSUME T # {} PROVE FALSE
  OBVIOUS
<1>1. T \in SUBSET Nat
  OBVIOUS
<1>2. PICK m \in T : \A k \in T : m <= k
  <2> HIDE DEF T
  <2> QED BY <1>1, LeastNatural
<1>3. m \in 1..N /\ m - 1 \in 0..N /\ m - 1 \notin T
  BY <1>2
<1> QED BY <1>3

\* What every context of a frame keeps of a stack, all of them keep.
LEMMA ResizeAllStays ==
    ASSUME NEW S, NEW stack \in S, NEW C, NEW ctxs \in Seq(C),
           \A n \in 1..Len(ctxs), left \in S : Resize(left, ctxs[n]) \in S
    PROVE  ResizeAll(stack, ctxs) \in S
<1> DEFINE N == Len(ctxs)
           Is(g) == g = [n \in 0..N |-> IF n = 0 THEN stack
                                       ELSE Resize(g[n - 1], ctxs[N - n + 1])]
           left == CHOOSE g : Is(g)
           F == [n \in 1..N |-> [x \in S |-> Resize(x, ctxs[N - n + 1])]]
<1>1. N \in Nat
  OBVIOUS
<1>2. \A n \in 1..N : N - n + 1 \in 1..N
  BY <1>1
<1>3. F \in [1..N -> [S -> S]]
  BY <1>2
<1>10. PICK g \in [0..N -> S] : Takes(g, N, stack, F)
  <2> HIDE DEF F, N
  <2> QED BY <1>1, <1>3, Iterated
<1>4. g[0] = stack /\ \A n \in 1..N : g[n] = F[n][g[n - 1]]
  <2> HIDE DEF F, N
  <2> QED BY <1>10 DEF Takes
<1>5. Is(g)
  <2>1. ASSUME NEW n \in 0..N
        PROVE  g[n] = IF n = 0 THEN stack ELSE Resize(g[n - 1], ctxs[N - n + 1])
    <3>1. CASE n = 0
      BY <1>4, <3>1
    <3>2. CASE n # 0
      <4>1. n \in 1..N /\ n - 1 \in 0..N
        BY <1>1, <3>2
      <4>2. F[n][g[n - 1]] = Resize(g[n - 1], ctxs[N - n + 1])
        BY <1>4, <4>1
      <4>3. g[n] = F[n][g[n - 1]]
        <5> HIDE DEF F
        <5> QED BY <1>4, <4>1
      <4> QED BY <3>2, <4>2, <4>3
    <3> QED BY <3>1, <3>2
  <2>2. g = [n \in 0..N |-> g[n]]
    OBVIOUS
  <2> HIDE DEF F, N
  <2> QED BY <2>1, <2>2
<1>6. Is(left)
  <2> HIDE DEF Is
  <2> QED BY <1>5
<1>7. left[0] = stack /\ \A n \in 1..N : left[n] = Resize(left[n - 1], ctxs[N - n + 1])
  <2> HIDE DEF left
  <2>1. left = [n \in 0..N |-> IF n = 0 THEN stack ELSE Resize(left[n - 1], ctxs[N - n + 1])]
    BY <1>6
  <2>2. 0 \in 0..N /\ \A n \in 1..N : n \in 0..N /\ n # 0
    BY <1>1
  <2> HIDE DEF N
  <2>3. left[0] = stack
    BY <2>1, <2>2
  <2>4. ASSUME NEW n \in 1..N PROVE left[n] = Resize(left[n - 1], ctxs[N - n + 1])
    BY <2>1, <2>2
  <2> QED BY <2>3, <2>4
<1>8. \A n \in 0..N : left[n] \in S
  <2> HIDE DEF left, F, N
  <2>1. ASSUME NEW n \in 1..N, left[n - 1] \in S PROVE left[n] \in S
    <3>1. PICK k \in 1..Len(ctxs) : k = N - n + 1
      BY <1>2 DEF N
    <3>2. left[n] = Resize(left[n - 1], ctxs[k])
      BY <1>7, <3>1
    <3> QED BY <2>1, <3>2
  <2> QED BY <1>1, <1>7, <2>1, StaysIn
<1>9. ResizeAll(stack, ctxs) = left[N]
  BY DEF ResizeAll
<1> QED BY <1>1, <1>8, <1>9

\* What every context of the frames i..Depth keeps of a stack, all of them keep.
LEMMA DestroyedStays ==
    ASSUME NEW S, NEW stack \in S, NEW C, Depth \in Nat, NEW i \in 1..(Depth + 1),
           \A k \in i..Depth : frames[k].ctxs \in Seq(C),
           \A k \in i..Depth : \A n \in 1..Len(frames[k].ctxs), left \in S :
               Resize(left, frames[k].ctxs[n]) \in S
    PROVE  Destroyed(i, stack) \in S
<1> DEFINE N == Depth - i + 1
           Is(g) == g = [n \in 0..N |-> IF n = 0 THEN stack
                                       ELSE ResizeAll(g[n - 1], frames[Depth - n + 1].ctxs)]
           left == CHOOSE g : Is(g)
           F == [n \in 1..N |-> [x \in S |-> ResizeAll(x, frames[Depth - n + 1].ctxs)]]
<1>1. N \in Nat
  OBVIOUS
<1>2. \A n \in 1..N : Depth - n + 1 \in i..Depth
  BY <1>1
<1>11. ASSUME NEW k \in i..Depth, NEW x \in S PROVE ResizeAll(x, frames[k].ctxs) \in S
  BY ResizeAllStays
<1>3. F \in [1..N -> [S -> S]]
  BY <1>2, <1>11
<1>10. PICK g \in [0..N -> S] : Takes(g, N, stack, F)
  <2> HIDE DEF F, N
  <2> QED BY <1>1, <1>3, Iterated
<1>4. g[0] = stack /\ \A n \in 1..N : g[n] = F[n][g[n - 1]]
  <2> HIDE DEF F, N
  <2> QED BY <1>10 DEF Takes
<1>5. Is(g)
  <2>1. ASSUME NEW n \in 0..N
        PROVE  g[n] = IF n = 0 THEN stack ELSE ResizeAll(g[n - 1], frames[Depth - n + 1].ctxs)
    <3>1. CASE n = 0
      BY <1>4, <3>1
    <3>2. CASE n # 0
      <4>1. n \in 1..N /\ n - 1 \in 0..N
        BY <1>1, <3>2
      <4>2. F[n][g[n - 1]] = ResizeAll(g[n - 1], frames[Depth - n + 1].ctxs)
        BY <1>4, <4>1
      <4>3. g[n] = F[n][g[n - 1]]
        <5> HIDE DEF F
        <5> QED BY <1>4, <4>1
      <4> QED BY <3>2, <4>2, <4>3
    <3> QED BY <3>1, <3>2
  <2>2. g = [n \in 0..N |-> g[n]]
    OBVIOUS
  <2> HIDE DEF F, N
  <2> QED BY <2>1, <2>2
<1>6. Is(left)
  <2> HIDE DEF Is
  <2> QED BY <1>5
<1>7. left[0] = stack
      /\ \A n \in 1..N : left[n] = ResizeAll(left[n - 1], frames[Depth - n + 1].ctxs)
  <2> HIDE DEF left
  <2>1. left = [n \in 0..N |-> IF n = 0 THEN stack
                               ELSE ResizeAll(left[n - 1], frames[Depth - n + 1].ctxs)]
    BY <1>6
  <2>2. 0 \in 0..N /\ \A n \in 1..N : n \in 0..N /\ n # 0
    BY <1>1
  <2> HIDE DEF N
  <2>3. left[0] = stack
    BY <2>1, <2>2
  <2>4. ASSUME NEW n \in 1..N
        PROVE  left[n] = ResizeAll(left[n - 1], frames[Depth - n + 1].ctxs)
    BY <2>1, <2>2
  <2> QED BY <2>3, <2>4
<1>8. \A n \in 0..N : left[n] \in S
  <2> HIDE DEF left, F, N
  <2>1. ASSUME NEW n \in 1..N, left[n - 1] \in S PROVE left[n] \in S
    <3>1. PICK k \in i..Depth : k = Depth - n + 1
      BY <1>2
    <3>2. left[n] = ResizeAll(left[n - 1], frames[k].ctxs)
      BY <1>7, <3>1
    <3> QED BY <1>11, <2>1, <3>2
  <2> QED BY <1>1, <1>7, <2>1, StaysIn
<1>9. Destroyed(i, stack) = left[N]
  BY DEF Destroyed
<1> QED BY <1>1, <1>8, <1>9

----------------------------------------------------------------------------
(* Stacks. *)

\* The values the operations make.
LEMMA SlotsMade ==
    /\ Nil \in Slots /\ Handler \in Slots /\ Message \in Slots /\ Thread \in Slots
    /\ \A n \in 1..(MaxLocals + MaxResults) : \A what \in {"arg", "local", "result", "error"} :
          <<what, n>> \in Slots
BY DEF Slots

\* A list of arguments or of results.
LEMMA SomeShape ==
    ASSUME NEW what \in {"arg", "local", "result", "error"}, NEW n \in 0..(MaxLocals + MaxResults)
    PROVE  Some(what, n) \in Stacks /\ Len(Some(what, n)) = n
<1>3. MaxLocals + MaxResults \in Nat
  BY BoundsAssumption
<1>4. \A i \in 1..n : i \in 1..(MaxLocals + MaxResults)
  BY <1>3
<1>1. \A i \in 1..n : <<what, i>> \in Slots
  BY <1>4, SlotsMade
<1>2. n \in Nat /\ Some(what, n) \in [1..n -> Slots]
  BY <1>1, BoundsAssumption DEF Some
<1> QED BY <1>2 DEF Stacks

\* lua_settop (context.hpp 32-34) leaves exactly n values.
LEMMA SetTopShape ==
    ASSUME NEW stack \in Stacks, NEW n \in Nat
    PROVE  SetTop(stack, n) \in Stacks /\ Len(SetTop(stack, n)) = n
<1>1. Nil \in Slots
  BY SlotsMade
<1>2. SetTop(stack, n) \in [1..n -> Slots]
  BY <1>1 DEF SetTop, Stacks
<1> QED BY <1>2 DEF Stacks

\* Setting a stack to the height it has does nothing.
LEMMA SetTopSame ==
    ASSUME NEW stack \in Stacks
    PROVE  SetTop(stack, Len(stack)) = stack
BY DEF SetTop, Stacks

\* ~LuauCtx() (context.hpp 63-66) never empties a stack, and with size 0 does
\* nothing to it.
LEMMA ResizeShape ==
    ASSUME NEW stack \in Stacks, NEW ctx \in Contexts
    PROVE  /\ Resize(stack, ctx) \in Stacks
           /\ stack # <<>> => Resize(stack, ctx) # <<>>
           /\ ctx.size = 0 => Resize(stack, ctx) = stack
<1>1. ctx.size \in Nat
  BY DEF Contexts
<1>2. CASE ctx.size = 0
  BY <1>2 DEF Resize
<1>3. CASE ctx.size # 0
  <2>1. SetTop(stack, ctx.size) \in Stacks /\ Len(SetTop(stack, ctx.size)) = ctx.size
    BY <1>1, SetTopShape
  <2> QED BY <1>1, <1>3, <2>1 DEF Resize, Stacks
<1> QED BY <1>2, <1>3

\* The values on top of others.
LEMMA TopOf ==
    ASSUME NEW a \in Stacks, NEW b \in Stacks
    PROVE  TopN(a \o b, Len(b)) = b /\ Below(a \o b, Len(b)) = a
<1>1. Len(a) \in Nat /\ Len(b) \in Nat /\ Len(a \o b) = Len(a) + Len(b) /\ a \o b \in Stacks
  BY DEF Stacks
<1>2. TopN(a \o b, Len(b)) = SubSeq(a \o b, Len(a) + 1, Len(a) + Len(b))
  BY <1>1 DEF TopN
<1>3. Below(a \o b, Len(b)) = SubSeq(a \o b, 1, Len(a))
  BY <1>1 DEF Below
<1>4. SubSeq(a \o b, Len(a) + 1, Len(a) + Len(b)) = b
  BY <1>1 DEF Stacks
<1>5. SubSeq(a \o b, 1, Len(a)) = a
  BY <1>1 DEF Stacks
<1> QED BY <1>2, <1>3, <1>4, <1>5

\* Both parts of a stack that is high enough are stacks.
LEMMA TopShape ==
    ASSUME NEW stack \in Stacks, NEW n \in Nat, n <= Len(stack)
    PROVE  /\ TopN(stack, n) \in Stacks /\ Len(TopN(stack, n)) = n
           /\ Below(stack, n) \in Stacks /\ Len(Below(stack, n)) = Len(stack) - n
BY DEF TopN, Below, Stacks

\* lua_remove takes one value out.
LEMMA RemoveAtShape ==
    ASSUME NEW stack \in Stacks, NEW i \in 1..Len(stack)
    PROVE  RemoveAt(stack, i) \in Stacks /\ Len(RemoveAt(stack, i)) = Len(stack) - 1
<1>1. Len(stack) \in Nat /\ stack \in Seq(Slots)
  BY DEF Stacks
<1>2. PICK a, b : a = SubSeq(stack, 1, i - 1) /\ b = SubSeq(stack, i + 1, Len(stack))
  OBVIOUS
<1>3. a \in Seq(Slots) /\ Len(a) = i - 1
  BY <1>1, <1>2
<1>4. b \in Seq(Slots) /\ Len(b) = Len(stack) - i
  BY <1>1, <1>2
<1>5. RemoveAt(stack, i) = a \o b
  BY <1>2 DEF RemoveAt
<1>6. a \o b \in Seq(Slots) /\ Len(a \o b) = Len(a) + Len(b)
  BY <1>3, <1>4
<1>7. Len(a) + Len(b) = Len(stack) - 1
  BY <1>1, <1>3, <1>4
<1> QED BY <1>5, <1>6, <1>7 DEF Stacks

\* The handler is taken out from under the results.
LEMMA HandlerRemoved ==
    ASSUME NEW a \in Stacks, NEW b \in Stacks
    PROVE  RemoveAt((a \o <<Handler>>) \o b, Len(a) + 1) = a \o b
<1> DEFINE s == (a \o <<Handler>>) \o b
<1>1. Handler \in Slots
  BY SlotsMade
<1>2. s \in Stacks /\ Len(s) = Len(a) + 1 + Len(b) /\ Len(a) \in Nat /\ Len(b) \in Nat
  BY <1>1 DEF Stacks
<1>3. \A j \in 1..Len(a) : s[j] = a[j]
  BY <1>1 DEF Stacks
<1>4. \A j \in 1..Len(b) : s[Len(a) + 1 + j] = b[j]
  BY <1>1 DEF Stacks
<1> HIDE DEF s
<1>5. SubSeq(s, 1, Len(a)) = a
  BY <1>2, <1>3 DEF Stacks
<1>6. SubSeq(s, Len(a) + 2, Len(s)) = b
  BY <1>2, <1>4 DEF Stacks
<1>7. RemoveAt(s, Len(a) + 1) = SubSeq(s, 1, Len(a)) \o SubSeq(s, Len(a) + 2, Len(s))
  <2>1. PICK i : i = Len(a) + 1
    OBVIOUS
  <2>2. i - 1 = Len(a) /\ i + 1 = Len(a) + 2
    BY <1>2, <2>1
  <2>3. RemoveAt(s, i) = SubSeq(s, 1, i - 1) \o SubSeq(s, i + 1, Len(s))
    BY DEF RemoveAt
  <2> QED BY <2>1, <2>2, <2>3
<1> QED BY <1>5, <1>6, <1>7 DEF s

\* lua_call leaves as many results as its caller asked for.
LEMMA AdjustShape ==
    ASSUME NEW results \in Stacks, NEW nres \in {Multi} \cup 0..MaxResults
    PROVE  Adjust(results, nres) \in Stacks /\ (nres # Multi => Len(Adjust(results, nres)) = nres)
<1>1. nres = Multi \/ nres \in Nat
  BY BoundsAssumption
<1> QED BY <1>1, SetTopShape DEF Adjust

\* What the destructors of the frames i..Depth leave of a stack, and that they
\* leave it as it was unless a context was copied.
LEMMA DestroyedShape ==
    ASSUME Frames, NEW i \in 1..(Depth + 1), NEW stack \in Stacks
    PROVE  /\ Destroyed(i, stack) \in Stacks
           /\ stack # <<>> => Destroyed(i, stack) # <<>>
           /\ ~Copied(i) => Destroyed(i, stack) = stack
<1>1. Depth \in Nat /\ \A k \in i..Depth : frames[k] \in Shapes /\ Healthy(frames[k])
  BY DEF Frames, Depth
<1>2. ASSUME NEW k \in i..Depth
      PROVE  frames[k].ctxs \in Seq(Contexts)
             /\ \A n \in 1..Len(frames[k].ctxs) : frames[k].ctxs[n] \in Contexts
  <2>1. frames[k].ctxs \in Seq(Contexts)
    BY <1>1 DEF Shapes
  <2> QED BY <2>1
<1>3. Destroyed(i, stack) \in Stacks
  <2>1. \A k \in i..Depth : \A n \in 1..Len(frames[k].ctxs), left \in Stacks :
          Resize(left, frames[k].ctxs[n]) \in Stacks
    BY <1>2, ResizeShape
  <2> QED BY <1>1, <1>2, <2>1, DestroyedStays
<1>4. ASSUME stack # <<>> PROVE Destroyed(i, stack) # <<>>
  <2> DEFINE S == Stacks \ {<<>>}
  <2>1. \A k \in i..Depth : \A n \in 1..Len(frames[k].ctxs), left \in S :
          Resize(left, frames[k].ctxs[n]) \in S
    BY <1>2, ResizeShape
  <2>2. stack \in S
    BY <1>4
  <2>3. Destroyed(i, stack) \in S
    <3> HIDE DEF S
    <3> QED BY <1>1, <1>2, <2>1, <2>2, DestroyedStays
  <2> QED BY <2>3
<1>5. ASSUME ~Copied(i) PROVE Destroyed(i, stack) = stack
  <2> DEFINE S == {stack}
  <2>1. ASSUME NEW k \in i..Depth, NEW n \in 1..Len(frames[k].ctxs)
        PROVE  frames[k].ctxs[n].size = 0
    <3>1. DOMAIN frames[k].ctxs = 1..Len(frames[k].ctxs)
      BY <1>2
    <3>2. ~frames[k].ctxs[n].copied
      BY <1>5, <2>1, <3>1 DEF Copied
    <3> QED BY <1>1, <2>1, <3>2 DEF Healthy
  <2>2. \A k \in i..Depth : \A n \in 1..Len(frames[k].ctxs), left \in S :
          Resize(left, frames[k].ctxs[n]) \in S
    BY <1>2, <2>1, ResizeShape
  <2>3. stack \in S
    OBVIOUS
  <2>4. Destroyed(i, stack) \in S
    <3> HIDE DEF S
    <3> QED BY <1>1, <1>2, <2>2, <2>3, DestroyedStays
  <2> QED BY <2>4
<1> QED BY <1>3, <1>4, <1>5

----------------------------------------------------------------------------
(* The steps of a program. *)

\* What a frame waits for.
LEMMA CallTypes ==
    /\ Running \in Calls \cup {Running} /\ Running.mode = "none" /\ Running.nres = 0
    /\ \A c \in Calls : c.mode \in Modes /\ c.nres \in {Multi} \cup 0..MaxResults /\ c.errh \in 0..(MaxLocals + 1)
BY DEF Running, Calls

\* A function that starts is healthy.
LEMMA FrameShape ==
    ASSUME NEW args \in Stacks
    PROVE  Frame(args) \in Shapes /\ Healthy(Frame(args)) /\ Frame(args).call = Running
<1>1. <<Ctx(0, Len(args), FALSE)>> \in Seq(Contexts)
  BY DEF Ctx, Contexts, Stacks
<1>2. Frame(args) \in Shapes
  BY <1>1, CallTypes DEF Frame, Shapes
<1>3. Frame(args).call = Running /\ Frame(args).stack = args /\ Frame(args).locals = args
      /\ Frame(args).ctxs = <<Ctx(0, Len(args), FALSE)>> /\ Ctx(0, Len(args), FALSE).size = 0
  BY DEF Frame, Ctx
<1>4. args \o <<>> = args
  BY DEF Stacks
<1>5. Healthy(Frame(args))
  <2>1. PICK f, c : f = Frame(args) /\ c = Ctx(0, Len(args), FALSE)
    OBVIOUS
  <2>2. f.stack = args /\ f.locals = args /\ f.ctxs = <<c>> /\ c.size = 0 /\ f.call.mode = "none"
    BY <1>3, <2>1, CallTypes
  <2>3. \A n \in 1..Len(f.ctxs) : f.ctxs[n].size = 0
    BY <2>2
  <2>4. Suspended(f) = <<>>
    BY <2>2 DEF Suspended
  <2>5. Healthy(f)
    BY <1>4, <2>2, <2>3, <2>4 DEF Healthy
  <2> QED BY <2>1, <2>5
<1> QED BY <1>2, <1>3, <1>5

\* No C++ function but the first one runs.
LEMMA InitHolds == Init => IInv
<1> SUFFICES ASSUME Init PROVE IInv
  OBVIOUS
<1>1. <<>> \in Stacks
  BY DEF Stacks
<1>2. frames = <<Frame(<<>>)>> /\ last = Nothing /\ status = "running" /\ unwinds \in Unwinds
  BY DEF Init
<1>3. Frame(<<>>) \in Shapes /\ Healthy(Frame(<<>>)) /\ Frame(<<>>).call = Running
  BY <1>1, FrameShape
<1>4. Frames
  <2>1. PICK f : f = Frame(<<>>)
    OBVIOUS
  <2>2. frames = <<f>> /\ f \in Shapes /\ Healthy(f) /\ f.call = Running
    BY <1>2, <1>3, <2>1
  <2>3. frames \in Seq(Shapes) /\ Depth = 1 /\ Top = f /\ frames[1] = f
    BY <2>2 DEF Depth, Top
  <2> QED BY <2>2, <2>3, BoundsAssumption DEF Frames
<1>5. Handed
  BY <1>1, <1>2 DEF Handed, Nothing, ValuesDelivered
<1> QED BY <1>2, <1>4, <1>5 DEF IInv, UndefinedOnlyWhenOdd

\* The frame on top is replaced by one that goes on.
LEMMA UpdateFrames ==
    ASSUME Frames, NEW f \in Shapes, Healthy(f), f.call = Running, Update(f)
    PROVE  Frames'
<1>1. frames' = [frames EXCEPT ![Depth] = f] /\ frames \in Seq(Shapes) /\ Depth \in 1..MaxFrames
      /\ Depth \in Nat /\ Depth = Len(frames)
  BY BoundsAssumption DEF Update, Frames, Depth
<1>2. frames' \in Seq(Shapes) /\ Len(frames') = Depth
  BY <1>1
<1>3. frames'[Depth] = f /\ \A i \in 1..(Depth - 1) : frames'[i] = frames[i]
  BY <1>1
<1>4. ASSUME NEW i \in 1..Depth PROVE Healthy(frames'[i])
  BY <1>1, <1>3 DEF Frames
<1> QED BY <1>1, <1>2, <1>3, <1>4 DEF Frames, Depth, Top

\* Nothing is handed over, and the program goes on.
LEMMA QuietHolds ==
    ASSUME IInv, status = "running", Quiet, Frames', UNCHANGED unwinds
    PROVE  IInv'
<1>1. last' = Nothing /\ status' = "running"
  BY DEF Quiet
<1>2. <<>> \in Stacks
  BY DEF Stacks
<1>3. Handed'
  BY <1>1, <1>2 DEF Handed, Nothing, ValuesDelivered
<1> QED BY <1>1, <1>3 DEF IInv, UndefinedOnlyWhenOdd

\* The program stops: by a panic, or where an oddity accounts for it.
LEMMA StopsHold ==
    ASSUME IInv, UNCHANGED <<frames, unwinds>>, last' = Nothing,
           status' = "panic" \/ (status' = "undefined" /\ \E i \in DOMAIN frames :
            \/ frames[i].odd \/ Copied(i)
            \/ (frames[i].call.mode \in Protected /\ frames[i].call.nres # 1)
            \/ frames[i].call.nres = Multi)
    PROVE  IInv'
<1>1. <<>> \in Stacks
  BY DEF Stacks
<1>2. Handed'
  BY <1>1 DEF Handed, Nothing, ValuesDelivered
<1>3. Frames'
  BY DEF IInv, Frames, Depth, Top
<1>4. UndefinedOnlyWhenOdd'
  BY DEF UndefinedOnlyWhenOdd, Copied, Depth
<1> QED BY <1>2, <1>3, <1>4 DEF IInv

\* The executing frame goes on with g.
LEMMA GoesOn ==
    ASSUME IInv, status = "running", UNCHANGED unwinds, Quiet,
           NEW g \in Shapes, Update(g), g.call = Running, ~g.odd => g.stack = g.locals,
           \A n \in 1..Len(g.ctxs) : g.ctxs[n].size # 0 => g.ctxs[n].copied
    PROVE  IInv'
<1>1. Suspended(g) = <<>> /\ g.call.mode = "none" /\ g.locals \in Stacks
  BY CallTypes DEF Suspended, Shapes
<1>2. g.locals \o <<>> = g.locals
  BY <1>1 DEF Stacks
<1>3. Healthy(g)
  BY <1>1, <1>2 DEF Healthy
<1> QED BY <1>3, UpdateFrames, QuietHolds DEF IInv

\* The operations of one frame.
LEMMA LocalStep ==
    ASSUME IInv, status = "running", UNCHANGED unwinds,
           MakeLocal \/ AsThread \/ NewCtx \/ CopyCtx \/ DropCtx
    PROVE  IInv'
<1>1. Frames /\ Top \in Shapes /\ Healthy(Top) /\ Top.call = Running
  BY DEF IInv, Frames, Top, Depth
<1>2. PICK f \in Shapes : f = Top
  BY <1>1
<1>3. /\ f.stack \in Stacks /\ f.locals \in Stacks /\ f.ctxs \in Seq(Contexts) /\ f.odd \in BOOLEAN
      /\ f.call = Running /\ Len(f.stack) \in Nat /\ Len(f.ctxs) \in Nat
  BY <1>1, <1>2 DEF Shapes, Stacks
<1>4. Suspended(f) = <<>> /\ f.call.mode = "none"
  BY <1>3, CallTypes DEF Suspended
<1>5. ~f.odd => f.stack = f.locals
  <2>1. f.locals \o <<>> = f.locals
    BY <1>3 DEF Stacks
  <2> QED BY <1>1, <1>2, <1>4, <2>1 DEF Healthy
<1>6. \A n \in 1..Len(f.ctxs) : f.ctxs[n] \in Contexts /\ (f.ctxs[n].size # 0 => f.ctxs[n].copied)
  BY <1>1, <1>2, <1>3 DEF Healthy
<1>7. CASE MakeLocal
  <2>1. PICK v : v = <<"local", Len(f.stack) + 1>>
    OBVIOUS
  <2>2. v \in Slots
    <3>1. Len(f.stack) + 1 \in 1..(MaxLocals + MaxResults)
      BY <1>2, <1>3, <1>7, BoundsAssumption DEF MakeLocal, Fits
    <3> QED BY <2>1, <3>1, SlotsMade
  <2> DEFINE g == [f EXCEPT !.stack = Append(f.stack, v),
                            !.locals = IF f.odd THEN f.locals ELSE Append(f.locals, v)]
  <2>3. Update(g) /\ Quiet
    BY <1>2, <1>7, <2>1 DEF MakeLocal
  <2>4. Append(f.stack, v) \in Stacks /\ Append(f.locals, v) \in Stacks
    BY <1>3, <2>2 DEF Stacks
  <2>5. g \in Shapes
    BY <1>3, <2>4 DEF Shapes
  <2>6. g.call = Running /\ g.ctxs = f.ctxs /\ (~g.odd => g.stack = g.locals)
    BY <1>3, <1>5 DEF Shapes
  <2> HIDE DEF g
  <2> QED BY <1>6, <2>3, <2>5, <2>6, GoesOn
<1>8. CASE AsThread
  <2> DEFINE g == [[f EXCEPT !.stack = Append(f.stack, Thread)] EXCEPT !.odd = TRUE, !.locals = <<>>]
  <2>1. Update(g) /\ Quiet
    BY <1>2, <1>8 DEF AsThread, Odd
  <2>2. Append(f.stack, Thread) \in Stacks /\ <<>> \in Stacks
    BY <1>3, SlotsMade DEF Stacks
  <2>3. g \in Shapes
    BY <1>3, <2>2 DEF Shapes
  <2>4. g.call = Running /\ g.ctxs = f.ctxs /\ g.odd
    BY <1>3 DEF Shapes
  <2> HIDE DEF g
  <2> QED BY <1>6, <2>1, <2>3, <2>4, GoesOn
<1>9. CASE NewCtx \/ CopyCtx
  <2>1. PICK c \in Contexts : /\ Update([f EXCEPT !.ctxs = Append(f.ctxs, c)])
                              /\ c.size # 0 => c.copied
    <3>1. /\ Ctx(0, Len(f.stack), FALSE) \in Contexts /\ Ctx(0, Len(f.stack), FALSE).size = 0
          /\ Ctx(Len(f.stack), Len(f.stack), TRUE) \in Contexts
          /\ Ctx(Len(f.stack), Len(f.stack), TRUE).copied
      BY <1>3 DEF Ctx, Contexts
    <3> QED BY <1>2, <1>9, <3>1 DEF NewCtx, CopyCtx
  <2> DEFINE g == [f EXCEPT !.ctxs = Append(f.ctxs, c)]
  <2>2. Append(f.ctxs, c) \in Seq(Contexts) /\ Len(Append(f.ctxs, c)) = Len(f.ctxs) + 1
        /\ (\A n \in 1..Len(f.ctxs) : Append(f.ctxs, c)[n] = f.ctxs[n])
        /\ Append(f.ctxs, c)[Len(f.ctxs) + 1] = c
    BY <1>3
  <2>3. g \in Shapes
    BY <2>2 DEF Shapes
  <2>4. g.call = Running /\ g.ctxs = Append(f.ctxs, c) /\ (~g.odd => g.stack = g.locals)
    BY <1>3, <1>5 DEF Shapes
  <2> HIDE DEF g
  <2>5. \A n \in 1..Len(g.ctxs) : g.ctxs[n].size # 0 => g.ctxs[n].copied
    BY <1>3, <1>6, <2>1, <2>2, <2>4
  <2>6. Quiet /\ Update(g)
    BY <1>9, <2>1 DEF NewCtx, CopyCtx, g
  <2> QED BY <2>3, <2>4, <2>5, <2>6, GoesOn
<1>10. CASE DropCtx
  <2>1. PICK c \in Contexts : c = Last(f.ctxs)
    <3>1. Len(f.ctxs) \in 1..Len(f.ctxs)
      BY <1>2, <1>3, <1>10 DEF DropCtx
    <3> QED BY <1>6, <3>1 DEF Last
  <2>2. Resize(f.stack, c) \in Stacks /\ Resize(f.locals, c) \in Stacks
    BY <1>3, ResizeShape
  <2>3. Front(f.ctxs) \in Seq(Contexts) /\ Len(Front(f.ctxs)) = Len(f.ctxs) - 1
        /\ \A n \in 1..(Len(f.ctxs) - 1) : Front(f.ctxs)[n] = f.ctxs[n]
    BY <1>2, <1>3, <1>10 DEF DropCtx, Front
  <2> DEFINE g == [f EXCEPT !.ctxs = Front(f.ctxs), !.stack = Resize(f.stack, c),
                            !.locals = IF f.odd THEN f.locals ELSE Resize(f.locals, c)]
  <2>4. Update(g) /\ Quiet
    BY <1>2, <1>10, <2>1 DEF DropCtx
  <2>5. g \in Shapes
    BY <1>3, <2>2, <2>3 DEF Shapes
  <2>6. g.call = Running /\ g.ctxs = Front(f.ctxs) /\ (~g.odd => g.stack = g.locals)
    BY <1>3, <1>5 DEF Shapes
  <2> HIDE DEF g
  <2>7. \A n \in 1..Len(g.ctxs) : g.ctxs[n].size # 0 => g.ctxs[n].copied
    BY <1>3, <1>6, <2>3, <2>6
  <2> QED BY <2>4, <2>5, <2>6, <2>7, GoesOn
<1> QED BY <1>7, <1>8, <1>9, <1>10

\* Nothing is there to take off a stack that is lower, or above a frame that is
\* as it was left, than what the callee left.
LEMMA CompleteHolds ==
    ASSUME IInv, status = "running", UNCHANGED unwinds, NEW i \in 1..(Depth - 1),
           NEW values \in Stacks, NEW sent \in Stacks, NEW ok \in BOOLEAN, NEW sound \in BOOLEAN,
           sound => values = sent,
           ok /\ frames[i].call.nres # Multi => Len(values) = frames[i].call.nres,
           ~ok => Len(values) = 1 /\ frames[i].call.mode \in Protected,
           Complete(i, values, sent, ok, sound)
    PROVE  IInv'
<1>1. /\ frames \in Seq(Shapes) /\ Depth \in 1..MaxFrames /\ Depth = Len(frames) /\ Depth \in Nat
      /\ \A j \in 1..Depth : Healthy(frames[j]) /\ frames[j] \in Shapes
      /\ \A j \in 1..(Depth - 1) : frames[j].call \in Calls
      /\ DOMAIN frames = 1..Depth
  BY BoundsAssumption DEF IInv, Frames, Depth
<1>2. PICK f \in Shapes : f = frames[i] /\ Healthy(f) /\ f.call \in Calls
  BY <1>1
<1>3. /\ f.stack \in Stacks /\ f.locals \in Stacks /\ f.ctxs \in Seq(Contexts) /\ f.odd \in BOOLEAN
      /\ f.call.mode \in Modes /\ f.call.nres \in {Multi} \cup 0..MaxResults
      /\ f.call.errh \in 0..(MaxLocals + 1)
  BY <1>2, CallTypes DEF Shapes
<1>4. PICK above : above = f.stack \o values
  OBVIOUS
<1>5. above \in Stacks /\ Len(above) = Len(f.stack) + Len(values) /\ Len(f.stack) \in Nat
      /\ Len(values) \in Nat
  BY <1>3, <1>4 DEF Stacks
<1>6. PICK stack : stack = IF f.call.mode = "xpcall" THEN RemoveAt(above, f.call.errh) ELSE above
  OBVIOUS
<1>7. PICK n \in IF f.call.nres = Multi THEN 0..(MaxLocals + MaxResults + 1) ELSE {f.call.nres} :
        IF \/ n > Len(stack) \/ (~ok /\ n = 0)
           \/ f.call.mode = "xpcall" /\ f.call.errh > Len(above)
        THEN Undefined
        ELSE /\ frames' = Append(SubSeq(frames, 1, i - 1), Take(f, stack, n, ok))
             /\ last' = [sent |-> sent,
                         got |-> IF ok THEN TopN(stack, n) ELSE <<TopN(stack, n)[1]>>,
                         sound |-> sound /\ ~Take(f, stack, n, ok).odd]
             /\ UNCHANGED status
  <2>1. \E m \in IF f.call.nres = Multi THEN 0..(MaxLocals + MaxResults + 1) ELSE {f.call.nres} :
          IF \/ m > Len(stack) \/ (~ok /\ m = 0)
             \/ f.call.mode = "xpcall" /\ f.call.errh > Len(above)
          THEN Undefined
          ELSE /\ frames' = Append(SubSeq(frames, 1, i - 1), Take(f, stack, m, ok))
               /\ last' = [sent |-> sent,
                           got |-> IF ok THEN TopN(stack, m) ELSE <<TopN(stack, m)[1]>>,
                           sound |-> sound /\ ~Take(f, stack, m, ok).odd]
               /\ UNCHANGED status
    <3> DEFINE on   == frames[i].stack \o values
               left == IF frames[i].call.mode = "xpcall" THEN RemoveAt(on, frames[i].call.errh) ELSE on
    <3>1. on = above
      BY <1>2, <1>4
    <3>2. left = stack
      <4> HIDE DEF on
      <4> QED BY <1>2, <1>6, <3>1
    <3>3. \E m \in IF frames[i].call.nres = Multi THEN 0..(MaxLocals + MaxResults + 1)
                   ELSE {frames[i].call.nres} :
            IF \/ m > Len(left) \/ (~ok /\ m = 0)
               \/ frames[i].call.mode = "xpcall" /\ frames[i].call.errh > Len(on)
            THEN Undefined
            ELSE /\ frames' = Append(SubSeq(frames, 1, i - 1), Take(frames[i], left, m, ok))
                 /\ last' = [sent |-> sent,
                             got |-> IF ok THEN TopN(left, m) ELSE <<TopN(left, m)[1]>>,
                             sound |-> sound /\ ~Take(frames[i], left, m, ok).odd]
                 /\ UNCHANGED status
      BY Zenon DEF Complete
    <3> HIDE DEF on, left
    <3> QED BY <1>2, <3>1, <3>2, <3>3
  <2> QED BY <2>1
<1>8. n \in Nat /\ (f.call.nres # Multi => n = f.call.nres)
  BY <1>3, <1>7, BoundsAssumption
<1>9. ~f.odd => /\ stack = f.locals \o values
                /\ f.call.mode = "xpcall" => f.call.errh <= Len(above)
  <2>1. CASE ~f.odd /\ f.call.mode = "xpcall"
    <3>1. f.stack = f.locals \o <<Handler>> /\ f.call.errh = Len(f.locals) + 1
      BY <1>2, <2>1 DEF Healthy, Suspended
    <3>2. stack = f.locals \o values
      BY <1>3, <1>4, <1>6, <2>1, <3>1, HandlerRemoved
    <3>3. Len(f.stack) = Len(f.locals) + 1
      BY <1>3, <3>1, SlotsMade DEF Stacks
    <3> QED BY <1>5, <3>1, <3>2, <3>3
  <2>2. CASE ~f.odd /\ f.call.mode # "xpcall"
    <3>1. f.stack = f.locals \o <<>>
      BY <1>2, <2>2 DEF Healthy, Suspended
    <3>2. f.stack = f.locals
      BY <1>3, <3>1 DEF Stacks
    <3> QED BY <1>4, <1>6, <2>2, <3>2
  <2> QED BY <2>1, <2>2
<1>10. CASE \/ n > Len(stack) \/ (~ok /\ n = 0)
            \/ f.call.mode = "xpcall" /\ f.call.errh > Len(above)
  <2>1. status' = "undefined" /\ last' = Nothing /\ UNCHANGED frames
    BY <1>7, <1>10 DEF Undefined
  <2>2. \/ f.odd \/ f.call.nres = Multi \/ (f.call.mode \in Protected /\ f.call.nres # 1)
    <3> SUFFICES ASSUME ~f.odd, f.call.nres # Multi, ~(f.call.mode \in Protected /\ f.call.nres # 1)
                 PROVE  FALSE
      OBVIOUS
    <3>1. stack = f.locals \o values /\ n = f.call.nres
          /\ ~(f.call.mode = "xpcall" /\ f.call.errh > Len(above))
      <4>1. f.call.mode = "xpcall" => f.call.errh \in Int /\ f.call.errh <= Len(above)
        BY <1>3, <1>9, BoundsAssumption
      <4> QED BY <1>5, <1>8, <1>9, <4>1
    <3>2. Len(stack) = Len(f.locals) + Len(values) /\ Len(f.locals) \in Nat
      BY <1>3, <3>1 DEF Stacks
    <3>3. ok => n = Len(values)
      BY <1>2, <3>1
    <3>4. ~ok => n = 1 /\ Len(values) = 1
      BY <1>2, <3>1
    <3>5. n <= Len(stack)
      BY <1>5, <3>2, <3>3, <3>4
    <3>6. ~ok => n # 0
      BY <3>4
    <3>7. Len(stack) \in Nat
      BY <1>5, <3>2
    <3> QED BY <1>8, <1>10, <3>1, <3>5, <3>6, <3>7
  <2> QED BY <1>1, <1>2, <2>1, <2>2, StopsHold
<1>11. CASE ~(\/ n > Len(stack) \/ (~ok /\ n = 0)
              \/ f.call.mode = "xpcall" /\ f.call.errh > Len(above))
  <2>1. stack \in Stacks /\ Len(stack) \in Nat /\ n <= Len(stack)
    <3>1. CASE f.call.mode = "xpcall"
      <4>1. f.call.errh \in 1..Len(above)
        <5>1. f.call.errh >= 1
          BY <1>2, <3>1 DEF Healthy
        <5>2. f.call.errh \in Int
          BY <1>3, BoundsAssumption
        <5>3. ~(f.call.errh > Len(above))
          BY <1>11, <3>1
        <5> QED BY <1>5, <5>1, <5>2, <5>3
      <4>2. stack \in Stacks
        BY <1>5, <1>6, <3>1, <4>1, RemoveAtShape
      <4>3. Len(stack) \in Nat
        BY <4>2 DEF Stacks
      <4> QED BY <1>8, <1>11, <4>2, <4>3
    <3>2. CASE f.call.mode # "xpcall"
      BY <1>5, <1>6, <1>8, <1>11, <3>2
    <3> QED BY <3>1, <3>2
  <2>2. /\ TopN(stack, n) \in Stacks /\ Len(TopN(stack, n)) = n /\ Below(stack, n) \in Stacks
    BY <1>8, <2>1, TopShape
  <2> DEFINE odd == f.odd \/ (~ok /\ n # 1) \/ f.call.nres = Multi
             g0 == [f EXCEPT !.stack = Below(stack, n), !.call = Running]
             g == Take(f, stack, n, ok)
  <2>3. /\ g0 \in Shapes /\ g0.stack = Below(stack, n) /\ g0.locals = f.locals
        /\ g0.call = Running /\ g0.ctxs = f.ctxs /\ g0.odd = f.odd
    BY <2>2, CallTypes DEF Shapes
  <2>4. g = IF odd THEN [g0 EXCEPT !.odd = TRUE, !.locals = <<>>] ELSE g0
    BY DEF Take, Odd
  <2> HIDE DEF g0
  <2>5. /\ g \in Shapes /\ g.call = Running /\ g.ctxs = f.ctxs
        /\ odd => g.odd
        /\ ~odd => ~g.odd /\ g = g0
    <3>1. CASE odd
      <4>1. <<>> \in Stacks
        BY DEF Stacks
      <4> HIDE DEF odd, g
      <4> QED BY <2>3, <2>4, <3>1, <4>1 DEF Shapes
    <3>2. CASE ~odd
      BY <2>3, <2>4, <3>2
    <3> QED BY <3>1, <3>2
  <2>6. ~odd => /\ stack = f.locals \o values /\ n = Len(values)
                /\ TopN(stack, n) = values /\ Below(stack, n) = f.locals
    <3> SUFFICES ASSUME ~odd PROVE /\ stack = f.locals \o values /\ n = Len(values)
                                   /\ TopN(stack, n) = values /\ Below(stack, n) = f.locals
      OBVIOUS
    <3>1. ~f.odd /\ f.call.nres # Multi /\ (~ok => n = 1)
      OBVIOUS
    <3>2. stack = f.locals \o values
      BY <1>9, <3>1
    <3>3. n = Len(values)
      BY <1>2, <1>8, <3>1
    <3>4. TopN(f.locals \o values, Len(values)) = values /\ Below(f.locals \o values, Len(values)) = f.locals
      BY <1>3, TopOf
    <3> QED BY <3>2, <3>3, <3>4
  <2>7. Healthy(g)
    <3>1. g.call.mode = "none" /\ Suspended(g) = <<>>
      BY <2>5, CallTypes DEF Suspended
    <3>2. ~g.odd => g.stack = g.locals \o <<>>
      <4>1. f.locals \o <<>> = f.locals
        BY <1>3 DEF Stacks
      <4> HIDE DEF odd, g
      <4> QED BY <2>3, <2>5, <2>6, <4>1
    <3>3. \A m \in 1..Len(f.ctxs) : f.ctxs[m].size # 0 => f.ctxs[m].copied
      BY <1>2 DEF Healthy
    <3> HIDE DEF g
    <3> QED BY <2>5, <3>1, <3>2, <3>3 DEF Healthy
  <2>8. /\ frames' = Append(SubSeq(frames, 1, i - 1), g) /\ UNCHANGED status
        /\ last' = [sent |-> sent, got |-> IF ok THEN TopN(stack, n) ELSE <<TopN(stack, n)[1]>>,
                    sound |-> sound /\ ~g.odd]
    BY <1>7, <1>11
  <2> HIDE DEF g
  <2>9. /\ frames' \in Seq(Shapes) /\ Len(frames') = i
        /\ frames'[i] = g /\ \A j \in 1..(i - 1) : frames'[j] = frames[j]
    <3>1. PICK low : low = SubSeq(frames, 1, i - 1)
      OBVIOUS
    <3>2. low \in Seq(Shapes) /\ Len(low) = i - 1 /\ \A j \in 1..(i - 1) : low[j] = frames[j]
      BY <1>1, <3>1
    <3> QED BY <2>5, <2>8, <3>1, <3>2
  <2>10. Frames'
    <3>1. ASSUME NEW j \in 1..i PROVE Healthy(frames'[j])
      BY <1>1, <2>7, <2>9
    <3>2. ASSUME NEW j \in 1..(i - 1) PROVE frames'[j].call \in Calls
      BY <1>1, <2>9
    <3>3. i \in 1..MaxFrames
      BY <1>1, BoundsAssumption
    <3> QED BY <2>5, <2>9, <3>1, <3>2, <3>3 DEF Frames, Depth, Top
  <2>11. PICK got : got = IF ok THEN TopN(stack, n) ELSE <<TopN(stack, n)[1]>>
    OBVIOUS
  <2>12. got \in Stacks
    <3>1. CASE ok
      BY <2>2, <2>11, <3>1
    <3>2. CASE ~ok
      <4>1. n >= 1
        BY <1>8, <1>11, <3>2
      <4>2. TopN(stack, n)[1] \in Slots
        BY <1>8, <2>2, <4>1 DEF Stacks
      <4> QED BY <2>11, <3>2, <4>2 DEF Stacks
    <3> QED BY <3>1, <3>2
  <2>13. sound /\ ~g.odd => got = sent
    <3> SUFFICES ASSUME sound, ~g.odd PROVE got = sent
      OBVIOUS
    <3>1. ~odd /\ values = sent
      BY <2>5
    <3>2. TopN(stack, n) = sent
      BY <2>6, <3>1
    <3>3. CASE ok
      BY <2>11, <3>2, <3>3
    <3>4. CASE ~ok
      <4>1. Len(sent) = 1
        BY <3>1, <3>4
      <4>2. sent = <<sent[1]>>
        BY <4>1 DEF Stacks
      <4> QED BY <2>11, <3>2, <3>4, <4>2
    <3> QED BY <3>3, <3>4
  <2>14. g.odd \in BOOLEAN
    BY <2>5 DEF Shapes
  <2>15. Handed'
    <3>1. PICK b \in BOOLEAN : b = (sound /\ ~g.odd)
      BY <2>14
    <3>2. last' = [sent |-> sent, got |-> got, sound |-> b]
      BY <2>8, <2>11, <3>1
    <3> QED BY <2>12, <2>13, <3>1, <3>2 DEF Handed, ValuesDelivered
  <2> QED BY <2>8, <2>10, <2>15 DEF IInv, UndefinedOnlyWhenOdd
<1> QED BY <1>10, <1>11

\* The frames are a stack of shapes.
LEMMA FramesTyped ==
    ASSUME Frames
    PROVE  /\ frames \in Seq(Shapes) /\ Depth \in Nat \ {0} /\ Depth \in 1..MaxFrames
           /\ Depth = Len(frames) /\ DOMAIN frames = 1..Depth
           /\ \A j \in 1..Depth : frames[j] \in Shapes /\ Healthy(frames[j])
           /\ Top \in Shapes /\ Healthy(Top) /\ Top.call = Running
           /\ Top.stack \in Stacks /\ Top.locals \in Stacks /\ Top.odd \in BOOLEAN
           /\ Top.ctxs \in Seq(Contexts)
<1>1. /\ frames \in Seq(Shapes) /\ Depth \in Nat \ {0} /\ Depth \in 1..MaxFrames
      /\ Depth = Len(frames) /\ DOMAIN frames = 1..Depth
  BY BoundsAssumption DEF Frames, Depth
<1>2. \A j \in 1..Depth : frames[j] \in Shapes /\ Healthy(frames[j])
  BY <1>1 DEF Frames
<1>3. Top \in Shapes /\ Healthy(Top) /\ Top.call = Running
  BY <1>1, <1>2 DEF Top, Frames
<1>4. Top.stack \in Stacks /\ Top.locals \in Stacks /\ Top.odd \in BOOLEAN /\ Top.ctxs \in Seq(Contexts)
  BY <1>3 DEF Shapes
<1> QED BY <1>1, <1>2, <1>3, <1>4

\* A return hands its results to the frame below.
LEMMA ReturnStep ==
    ASSUME IInv, status = "running", UNCHANGED unwinds, NEW results \in Stacks, Return(results)
    PROVE  IInv'
<1>1. Frames /\ Depth \in Nat /\ Depth > 1 /\ Depth - 1 \in 1..(Depth - 1)
  BY FramesTyped DEF IInv, Return
<1>2. PICK stack : stack = Destroyed(Depth, Top.stack \o results)
  OBVIOUS
<1>3. Top.stack \o results \in Stacks
  BY <1>1, FramesTyped DEF Stacks
<1>4. stack \in Stacks /\ (~Copied(Depth) => stack = Top.stack \o results)
  <2>1. PICK i, s : i = Depth /\ s = Top.stack \o results
    OBVIOUS
  <2>2. i \in 1..(Depth + 1) /\ s \in Stacks
    BY <1>1, <1>3, <2>1
  <2>3. Destroyed(i, s) \in Stacks /\ (~Copied(i) => Destroyed(i, s) = s)
    BY <1>1, <2>2, DestroyedShape
  <2> QED BY <1>2, <2>1, <2>3
<1>5. PICK nres : nres = frames[Depth - 1].call.nres
  OBVIOUS
<1>6. nres \in {Multi} \cup 0..MaxResults
  BY <1>1, <1>5, CallTypes DEF Frames
<1>7. Len(results) \in Nat /\ Len(stack) \in Nat
  BY <1>4 DEF Stacks
<1>8. CASE Len(results) > Len(stack)
  <2>1. status' = "undefined" /\ last' = Nothing /\ UNCHANGED frames
    BY <1>2, <1>8 DEF Return, Undefined
  <2>2. Copied(Depth)
    <3>1. Len(Top.stack \o results) = Len(Top.stack) + Len(results) /\ Len(Top.stack) \in Nat
      BY <1>1, FramesTyped DEF Stacks
    <3> QED BY <1>4, <1>7, <1>8, <3>1
  <2>3. Depth \in DOMAIN frames
    BY <1>1, FramesTyped
  <2> QED BY <2>1, <2>2, <2>3, StopsHold
<1>9. CASE ~(Len(results) > Len(stack))
  <2>1. TopN(stack, Len(results)) \in Stacks
    BY <1>4, <1>7, <1>9, TopShape
  <2>2. PICK values, sent : /\ values = Adjust(TopN(stack, Len(results)), nres)
                            /\ sent = Adjust(results, nres)
    OBVIOUS
  <2>3. values \in Stacks /\ sent \in Stacks /\ (nres # Multi => Len(values) = nres)
    BY <1>6, <2>1, <2>2, AdjustShape
  <2>4. PICK sound \in BOOLEAN : sound = ~Copied(Depth)
    OBVIOUS
  <2>5. sound => values = sent
    <3>1. Top.stack \in Stacks
      BY <1>1, FramesTyped
    <3>2. TopN(Top.stack \o results, Len(results)) = results
      BY <3>1, TopOf
    <3> QED BY <1>4, <2>2, <2>4, <3>2
  <2>6. Complete(Depth - 1, values, sent, TRUE, sound)
    BY <1>2, <1>5, <1>9, <2>2, <2>4 DEF Return
  <2> QED BY <1>1, <1>5, <2>3, <2>5, <2>6, CompleteHolds
<1> QED BY <1>8, <1>9

\* The innermost protected call is there if there is any.
LEMMA Innermost ==
    ASSUME NEW n \in Nat, NEW T \in SUBSET (1..n), T # {}
    PROVE  \E i \in T : \A j \in T : j <= i
<1> DEFINE R == {n - i : i \in T}
<1>1. R \in SUBSET Nat /\ R # {}
  <2>1. \A i \in T : n - i \in Nat
    OBVIOUS
  <2> QED BY <2>1
<1>2. PICK m \in R : \A k \in R : m <= k
  <2> HIDE DEF R
  <2> QED BY <1>1, LeastNatural
<1>3. PICK i \in T : m = n - i
  BY <1>2
<1>4. \A j \in T : n - i <= n - j
  BY <1>2, <1>3
<1>5. ASSUME NEW j \in T PROVE j <= i
  <2>1. i \in Nat /\ j \in Nat /\ n - i <= n - j
    BY <1>4
  <2> HIDE DEF R
  <2> QED BY <2>1
<1> QED BY <1>5

\* A raise unwinds to the innermost protected call, or panics.
LEMMA RaiseStep ==
    ASSUME IInv, status = "running", UNCHANGED unwinds, NEW stack \in Stacks, NEW v \in Slots,
           Raise(stack, v)
    PROVE  IInv'
<1>1. Frames /\ Depth \in Nat /\ unwinds \in BOOLEAN
  BY FramesTyped, BoundsAssumption DEF IInv
<1>2. PICK T : T = {i \in 1..(Depth - 1) : frames[i].call.mode \in Protected}
  OBVIOUS
<1>3. CASE T = {}
  <2>1. status' = "panic" /\ last' = Nothing /\ UNCHANGED frames
    BY <1>2, <1>3 DEF Raise
  <2> QED BY <2>1, StopsHold
<1>4. CASE T # {}
  <2>1. PICK c : c = CHOOSE i \in T : \A j \in T : j <= i
    OBVIOUS
  <2>2. c \in T
    <3>1. T \in SUBSET (1..Depth)
      BY <1>1, <1>2
    <3>2. \E i \in T : \A j \in T : j <= i
      BY <1>1, <1>4, <3>1, Innermost
    <3> QED BY <2>1, <3>2
  <2>3. c \in 1..(Depth - 1) /\ frames[c].call.mode \in Protected /\ c + 1 \in 1..(Depth + 1)
    BY <1>1, <1>2, <2>2
  <2>4. PICK final : final = IF unwinds THEN Destroyed(c + 1, Append(stack, v)) ELSE Append(stack, v)
    OBVIOUS
  <2>5. /\ Append(stack, v) \in Stacks /\ Append(stack, v) # <<>>
        /\ Len(Append(stack, v)) = Len(stack) + 1 /\ Append(stack, v)[Len(stack) + 1] = v
    BY DEF Stacks
  <2>6. final \in Stacks /\ final # <<>> /\ (~(unwinds /\ Copied(c + 1)) => final = Append(stack, v))
    <3>1. CASE unwinds
      BY <1>1, <2>3, <2>4, <2>5, <3>1, DestroyedShape
    <3>2. CASE ~unwinds
      BY <2>4, <2>5, <3>2
    <3> QED BY <3>1, <3>2
  <2>7. Last(final) \in Slots
    <3>1. Len(final) \in 1..Len(final)
      BY <2>6 DEF Stacks
    <3> QED BY <2>6, <3>1 DEF Last, Stacks
  <2>8. PICK values, sent : values = <<Last(final)>> /\ sent = <<v>>
    OBVIOUS
  <2>9. values \in Stacks /\ sent \in Stacks /\ Len(values) = 1
    BY <2>7, <2>8 DEF Stacks
  <2>10. PICK sound \in BOOLEAN : sound = ~(unwinds /\ Copied(c + 1))
    OBVIOUS
  <2>11. sound => values = sent
    BY <2>5, <2>6, <2>8, <2>10 DEF Last
  <2>12. Complete(c, values, sent, FALSE, sound)
    <3> DEFINE catchers == {i \in 1..(Depth - 1) : frames[i].call.mode \in Protected}
               catcher  == CHOOSE i \in catchers : \A j \in catchers : j <= i
               left     == IF unwinds THEN Destroyed(catcher + 1, Append(stack, v))
                           ELSE Append(stack, v)
    <3>1. catchers = T
      BY <1>2
    <3>2. catcher = c
      BY <2>1, <3>1
    <3>3. left = final
      <4> HIDE DEF catcher
      <4> QED BY <2>4, <3>2
    <3>4. Complete(catcher, <<Last(left)>>, <<v>>, FALSE, ~(unwinds /\ Copied(catcher + 1)))
      <4>1. catchers # {}
        BY <1>4, <3>1
      <4> QED BY <4>1 DEF Raise
    <3> HIDE DEF catcher, left
    <3> QED BY <2>8, <2>10, <3>2, <3>3, <3>4
  <2> QED BY <2>3, <2>9, <2>11, <2>12, CompleteHolds
<1> QED BY <1>3, <1>4

\* A call leaves the caller healthy, unless there were upvalues to push.
LEMMA CallStep ==
    ASSUME IInv, status = "running", UNCHANGED unwinds, NEW mode \in Modes,
           NEW nres \in {Multi} \cup 0..MaxResults, NEW nilfn \in BOOLEAN,
           NEW h \in 0..1, NEW u \in 0..1, NEW n \in 0..1, Call(mode, nres, nilfn, h, u, n)
    PROVE  IInv'
<1>1. Frames /\ Depth \in Nat \ {0} /\ Depth = Len(frames) /\ frames \in Seq(Shapes) /\ DOMAIN frames = 1..Depth
      /\ Depth \in 1..MaxFrames
  BY FramesTyped DEF IInv
<1>2. PICK f \in Shapes : f = Top
  BY <1>1, FramesTyped
<1>3. /\ f.stack \in Stacks /\ f.locals \in Stacks /\ f.odd \in BOOLEAN /\ f.ctxs \in Seq(Contexts)
      /\ Healthy(f) /\ f.call = Running /\ f.call.mode = "none" /\ Len(f.stack) \in Nat
      /\ Len(f.stack) <= MaxLocals /\ Depth < MaxFrames
  BY <1>1, <1>2, FramesTyped, CallTypes DEF Call, Stacks
<1>4. PICK stack : stack = IF mode = "xpcall" THEN Append(Below(f.stack, h), Handler) ELSE f.stack
  OBVIOUS
<1>5. CASE ~(h > Len(f.stack)) /\ nilfn
  <2>1. PICK below : below = Below(f.stack, h)
    OBVIOUS
  <2>2. below \in Stacks
    BY <1>3, <1>5, <2>1, TopShape
  <2>3. stack \in Stacks
    BY <1>3, <1>4, <2>1, <2>2, SlotsMade DEF Stacks
  <2>4. Raise(stack, Message)
    BY <1>2, <1>4, <1>5 DEF Call
  <2> QED BY <2>3, <2>4, RaiseStep, SlotsMade
<1>7. CASE h > Len(f.stack) \/ (~nilfn /\ u > Len(stack))
  <2> DEFINE g == [f EXCEPT !.odd = TRUE, !.locals = <<>>]
  <2>1. status' = "undefined" /\ last' = Nothing /\ Update(g)
    BY <1>2, <1>4, <1>7 DEF Call, Odd
  <2>2. <<>> \in Stacks
    BY DEF Stacks
  <2>3. g \in Shapes /\ g.call = Running /\ g.odd /\ g.ctxs = f.ctxs
    BY <1>3, <2>2 DEF Shapes
  <2> HIDE DEF g
  <2>4. Healthy(g)
    BY <1>3, <2>3 DEF Healthy
  <2>5. Frames'
    BY <1>1, <2>1, <2>3, <2>4, UpdateFrames
  <2>6. frames'[Depth] = g /\ DOMAIN frames' = 1..Depth
    BY <1>1, <2>1 DEF Update
  <2>7. UndefinedOnlyWhenOdd'
    BY <1>1, <2>3, <2>6 DEF UndefinedOnlyWhenOdd
  <2>8. Handed'
    BY <2>1, <2>2 DEF Handed, Nothing, ValuesDelivered
  <2> QED BY <2>1, <2>5, <2>7, <2>8 DEF IInv
<1>8. CASE ~nilfn /\ ~(h > Len(f.stack)) /\ ~(u > Len(stack))
  <2>a. PICK below : below = Below(f.stack, h)
    OBVIOUS
  <2>b. below \in Stacks /\ Len(below) = Len(f.stack) - h /\ (h = 0 => below = f.stack)
    <3>1. h \in Nat /\ h <= Len(f.stack)
      BY <1>3, <1>8
    <3>2. below \in Stacks /\ Len(below) = Len(f.stack) - h
      BY <1>3, <2>a, <3>1, TopShape
    <3>3. h = 0 => SubSeq(f.stack, 1, Len(f.stack) - h) = f.stack
      BY <1>3 DEF Stacks
    <3> QED BY <2>a, <3>2, <3>3 DEF Below
  <2>c. /\ stack \in Stacks /\ Len(stack) \in Nat /\ Len(stack) <= MaxLocals + 1
        /\ mode = "xpcall" => Len(stack) >= 1 /\ Len(stack) = Len(f.stack) - h + 1
        /\ mode = "xpcall" => stack = Append(below, Handler)
    <3>1. CASE mode = "xpcall"
      <4>1. Append(below, Handler) \in Stacks /\ Len(Append(below, Handler)) = Len(below) + 1
        BY <2>b, SlotsMade DEF Stacks
      <4>2. stack = Append(below, Handler)
        BY <1>4, <2>a, <3>1
      <4>3. Len(stack) = Len(f.stack) - h + 1 /\ h \in {0, 1} /\ h <= Len(f.stack)
        BY <1>3, <1>8, <2>b, <4>1, <4>2
      <4> QED BY <1>3, <4>1, <4>2, <4>3, BoundsAssumption
    <3>2. CASE mode # "xpcall"
      BY <1>3, <1>4, <3>2, BoundsAssumption
    <3> QED BY <3>1, <3>2
  <2>d. h # 0 => mode = "xpcall"
    BY DEF Call
  <2>1. PICK call : call = [mode |-> mode, nres |-> nres, errh |-> IF mode = "xpcall" THEN Len(stack) ELSE 0]
    OBVIOUS
  <2>2. /\ call \in Calls /\ call.mode = mode
        /\ call.errh = IF mode = "xpcall" THEN Len(stack) ELSE 0
    BY <2>c, <2>1, BoundsAssumption DEF Calls
  <2>3. PICK rest : rest = Below(stack, u)
    OBVIOUS
  <2>4. rest \in Stacks /\ (u = 0 => rest = stack)
    <3>1. u \in Nat /\ u <= Len(stack)
      BY <2>c, <1>8
    <3>2. rest \in Stacks
      BY <2>c, <2>3, <3>1, TopShape
    <3>3. u = 0 => SubSeq(stack, 1, Len(stack) - u) = stack
      BY <2>c DEF Stacks
    <3> QED BY <2>3, <3>2, <3>3 DEF Below
  <2> DEFINE g0 == [f EXCEPT !.stack = rest, !.call = call]
             odd == f.odd \/ h > 0 \/ u > 0
             g == IF odd THEN [g0 EXCEPT !.odd = TRUE, !.locals = <<>>] ELSE g0
  <2>5. /\ g0 \in Shapes /\ g0.stack = rest /\ g0.call = call /\ g0.ctxs = f.ctxs /\ g0.locals = f.locals
        /\ g0.odd = f.odd
    BY <1>3, <2>2, <2>4 DEF Shapes
  <2>6. frames' = Append([frames EXCEPT ![Depth] = g], Frame(Some("arg", n))) /\ Quiet
    BY <1>2, <1>4, <1>8, <2>1, <2>3 DEF Call, Odd, Top
  <2> HIDE DEF g0
  <2>7. g \in Shapes /\ g.call = call /\ g.ctxs = f.ctxs
        /\ (~g.odd => ~f.odd /\ h = 0 /\ u = 0 /\ g.stack = rest /\ g.locals = f.locals)
    <3>1. CASE odd
      <4>1. <<>> \in Stacks
        BY DEF Stacks
      <4>2. g = [g0 EXCEPT !.odd = TRUE, !.locals = <<>>]
        BY <3>1
      <4> HIDE DEF odd, g
      <4> QED BY <2>5, <4>1, <4>2 DEF Shapes
    <3>2. CASE ~odd
      BY <2>5, <3>2
    <3> QED BY <3>1, <3>2
  <2> HIDE DEF g, odd
  <2>8. Healthy(g)
    <3>1. ASSUME ~g.odd
          PROVE  g.stack = g.locals \o Suspended(g)
                 /\ (mode = "xpcall" => call.errh = Len(g.locals) + 1)
      <4>1. f.stack = f.locals /\ g.stack = stack /\ g.locals = f.locals
        <5>1. Suspended(f) = <<>> /\ f.locals \o <<>> = f.locals
          BY <1>3 DEF Suspended, Stacks
        <5> QED BY <1>3, <2>4, <2>7, <3>1, <5>1 DEF Healthy
      <4>2. CASE mode = "xpcall"
        <5>1. Append(f.stack, Handler) = f.stack \o <<Handler>>
          <6>1. PICK s \in Seq(Slots) : s = f.stack
            BY <1>3 DEF Stacks
          <6>2. Handler \in Slots
            BY SlotsMade
          <6>3. Append(s, Handler) = s \o <<Handler>>
            BY <6>2
          <6> QED BY <6>1, <6>3
        <5>2. Suspended(g) = <<Handler>>
          BY <2>2, <2>7, <4>2 DEF Suspended
        <5>3. stack = f.stack \o <<Handler>>
          BY <2>b, <2>c, <2>7, <3>1, <4>2, <5>1
        <5>4. call.errh = Len(f.locals) + 1
          BY <2>2, <2>7, <2>b, <2>c, <3>1, <4>1, <4>2
        <5> QED BY <4>1, <5>2, <5>3, <5>4
      <4>3. CASE mode # "xpcall"
        <5>1. Suspended(g) = <<>> /\ f.locals \o <<>> = f.locals
          BY <1>3, <2>2, <2>7, <4>3 DEF Suspended, Stacks
        <5> QED BY <1>4, <4>1, <4>3, <5>1
      <4> QED BY <4>2, <4>3
    <3>2. mode = "xpcall" => call.errh >= 1
      BY <2>c, <2>2
    <3>3. \A m \in 1..Len(f.ctxs) : f.ctxs[m].size # 0 => f.ctxs[m].copied
      BY <1>3 DEF Healthy
    <3> QED BY <2>2, <2>7, <3>1, <3>2, <3>3 DEF Healthy
  <2>9. PICK fresh \in Shapes : fresh = Frame(Some("arg", n)) /\ Healthy(fresh) /\ fresh.call = Running
    <3>1. n \in 0..(MaxLocals + MaxResults)
      BY BoundsAssumption
    <3>2. Some("arg", n) \in Stacks
      BY <3>1, SomeShape
    <3> QED BY <3>2, FrameShape
  <2>10. /\ frames' \in Seq(Shapes) /\ Len(frames') = Depth + 1 /\ frames'[Depth + 1] = fresh
         /\ frames'[Depth] = g /\ \A j \in 1..(Depth - 1) : frames'[j] = frames[j]
    <3>1. PICK low : low = [frames EXCEPT ![Depth] = g]
      OBVIOUS
    <3>2. /\ low \in Seq(Shapes) /\ Len(low) = Depth /\ low[Depth] = g
          /\ \A j \in 1..(Depth - 1) : low[j] = frames[j]
      BY <1>1, <2>7, <3>1
    <3>3. frames' = Append(low, fresh)
      BY <2>6, <2>9, <3>1
    <3> QED BY <1>1, <2>9, <3>2, <3>3
  <2>11. Frames'
    <3>1. ASSUME NEW j \in 1..(Depth + 1) PROVE Healthy(frames'[j])
      <4>1. j \in 1..(Depth - 1) \/ j = Depth \/ j = Depth + 1
        BY <1>1
      <4>2. \A m \in 1..(Depth - 1) : Healthy(frames[m])
        BY <1>1, FramesTyped
      <4> QED BY <2>8, <2>9, <2>10, <4>1, <4>2
    <3>2. ASSUME NEW j \in 1..Depth PROVE frames'[j].call \in Calls
      <4>1. j \in 1..(Depth - 1) \/ j = Depth
        BY <1>1
      <4>2. \A m \in 1..(Depth - 1) : frames[m].call \in Calls
        BY <1>1 DEF Frames
      <4> QED BY <2>2, <2>7, <2>10, <4>1, <4>2
    <3>3. Depth + 1 \in 1..MaxFrames /\ (Depth + 1) - 1 = Depth
      BY <1>1, <1>3, BoundsAssumption
    <3> QED BY <2>9, <2>10, <3>1, <3>2, <3>3 DEF Frames, Depth, Top
  <2> QED BY <2>6, <2>11, QuietHolds
<1> QED BY <1>5, <1>7, <1>8

----------------------------------------------------------------------------
(* The theorems. *)

\* Every waiting or executing frame is healthy, and what was handed over last is
\* known, in every state (context.hpp: contexts 27-66, calls and raises).
THEOREM Invariance == Spec => []IInv
<1>1. IInv /\ [Next]_vars => IInv'
  <2> SUFFICES ASSUME IInv, [Next]_vars PROVE IInv'
    OBVIOUS
  <2>1. CASE UNCHANGED vars
    BY <2>1 DEF vars, IInv, Frames, Depth, Top, Handed, ValuesDelivered, UndefinedOnlyWhenOdd, Copied
  <2>2. CASE ~ UNCHANGED vars
    <3>1. status = "running" /\ UNCHANGED unwinds
      BY <2>2 DEF Next
    <3>2. CASE MakeLocal \/ AsThread \/ NewCtx \/ CopyCtx \/ DropCtx
      BY <3>1, <3>2, LocalStep
    <3>3. ASSUME NEW mode \in Modes, NEW nres \in {Multi} \cup 0..MaxResults, NEW nilfn \in BOOLEAN,
                 NEW h \in 0..1, NEW u \in 0..1, NEW n \in 0..1, Call(mode, nres, nilfn, h, u, n)
          PROVE  IInv'
      BY <3>1, <3>3, CallStep
    <3>4. ASSUME NEW n \in 0..MaxResults, Return(Some("result", n)) PROVE IInv'
      <4>1. n \in 0..(MaxLocals + MaxResults)
        BY BoundsAssumption
      <4>2. Some("result", n) \in Stacks
        BY <4>1, SomeShape
      <4> QED BY <3>1, <3>4, <4>2, ReturnStep
    <3>5. Top.stack \in Stacks
      BY FramesTyped DEF IInv
    <3>6. CASE Error(<<"error", 1>>)
      <4>1. <<"error", 1>> \in Slots
        <5>1. 1 \in 1..(MaxLocals + MaxResults)
          BY BoundsAssumption
        <5> QED BY <5>1, SlotsMade
      <4> QED BY <3>1, <3>5, <3>6, <4>1, RaiseStep DEF Error
    <3>7. ASSUME NEW n \in 0..1, ExpectArgn(n) PROVE IInv'
      <4>1. CASE ArgsCount # n
        BY <3>1, <3>5, <3>7, <4>1, RaiseStep, SlotsMade DEF ExpectArgn
      <4>2. CASE ArgsCount = n
        <5>1. UNCHANGED frames /\ Quiet
          BY <3>7, <4>2 DEF ExpectArgn
        <5>2. Frames'
          BY <5>1 DEF IInv, Frames, Depth, Top
        <5> QED BY <3>1, <5>1, <5>2, QuietHolds
      <4> QED BY <4>1, <4>2
    <3> QED BY <2>1, <2>2, <3>1, <3>2, <3>3, <3>4, <3>6, <3>7 DEF Next
  <2> QED BY <2>1, <2>2
<1> QED BY <1>1, InitHolds, PTL DEF Spec

\* A frame without an oddity finds its locals where it left them, for calls of any
\* depth and errors that cross any number of frames.
THEOREM LocalsKept == Spec => []LocalsIntact
<1>1. IInv => LocalsIntact
  <2> SUFFICES ASSUME IInv, NEW i \in DOMAIN frames, ~frames[i].odd
               PROVE  frames[i].stack = frames[i].locals
                        \o (IF frames[i].call.mode = "xpcall" THEN <<Handler>> ELSE <<>>)
    BY DEF LocalsIntact
  <2>1. Healthy(frames[i])
    BY FramesTyped DEF IInv
  <2> QED BY <2>1 DEF Healthy, Suspended
<1> QED BY <1>1, Invariance, PTL

\* Returned and raised values arrive unless a copied context (its constructor takes
\* the real height) died on the way.
THEOREM ValuesArrive == Spec => []ValuesDelivered
<1>1. IInv => ValuesDelivered
  BY DEF IInv, Handed
<1> QED BY <1>1, Invariance, PTL

\* No stack underflows unless an oddity, a copied context or a protected call with
\* other than one result accounts for it.
THEOREM UndefinedIsOdd == Spec => []UndefinedOnlyWhenOdd
<1>1. IInv => UndefinedOnlyWhenOdd
  BY DEF IInv
<1> QED BY <1>1, Invariance, PTL

\* Frames, contexts and handed-over values are of their types in every state.
THEOREM TypeCorrect == Spec => []TypeOK
<1>1. IInv => TypeOK
  <2> SUFFICES ASSUME IInv PROVE TypeOK
    OBVIOUS
  <2>1. Frames /\ frames \in Seq(Shapes) /\ Depth = Len(frames) /\ Depth \in 1..MaxFrames
        /\ DOMAIN frames = 1..Depth /\ \A j \in 1..Depth : frames[j] \in Shapes
    BY FramesTyped DEF IInv
  <2>2. \A s \in Stacks : ToSet(s) \subseteq Slots
    BY DEF Stacks, ToSet
  <2>3. ASSUME NEW i \in DOMAIN frames
        PROVE  /\ ToSet(frames[i].stack) \cup ToSet(frames[i].locals) \subseteq Slots
               /\ \A n \in DOMAIN frames[i].ctxs :
                    frames[i].ctxs[n] \in [size : Nat, made : Nat, copied : BOOLEAN]
               /\ frames[i].call \in Calls \cup {Running}
               /\ frames[i].odd \in BOOLEAN
    <3>1. /\ frames[i].stack \in Stacks /\ frames[i].locals \in Stacks
          /\ frames[i].ctxs \in Seq(Contexts) /\ frames[i].call \in Calls \cup {Running}
          /\ frames[i].odd \in BOOLEAN
      BY <2>1 DEF Shapes
    <3>2. \A n \in DOMAIN frames[i].ctxs : frames[i].ctxs[n] \in Contexts
      <4>1. PICK cs \in Seq(Contexts) : cs = frames[i].ctxs
        BY <3>1
      <4>2. \A n \in DOMAIN cs : cs[n] \in Contexts
        OBVIOUS
      <4> QED BY <4>1, <4>2
    <3> QED BY <2>2, <3>1, <3>2 DEF Contexts
  <2>4. ToSet(last.sent) \cup ToSet(last.got) \subseteq Slots
    BY <2>2 DEF IInv, Handed
  <2> QED BY <2>1, <2>3, <2>4 DEF TypeOK, IInv
<1> QED BY <1>1, Invariance, PTL
=============================================================================
