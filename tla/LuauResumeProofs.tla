--------------------------- MODULE LuauResumeProofs ---------------------------
(***************************************************************************)
(* Theorems about LuauResume for any values and bounds: what every way a   *)
(* resumed function can end leaves on the stack, and what the wrappers     *)
(* make of it in the resumes that follow.                                  *)
(***************************************************************************)
EXTENDS LuauResume, SequenceTheorems, TLAPS

\* What a running function has below it was below the bound.
Hidden == Len(hidden) <= MaxStack
\* An error leaves a value that the next resume finds.
DeadHasValue == status = "dead" => stack # <<>>
\* Without what resume_v leaves, an ended function has nothing to call after it.
Ended == ~left /\ status = "ready" /\ runs > 0 => stack = <<>> \/ Last(stack) = Nil

IInv ==
    /\ TypeOK /\ Hidden /\ DeadHasValue /\ Ended
    /\ StartedOnce /\ UndefinedOnlyWhenEmpty /\ OneValueDelivered

----------------------------------------------------------------------------
(* The outcomes. *)

\* The values of every outcome are few slots; errors and refusals have one.
LEMMA OutcomeShape ==
    ASSUME TypeOK, NEW o \in Outcomes
    PROVE  /\ o.values \in Seq(Slots) /\ Len(o.values) <= MaxValues + 1
           /\ o.end \in {"return", "yield", "raise", "refused", "unreachable"}
           /\ o.end \in {"raise", "refused"} => Len(o.values) = 1
           /\ o.end = "refused" <=> status = "dead"
           /\ o.end \in {"return", "yield"} => Runnable
<1>1. SeqOf(Values, MaxValues) \subseteq {s \in Seq(Slots) : Len(s) <= MaxValues}
  BY BoundsAssumption DEF SeqOf, Slots
<1>2. \A v \in Slots : <<v>> \in Seq(Slots) /\ Len(<<v>>) = 1
  OBVIOUS
<1>3. <<>> \in Seq(Slots) /\ Len(<<>>) = 0 /\ Message \in Slots /\ Values \subseteq Slots
  BY DEF Slots
<1>4. CASE status = "dead"
  <2>1. o = [end |-> "refused", values |-> <<Message>>]
    BY <1>4 DEF Outcomes, Outcome
  <2>2. o.end = "refused" /\ o.values = <<Message>>
    BY <2>1
  <2> QED BY <1>2, <1>3, <1>4, <2>2, BoundsAssumption
<1>5. CASE status # "dead" /\ ~Runnable
  <2>1. o = [end |-> "raise", values |-> <<Message>>]
    BY <1>5 DEF Outcomes, Outcome
  <2>2. o.end = "raise" /\ o.values = <<Message>>
    BY <2>1
  <2> QED BY <1>2, <1>3, <1>5, <2>2, BoundsAssumption
<1>6. CASE status # "dead" /\ Runnable
  <2>1. \/ \E vs \in SeqOf(Values, MaxValues), e \in {"return", "yield"} :
              o = [end |-> e, values |-> vs]
        \/ \E v \in Slots, e \in {"return", "raise"} : o = [end |-> e, values |-> <<v>>]
        \/ o = [end |-> "unreachable", values |-> <<>>]
    BY <1>3, <1>6 DEF Outcomes, Outcome, Yield, Wait, Terminate, ReturnOrRaise
  <2>2. CASE \E vs \in SeqOf(Values, MaxValues), e \in {"return", "yield"} :
                 o = [end |-> e, values |-> vs]
    <3>1. o.values \in SeqOf(Values, MaxValues) /\ o.end \in {"return", "yield"}
      BY <2>2
    <3> QED BY <1>1, <1>6, <3>1, BoundsAssumption
  <2>3. CASE \E v \in Slots, e \in {"return", "raise"} : o = [end |-> e, values |-> <<v>>]
    <3>1. (\E v \in Slots : o.values = <<v>>) /\ o.end \in {"return", "raise"}
      BY <2>3
    <3> QED BY <1>2, <1>6, <3>1, BoundsAssumption
  <2>4. CASE o = [end |-> "unreachable", values |-> <<>>]
    <3>1. o.values = <<>> /\ o.end = "unreachable"
      BY <2>4
    <3> QED BY <1>3, <1>6, <3>1, BoundsAssumption
  <2> QED BY <2>1, <2>2, <2>3, <2>4
<1> QED BY <1>4, <1>5, <1>6

\* What is below a function is less than what the stack had.
LEMMA UnderShape ==
    ASSUME TypeOK, Hidden, Len(stack) <= MaxStack
    PROVE  Under \in Seq(Slots) /\ Len(Under) <= MaxStack
BY BoundsAssumption DEF TypeOK, Hidden, Under, Front

\* The stack that lua_resume leaves.
LEMMA AfterShape ==
    ASSUME TypeOK, Hidden, DeadHasValue, Len(stack) <= MaxStack, NEW o \in Outcomes
    PROVE  /\ After(o) \in Seq(Slots) /\ Len(After(o)) <= MaxStack + MaxValues + 2
           /\ o.end = "return" => /\ After(o) = Under \o o.values
                                  /\ Len(After(o)) <= MaxStack + MaxValues + 1
           /\ o.end \in {"yield", "unreachable"} => After(o) = o.values
           /\ o.end = "raise" => /\ Len(After(o)) = 2
                                 /\ After(o)[1] = o.values[1] /\ After(o)[2] = o.values[1]
           /\ o.end = "refused" => Len(After(o)) >= 2
<1>1. /\ o.values \in Seq(Slots) /\ Len(o.values) <= MaxValues + 1
      /\ o.end \in {"return", "yield", "raise", "refused", "unreachable"}
      /\ o.end \in {"raise", "refused"} => Len(o.values) = 1
      /\ o.end = "refused" <=> status = "dead"
  BY OutcomeShape
<1>2. stack \in Seq(Slots) /\ Under \in Seq(Slots) /\ Message \in Slots
  BY UnderShape DEF TypeOK, Slots
<1>3. CASE o.end = "return"
  <2>1. After(o) = Under \o o.values
    BY <1>3 DEF After
  <2>2. Len(Under) <= MaxStack
    BY UnderShape
  <2> QED BY <1>1, <1>2, <1>3, <2>1, <2>2, BoundsAssumption
<1>4. CASE o.end \in {"yield", "unreachable"}
  BY <1>1, <1>4, BoundsAssumption DEF After
<1>5. CASE o.end = "refused"
  <2>1. After(o) = Append(stack, Message)
    BY <1>5 DEF After
  <2>2. Len(stack) > 0
    BY <1>1, <1>2, <1>5 DEF DeadHasValue
  <2> QED BY <1>2, <1>5, <2>1, <2>2, BoundsAssumption
<1>6. CASE o.end = "raise"
  <2>1. After(o) = o.values \o o.values
    BY <1>6 DEF After
  <2>2. Len(o.values) = 1
    BY <1>1, <1>6
  <2>3. /\ After(o) \in Seq(Slots) /\ Len(After(o)) = 2
        /\ After(o)[1] = o.values[1] /\ After(o)[2] = o.values[1]
    BY <1>1, <2>1, <2>2, ConcatProperties
  <2> QED BY <1>6, <2>3, BoundsAssumption
<1> QED BY <1>1, <1>3, <1>4, <1>5, <1>6

----------------------------------------------------------------------------
(* The wrappers. *)

\* A wrapper that reads n values at index i of the stack it leaves keeps IInv,
\* when that index is there, or the outcome is one of those that are named, and
\* an error is what is read.
LEMMA FinishKeeps ==
    ASSUME IInv, CanResume, NEW o \in Outcomes,
           NEW final \in Seq(Slots), Len(final) <= MaxStack + MaxValues + 2,
           NEW n \in 0..2, NEW i \in -2..0, NEW leaves \in BOOLEAN,
           n > 0 => i < 0,
           n > 0 /\ ~HasIndex(final, i) =>
               o.end = "unreachable" \/ (o.end = "yield" /\ o.values = <<>>),
           o.end \in {"raise", "refused"} => final # <<>>,
           o.end = "return" => leaves \/ final = <<>> \/ Last(final) = Nil,
           o.end \in {"yield", "raise"} /\ Len(o.values) = 1 =>
               n > 0 /\ HasIndex(final, i) /\ Index(final, i) = o.values[1],
           Finish(o, final, i, n, leaves)
    PROVE  IInv'
<1>1. /\ o.values \in Seq(Slots)
      /\ o.end \in {"return", "yield", "raise", "refused", "unreachable"}
      /\ o.end = "refused" <=> status = "dead"
      /\ o.end \in {"return", "yield"} => Runnable
  BY OutcomeShape DEF IInv
<1>2. /\ TypeOK /\ Hidden /\ DeadHasValue /\ Ended /\ StartedOnce /\ ~undefined
      /\ Len(stack) <= MaxStack /\ runs < MaxRuns
  BY DEF IInv, CanResume
<1>3. left' = (left \/ leaves) /\ last'.end = o.end /\ last'.sent = o.values
  BY DEF Finish
<1>4. CASE o.end # "unreachable" /\ (n > 0 => HasIndex(final, i))
  <2>1. /\ Resumed(o) /\ stack' = final /\ undefined' = undefined
        /\ last'.got = [k \in 1..n |-> Index(final, i)]
    BY <1>4 DEF Finish
  <2>2. n > 0 => Index(final, i) \in Slots
    BY <1>4 DEF Index, HasIndex
  <2>3. last'.got \in Seq(Slots)
    BY <2>1, <2>2
  <2>4. TypeOK'
    <3>1. Under \in Seq(Slots)
      BY <1>2, UnderShape
    <3>2. hidden' \in Seq(Slots) /\ status' \in {"ready", "yielded", "dead"}
          /\ runs' \in 0..MaxRuns
      BY <1>2, <2>1, <3>1, BoundsAssumption DEF Resumed, TypeOK
    <3> QED BY <1>1, <1>2, <1>3, <2>1, <2>3, <3>2 DEF TypeOK, Ends
  <2>5. Hidden'
    BY <1>2, <2>1, UnderShape, BoundsAssumption DEF Hidden, Resumed
  <2>6. DeadHasValue'
    BY <1>1, <1>4, <2>1 DEF DeadHasValue, Resumed
  <2>7. Ended'
    BY <1>1, <1>3, <1>4, <2>1 DEF Ended, Resumed
  <2>8. StartedOnce'
    <3>1. ~left /\ Runnable /\ status = "ready" => runs = 0
      <4>1. Nil \notin Callable
        BY ValuesAssumption
      <4> QED BY <1>2, <4>1 DEF Ended, Runnable, TypeOK
    <3> QED BY <1>2, <1>3, <2>1, <3>1 DEF StartedOnce, Resumed, TypeOK
  <2>9. UndefinedOnlyWhenEmpty'
    BY <1>2, <2>1 DEF UndefinedOnlyWhenEmpty
  <2>10. OneValueDelivered'
    <3> SUFFICES ASSUME o.end \in {"yield", "raise"}, Len(o.values) = 1
                 PROVE  ToSet(last'.got) = ToSet(last'.sent)
      BY <1>3 DEF OneValueDelivered
    <3>1. ToSet(last'.got) = {o.values[1]}
      <4>1. last'.got = [k \in 1..n |-> o.values[1]] /\ 1 \in 1..n
        BY <2>1
      <4> QED BY <4>1 DEF ToSet
    <3>2. ToSet(o.values) = {o.values[1]}
      BY <1>1 DEF ToSet
    <3> QED BY <1>3, <3>1, <3>2
  <2> QED BY <2>4, <2>5, <2>6, <2>7, <2>8, <2>9, <2>10 DEF IInv
<1>5. CASE ~(o.end # "unreachable" /\ (n > 0 => HasIndex(final, i)))
  <2>1. /\ undefined' = TRUE /\ UNCHANGED <<status, stack, hidden, runs>>
        /\ last'.got = <<>>
    BY <1>5 DEF Finish
  <2>2. TypeOK'
    BY <1>1, <1>2, <1>3, <2>1 DEF TypeOK, Ends
  <2>3. UndefinedOnlyWhenEmpty'
    BY <1>3, <1>5 DEF UndefinedOnlyWhenEmpty
  <2>4. OneValueDelivered'
    BY <1>3, <1>5 DEF OneValueDelivered
  <2>5. Hidden' /\ DeadHasValue' /\ Ended' /\ StartedOnce'
    BY <1>2, <1>3, <2>1 DEF Hidden, DeadHasValue, Ended, StartedOnce
  <2> QED BY <2>2, <2>3, <2>4, <2>5 DEF IInv
<1> QED BY <1>4, <1>5

\* resume() leaves one value.
LEMMA ResumeStep == ASSUME IInv, Resume PROVE IInv'
<1>1. PICK o \in Outcomes : CanResume /\ Finish(o, Fixed(After(o), Code(o)), -1, 1, FALSE)
  BY DEF Resume
<1> DEFINE final == Fixed(After(o), Code(o))
<1>2. /\ o.values \in Seq(Slots)
      /\ o.end \in {"return", "yield", "raise", "refused", "unreachable"}
      /\ o.end \in {"raise", "refused"} => Len(o.values) = 1
  BY OutcomeShape DEF IInv
<1>3. /\ After(o) \in Seq(Slots) /\ Len(After(o)) <= MaxStack + MaxValues + 2
      /\ o.end = "return" => Len(After(o)) <= MaxStack + MaxValues + 1
      /\ o.end \in {"yield", "unreachable"} => After(o) = o.values
      /\ o.end = "raise" => /\ Len(After(o)) = 2
                            /\ After(o)[1] = o.values[1] /\ After(o)[2] = o.values[1]
      /\ o.end = "refused" => Len(After(o)) >= 2
  BY <1>1, AfterShape DEF IInv, CanResume
<1>4. CASE o.end = "return"
  <2>1. final = Append(After(o), Nil) /\ Nil \in Slots
    BY <1>4 DEF Fixed, Code, Slots
  <2>2. final \in Seq(Slots) /\ Len(final) = Len(After(o)) + 1 /\ Last(final) = Nil
    BY <1>3, <2>1 DEF Last
  <2>3. HasIndex(final, -1)
    BY <1>3, <2>2 DEF HasIndex
  <2>4. Finish(o, final, -1, 1, FALSE) /\ CanResume
    BY <1>1
  <2>5. Len(final) <= MaxStack + MaxValues + 2
    BY <1>3, <1>4, <2>2, BoundsAssumption
  <2> HIDE DEF final
  <2>6. 1 \in 0..2 /\ -1 \in -2..0 /\ -1 < 0 /\ 1 > 0
    OBVIOUS
  <2> QED BY <1>4, <2>2, <2>3, <2>4, <2>5, <2>6, FinishKeeps
<1>5. CASE o.end # "return"
  <2>1. Code(o) = (IF o.end = "yield" THEN 1 ELSE 2)
    BY <1>2, <1>5 DEF Code
  <2>2. final = SubSeq(After(o), 1, Len(After(o)) - (Code(o) - 1))
    BY <2>1 DEF Fixed, Pop
  <2>3. /\ final \in Seq(Slots) /\ Len(final) <= Len(After(o))
        /\ o.end = "yield" => final = o.values
        /\ o.end \in {"raise", "refused"} =>
              Len(final) = Len(After(o)) - 1 /\ final[1] = After(o)[1]
    BY <1>2, <1>3, <2>1, <2>2
  <2>4. HasIndex(final, -1) <=> final # <<>>
    BY <2>3 DEF HasIndex
  <2>5. o.end \in {"yield", "raise"} /\ Len(o.values) = 1 =>
            HasIndex(final, -1) /\ Index(final, -1) = o.values[1]
    BY <1>2, <1>3, <2>3 DEF HasIndex, Index
  <2>6. o.end \in {"raise", "refused"} => final # <<>>
    BY <1>3, <2>3
  <2>7. ~HasIndex(final, -1) => o.end = "unreachable" \/ (o.end = "yield" /\ o.values = <<>>)
    BY <1>2, <1>5, <2>3, <2>4, <2>6, <1>3
  <2>8. Finish(o, final, -1, 1, FALSE) /\ CanResume
    BY <1>1
  <2>9. Len(final) <= MaxStack + MaxValues + 2
    BY <1>3, <2>3, BoundsAssumption
  <2> HIDE DEF final
  <2>10. 1 \in 0..2 /\ -1 \in -2..0 /\ -1 < 0 /\ 1 > 0
    OBVIOUS
  <2> QED BY <1>5, <2>3, <2>5, <2>6, <2>7, <2>8, <2>9, <2>10, FinishKeeps
<1> QED BY <1>4, <1>5

\* resume_v() leaves everything.
LEMMA ResumeVStep == ASSUME IInv, ResumeV PROVE IInv'
<1>1. PICK o \in Outcomes : CanResume /\
          Finish(o, After(o), -Code(o), Code(o), o.end = "return" /\ After(o) # <<>>)
  BY DEF ResumeV
<1>2. /\ o.values \in Seq(Slots)
      /\ o.end \in {"return", "yield", "raise", "refused", "unreachable"}
      /\ o.end \in {"raise", "refused"} => Len(o.values) = 1
  BY OutcomeShape DEF IInv
<1>3. /\ After(o) \in Seq(Slots) /\ Len(After(o)) <= MaxStack + MaxValues + 2
      /\ o.end = "return" => Len(After(o)) <= MaxStack + MaxValues + 1
      /\ o.end \in {"yield", "unreachable"} => After(o) = o.values
      /\ o.end = "raise" => /\ Len(After(o)) = 2
                            /\ After(o)[1] = o.values[1] /\ After(o)[2] = o.values[1]
      /\ o.end = "refused" => Len(After(o)) >= 2
  BY <1>1, AfterShape DEF IInv, CanResume
<1>4. /\ Code(o) \in 0..2
      /\ o.end = "return" <=> Code(o) = 0
      /\ o.end = "yield" <=> Code(o) = 1
  BY <1>2 DEF Code
<1>5. Code(o) > 0 /\ ~HasIndex(After(o), -Code(o)) =>
          o.end = "unreachable" \/ (o.end = "yield" /\ o.values = <<>>)
  BY <1>2, <1>3, <1>4 DEF HasIndex
<1>6. o.end \in {"yield", "raise"} /\ Len(o.values) = 1 =>
          /\ Code(o) > 0 /\ HasIndex(After(o), -Code(o))
          /\ Index(After(o), -Code(o)) = o.values[1]
  <2>1. o.end = "yield" => Code(o) = 1 /\ -Code(o) = -1
    BY <1>4
  <2>2. o.end = "raise" => Code(o) = 2 /\ -Code(o) = -2
    BY <1>4
  <2> QED BY <1>2, <1>3, <2>1, <2>2 DEF HasIndex, Index
<1>7. o.end \in {"raise", "refused"} => After(o) # <<>>
  BY <1>3
<1>8. /\ -Code(o) \in -2..0 /\ (Code(o) > 0 => -Code(o) < 0)
      /\ Len(After(o)) <= MaxStack + MaxValues + 2
      /\ (o.end = "return" /\ After(o) # <<>>) \in BOOLEAN
      /\ o.end = "return" => (o.end = "return" /\ After(o) # <<>>) \/ After(o) = <<>>
  BY <1>3, <1>4, BoundsAssumption
<1>9. After(o) \in Seq(Slots) /\ Code(o) \in 0..2
  BY <1>3, <1>4
<1> QED BY <1>1, <1>5, <1>6, <1>7, <1>8, <1>9, FinishKeeps

----------------------------------------------------------------------------
(* The theorems. *)

\* The inductive invariant: what an outcome leaves for the next resume.
THEOREM Invariance == Spec => []IInv
<1>1. Init => IInv
  <2> SUFFICES ASSUME Init PROVE IInv
    OBVIOUS
  <2>1. PICK f \in Callable : stack = <<f>>
    BY DEF Init
  <2>2. f \in Slots
    BY ValuesAssumption DEF Slots
  <2>3. stack \in Seq(Slots) /\ Len(stack) = 1
    BY <2>1, <2>2
  <2>4. <<>> \in Seq(Slots)
    OBVIOUS
  <2>5. last.end \in Ends /\ last.sent = <<>> /\ last.got = <<>>
    BY DEF Init, Ends
  <2>6. TypeOK
    <3>1. /\ status = "ready" /\ hidden = <<>> /\ runs = 0
          /\ left = FALSE /\ undefined = FALSE
      BY DEF Init
    <3>2. hidden \in Seq(Slots) /\ last.sent \in Seq(Slots) /\ last.got \in Seq(Slots)
      BY <2>4, <2>5, <3>1, Zenon
    <3>3. runs \in 0..MaxRuns /\ Len(stack) <= MaxStack + MaxValues + 2
      BY <2>3, <3>1, BoundsAssumption
    <3> QED BY <2>3, <2>5, <3>1, <3>2, <3>3, Zenon DEF TypeOK
  <2> QED BY <2>6, BoundsAssumption
          DEF Init, IInv, Hidden, DeadHasValue, Ended, StartedOnce,
              UndefinedOnlyWhenEmpty, OneValueDelivered
<1>2. IInv /\ [Next]_vars => IInv'
  <2> SUFFICES ASSUME IInv, [Next]_vars PROVE IInv'
    OBVIOUS
  <2>1. CASE UNCHANGED vars
    BY <2>1 DEF vars, IInv, TypeOK, Hidden, DeadHasValue, Ended, StartedOnce,
        UndefinedOnlyWhenEmpty, OneValueDelivered
  <2> QED BY <2>1, ResumeStep, ResumeVStep DEF Next
<1> QED BY <1>1, <1>2, PTL DEF Spec

\* The stack of a coroutine and what a resume returned keep their types, for any bounds.
THEOREM TypeCorrect == Spec => []TypeOK
<1>1. IInv => TypeOK
  BY DEF IInv
<1> QED BY <1>1, Invariance, PTL

\* A yielded or raised value is the one that a resume hands over, whatever the
\* resumes before it left.
THEOREM ValueDelivered == Spec => []OneValueDelivered
<1>1. IInv => OneValueDelivered
  BY DEF IInv
<1> QED BY <1>1, Invariance, PTL

\* The function of a coroutine runs once, until resume_v leaves its results.
THEOREM FunctionStartsOnce == Spec => []StartedOnce
<1>1. IInv => StartedOnce
  BY DEF IInv
<1> QED BY <1>1, Invariance, PTL

\* Only an empty yield, or a terminate() that returns, makes a wrapper read an
\* index that is not there.
THEOREM UndefinedIsEmpty == Spec => []UndefinedOnlyWhenEmpty
<1>1. IInv => UndefinedOnlyWhenEmpty
  BY DEF IInv
<1> QED BY <1>1, Invariance, PTL
=============================================================================
