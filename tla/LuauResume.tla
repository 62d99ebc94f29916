----------------------------- MODULE LuauResume -----------------------------
(***************************************************************************)
(* resume, resume_v, yield, wait and terminate of LuauCtx                  *)
(* (src/core/context.hpp): C++ code that runs a coroutine through its      *)
(* lua_State, of which this module keeps what is visible of the stack.     *)
(*                                                                         *)
(* The wrappers take what lua_resume returns for the number of results; it *)
(* is a status, 0 when the function has ended, 1 when it yielded and 2     *)
(* when it raised.  They also leave on the stack what they have read, and  *)
(* on a stack whose function has ended lua_resume calls whatever value is  *)
(* found below the arguments.                                              *)
(*                                                                         *)
(* The virtual machine is not part of the repository: the operators of the *)
(* section "lua_resume" say what it does for these wrappers.               *)
(***************************************************************************)
EXTENDS Integers, SequencesExt

CONSTANTS
    Values,         \* what functions yield, return and raise
    Callable,       \* those of them that are functions
    MaxValues,      \* bound: values handed over at once
    MaxStack,       \* bound: values on the stack before a resume
    MaxRuns         \* bound: functions started in the coroutine

Nil == "nil"
Message == "message"        \* a string raised by the virtual machine or by wait

ASSUME ValuesAssumption == Callable \subseteq Values /\ {Nil, Message} \cap Values = {}
ASSUME BoundsAssumption == MaxValues \in Nat /\ MaxStack \in Nat /\ MaxRuns \in Nat

VARIABLES
    status,     \* "ready" (not started, or ended), "yielded", "dead"
    stack,      \* the visible part of the stack of the coroutine
    hidden,     \* what the running function has below it
    runs,       \* how often a function was started in the coroutine
    left,       \* resume_v found an ended function and left its results
    last,       \* the last resume: how it was called, what happened, and what it returned
    undefined

vars == <<status, stack, hidden, runs, left, last, undefined>>

Slots == Values \cup {Nil, Message}
Ends == {"none", "return", "yield", "raise", "refused", "unreachable"}
TypeOK ==
    /\ status \in {"ready", "yielded", "dead"}
    /\ stack \in Seq(Slots) /\ hidden \in Seq(Slots)
    /\ Len(stack) <= MaxStack + MaxValues + 2
    /\ runs \in 0..MaxRuns
    /\ left \in BOOLEAN /\ undefined \in BOOLEAN
    /\ last.end \in Ends /\ last.sent \in Seq(Slots) /\ last.got \in Seq(Slots)

\* A LuaThread with a function on its stack.
Init ==
    /\ status = "ready" /\ stack \in {<<f>> : f \in Callable} /\ hidden = <<>>
    /\ runs = 0 /\ left = FALSE
    /\ last = [end |-> "none", sent |-> <<>>, got |-> <<>>]
    /\ undefined = FALSE

----------------------------------------------------------------------------
(* What the functions of a coroutine do. *)

Outcome(end, values) == [end |-> end, values |-> values]

\* yield(...) pushes its values and returns lua_yield, which keeps them only.
Yield == {Outcome("yield", vs) : vs \in SeqOf(Values, MaxValues)}
\* wait() cannot yield inside its lua_call, which raises, unless lua_wait returns;
\* then LUA_YIELD, 1, is taken for the number of results.
Wait == {Outcome("raise", <<Message>>)} \cup {Outcome("return", <<v>>) : v \in Values}
\* terminate() comes back from its lua_call only by an error, or not lawfully.
Terminate == {Outcome("raise", <<Message>>), Outcome("unreachable", <<>>)}
ReturnOrRaise ==
    {Outcome("return", vs) : vs \in SeqOf(Values, MaxValues)} \cup
    {Outcome("raise", <<v>>) : v \in Values}

----------------------------------------------------------------------------
(* lua_resume *)

Runnable == status = "yielded" \/ (status = "ready" /\ stack # <<>> /\ Last(stack) \in Callable)

\* What is below the function that runs, or goes on.
Under == IF status = "yielded" THEN hidden ELSE IF stack = <<>> THEN <<>> ELSE Front(stack)

\* The outcomes: a coroutine that has raised refuses, with one message on top of
\* what is there; no value or one that is not a function cannot be called.
Outcomes ==
    IF status = "dead" THEN {Outcome("refused", <<Message>>)}
    ELSE IF Runnable THEN Yield \cup Wait \cup Terminate \cup ReturnOrRaise
    ELSE {Outcome("raise", <<Message>>)}

Code(o) == CASE o.end = "return" -> 0 [] o.end = "yield" -> 1 [] OTHER -> 2

\* The visible stack afterwards: results follow what is below the function, a
\* yield hides all but its values, an error value is found twice (on top of what
\* the function had, which no wrapper reads).
After(o) ==
    CASE o.end = "return" -> Under \o o.values
      [] o.end = "refused" -> Append(stack, Message)
      [] o.end = "raise" -> o.values \o o.values
      [] OTHER -> o.values

Resumed(o) ==
    /\ status' = CASE o.end = "return" -> "ready" [] o.end = "yield" -> "yielded" [] OTHER -> "dead"
    /\ hidden' = IF o.end = "yield" THEN Under ELSE <<>>
    /\ runs' = IF Runnable /\ status = "ready" THEN runs + 1 ELSE runs

----------------------------------------------------------------------------
(* The wrappers.  Their LuauCtx never resizes the stack of the coroutine. *)

HasIndex(s, i) == Len(s) + i >= 0
Index(s, i) == s[Len(s) + 1 + i]
Pop(s, n) == SubSeq(s, 1, Len(s) - n)

\* Faults: a nil also for one result; no nil; one pop too many.
FixedNil(s, nres) == IF nres > 1 THEN Pop(s, nres - 1) ELSE Append(s, Nil)
FixedBare(s, nres) == IF nres > 1 THEN Pop(s, nres - 1) ELSE s
FixedEmpty(s, nres) == IF nres = 0 THEN Append(s, Nil) ELSE Pop(s, nres)
\* resume() brings nres "results" to one.
Fixed(s, nres) == IF nres = 0 THEN Append(s, Nil) ELSE Pop(s, nres - 1)

\* The stack s that lua_resume left became final, and index i is read n times.
Finish(o, final, i, n, leaves) ==
    /\ IF o.end # "unreachable" /\ (n > 0 => HasIndex(final, i))
       THEN /\ Resumed(o) /\ stack' = final /\ UNCHANGED undefined
            /\ last' = [end |-> o.end, sent |-> o.values, got |-> [k \in 1..n |-> Index(final, i)]]
       ELSE /\ undefined' = TRUE /\ UNCHANGED <<status, stack, hidden, runs>>
            /\ last' = [end |-> o.end, sent |-> o.values, got |-> <<>>]
    /\ left' = (left \/ leaves)

CanResume == ~undefined /\ Len(stack) <= MaxStack /\ runs < MaxRuns
Resume ==
    CanResume /\ \E o \in Outcomes : Finish(o, Fixed(After(o), Code(o)), -1, 1, FALSE)
\* resume_v() reads index -nres once for each of nres "results".
ResumeV ==
    CanResume /\ \E o \in Outcomes :
        Finish(o, After(o), -Code(o), Code(o), o.end = "return" /\ After(o) # <<>>)

\* Nobody has to resume.
Next == Resume \/ ResumeV \/ UNCHANGED vars

Spec == Init /\ [][Next]_vars

----------------------------------------------------------------------------
(* Properties. *)

\* A coroutine that yields one value hands over that value, and an error comes
\* out as the error value, once or twice, whatever earlier resumes left behind.
OneValueDelivered ==
    last.end \in {"yield", "raise"} /\ Len(last.sent) = 1 => ToSet(last.got) = ToSet(last.sent)

\* The function of a coroutine is started once: only results that resume_v left
\* on the stack are called after it has ended (context.hpp 178-253).
StartedOnce == runs > 1 => left

\* No index is read that is not there, whatever was resumed before and how it
\* ended, but after a yield of no values, or when terminate() returns.
UndefinedOnlyWhenEmpty ==
    undefined => last.end = "unreachable" \/ (last.end = "yield" /\ last.sent = <<>>)
============================================================================
