------------------------------ MODULE LuauCtx ------------------------------
(***************************************************************************)
(* LuauCtx and LuauFnCtx of src/core/context.hpp: C++ code that uses the   *)
(* stack of a lua_State.  One coroutine; its running C++ functions are the *)
(* frames, the last one is executing and the others wait in lua_call or    *)
(* lua_pcall.  A frame sees its own part of the stack.                     *)
(*                                                                         *)
(* Every LuauCtx object of a frame carries last_stack_size, and its        *)
(* destructor sets the stack to that size unless it is 0.  The destructors *)
(* also run after the results of a C function were pushed, and (when Luau  *)
(* raises with C++ exceptions) between lua_error and the pcall that        *)
(* catches it, where they resize the stack of the frame that raised.       *)
(*                                                                         *)
(* A frame also records what its C++ code believes is on its stack         *)
(* (locals); odd marks the frames for which one of these made it false:    *)
(*   - a function with upvalues: lua_pushcclosurek takes as many values    *)
(*     off the stack, and they are pushed only afterwards,                 *)
(*   - a fixed number of results other than one, when pcall fails with one *)
(*     error value on the stack,                                           *)
(*   - call_v, pcall_v, xpcall_v: their result count is uninitialized,     *)
(*   - the conversion to LuaThread, which leaves its value on the stack.   *)
(***************************************************************************)
EXTENDS Integers, SequencesExt

CONSTANTS
    MaxFrames, MaxLocals, MaxResults, MaxCtxs,  \* bounds
    Unwinds         \* subset of BOOLEAN: may a raise run the destructors it passes

ASSUME BoundsAssumption ==
    /\ MaxFrames \in Nat \ {0} /\ MaxLocals \in Nat \ {0}
    /\ MaxResults \in Nat /\ MaxCtxs \in Nat
    /\ Unwinds \subseteq BOOLEAN

VARIABLES
    frames,     \* the running C++ functions, outermost first
    last,       \* the last value handed over by a return or a raise
    status,     \* "running", "panic" (nobody catches) or "undefined"
    unwinds     \* Luau raises with C++ exceptions; FALSE: with longjmp

vars == <<frames, last, status, unwinds>>

\* Values are told apart by where they were made.
Nil == <<"nil", 0>>
Handler == <<"handler", 0>>
Message == <<"message", 0>>     \* a string raised by the code itself
Thread == <<"thread", 0>>
Some(what, n) == [i \in 1..n |-> <<what, i>>]
Slots == {Nil, Handler, Message, Thread}
    \cup {"arg", "local", "result", "error"} \X (1..MaxLocals + MaxResults)

Multi == -1                 \* LUA_MULTRET, and the _v operations
Modes == {"call", "pcall", "xpcall"}
Protected == {"pcall", "xpcall"}
\* What a waiting frame will do with the outcome of its callee.
Calls == [mode : Modes, nres : {Multi} \cup 0..MaxResults, errh : 0..MaxLocals + 1]
Running == [mode |-> "none", nres |-> 0, errh |-> 0]

\* A LuauCtx: its last_stack_size, the height of the stack it was made on, and
\* whether the copy constructor made it.
Ctx(size, made, copied) == [size |-> size, made |-> made, copied |-> copied]
\* Nothing is known of what an odd frame has on its stack.
Odd(f, odd) == IF odd THEN [f EXCEPT !.odd = TRUE, !.locals = <<>>] ELSE f
\* Fault: the context of a C function resizes the stack when it returns.
FrameResized(args) == [stack |-> args, locals |-> args,
                       ctxs |-> <<Ctx(Len(args), Len(args), FALSE)>>,
                       call |-> Running, odd |-> FALSE]
\* A function starts with its arguments and with its own LuauFnCtx.
Frame(args) == [stack |-> args, locals |-> args, ctxs |-> <<Ctx(0, Len(args), FALSE)>>,
                call |-> Running, odd |-> FALSE]
Nothing == [sent |-> <<>>, got |-> <<>>, sound |-> TRUE]

\* Every frame holds known values only and its contexts have possible heights.
TypeOK ==
    /\ \A i \in DOMAIN frames :
        /\ ToSet(frames[i].stack) \cup ToSet(frames[i].locals) \subseteq Slots
        /\ \A n \in DOMAIN frames[i].ctxs : frames[i].ctxs[n] \in [size : Nat, made : Nat, copied : BOOLEAN]
        /\ frames[i].call \in Calls \cup {Running}
        /\ frames[i].odd \in BOOLEAN
    /\ Len(frames) \in 1..MaxFrames
    /\ ToSet(last.sent) \cup ToSet(last.got) \subseteq Slots
    /\ status \in {"running", "panic", "undefined"}
    /\ unwinds \in Unwinds

Init ==
    /\ frames = <<Frame(<<>>)>>
    /\ last = Nothing
    /\ status = "running"
    /\ unwinds \in Unwinds

----------------------------------------------------------------------------
(* The stack. *)

Depth == Len(frames)
Top == frames[Depth]
Update(f) == frames' = [frames EXCEPT ![Depth] = f]
Fits == Len(Top.stack) < MaxLocals

\* lua_settop(L, n) with n >= 0.
SetTop(stack, n) == [i \in 1..n |-> IF i <= Len(stack) THEN stack[i] ELSE Nil]
\* ~LuauCtx().
Resize(stack, ctx) == IF ctx.size = 0 THEN stack ELSE SetTop(stack, ctx.size)
\* The contexts of one frame die, the last one first.
ResizeAll(stack, ctxs) ==
    LET left[n \in 0..Len(ctxs)] ==
            IF n = 0 THEN stack ELSE Resize(left[n - 1], ctxs[Len(ctxs) - n + 1])
    IN  left[Len(ctxs)]
\* Fault: lua_pop leaves one value.
BelowOne(stack, n) == IF n = 0 THEN stack ELSE SubSeq(stack, 1, Len(stack) - n + 1)
\* The n values on top, and what is left below them.
TopN(stack, n) == SubSeq(stack, Len(stack) - n + 1, Len(stack))
Below(stack, n) == SubSeq(stack, 1, Len(stack) - n)
\* Fault: missing results are not filled up.
AdjustUnpadded(results, nres) ==
    IF nres = Multi \/ Len(results) < nres THEN results ELSE SetTop(results, nres)
\* lua_call leaves exactly nres results.
Adjust(results, nres) == IF nres = Multi THEN results ELSE SetTop(results, nres)

\* What the contexts of the frames i..Depth leave of a stack, from the inside out.
Destroyed(i, stack) ==
    LET left[n \in 0..(Depth - i + 1)] ==
            IF n = 0 THEN stack ELSE ResizeAll(left[n - 1], frames[Depth - n + 1].ctxs)
    IN  left[Depth - i + 1]
\* A copy of a context is among them.
Copied(i) == \E k \in i..Depth : \E n \in DOMAIN frames[k].ctxs : frames[k].ctxs[n].copied

Undefined == status' = "undefined" /\ last' = Nothing /\ UNCHANGED frames
\* The step hands nothing over.
Quiet == last' = Nothing /\ UNCHANGED status

----------------------------------------------------------------------------
(* Locals and contexts of the executing frame. *)

\* make_local(value).
MakeLocal ==
    /\ Fits
    /\ LET v == <<"local", Len(Top.stack) + 1>>
       IN  Update([Top EXCEPT !.stack = Append(@, v),
                              !.locals = IF Top.odd THEN @ ELSE Append(@, v)])
    /\ Quiet

\* operator LuaThread(): make_local, pop, push the thread, and no pop.
AsThread ==
    /\ Fits
    /\ Update(Odd([Top EXCEPT !.stack = Append(@, Thread)], TRUE))
    /\ Quiet

\* LuauCtx(L) initialises last_stack_size from itself: it is 0.
NewCtx ==
    /\ Len(Top.ctxs) < MaxCtxs
    /\ Update([Top EXCEPT !.ctxs = Append(@, Ctx(0, Len(Top.stack), FALSE))])
    /\ Quiet

\* LuauCtx(const LuauCtx&) takes the real height.
CopyCtx ==
    /\ Len(Top.ctxs) < MaxCtxs
    /\ Update([Top EXCEPT !.ctxs = Append(@, Ctx(Len(Top.stack), Len(Top.stack), TRUE))])
    /\ Quiet

\* A context of an inner block dies; its locals die with it.
DropCtx ==
    /\ Len(Top.ctxs) > 1
    /\ Update([Top EXCEPT !.ctxs = Front(@),
                          !.stack = Resize(@, Last(Top.ctxs)),
                          !.locals = IF Top.odd THEN @ ELSE Resize(@, Last(Top.ctxs))])
    /\ Quiet

----------------------------------------------------------------------------
(* Outcomes of a callee. *)

\* The frame f takes n values from a stack that holds its results; a failed
\* operation then reads the first of them as the error.
Take(f, stack, n, ok) ==
    Odd([f EXCEPT !.stack = Below(stack, n), !.call = Running],
        f.odd \/ (~ok /\ n # 1) \/ f.call.nres = Multi)

\* Frame i goes on with the values its callee left: sent is what the callee
\* gave, sound says that nothing was in the way.
Complete(i, values, sent, ok, sound) ==
    LET f     == frames[i]
        above == f.stack \o values
        stack == IF f.call.mode = "xpcall" THEN RemoveAt(above, f.call.errh) ELSE above
    IN  \E n \in IF f.call.nres = Multi THEN 0..MaxLocals + MaxResults + 1 ELSE {f.call.nres} :
            IF \/ n > Len(stack) \/ (~ok /\ n = 0)
               \/ f.call.mode = "xpcall" /\ f.call.errh > Len(above)
            THEN Undefined
            ELSE /\ frames' = Append(SubSeq(frames, 1, i - 1), Take(f, stack, n, ok))
                 /\ last' = [sent |-> sent,
                             got |-> IF ok THEN TopN(stack, n) ELSE <<TopN(stack, n)[1]>>,
                             sound |-> sound /\ ~Take(f, stack, n, ok).odd]
                 /\ UNCHANGED status

\* return ctx.return_call(results): pushed, then the contexts die, then Lua
\* takes as many values from the top.
Return(results) ==
    /\ Depth > 1
    /\ LET stack == Destroyed(Depth, Top.stack \o results)
           nres  == frames[Depth - 1].call.nres
           k     == Len(results)
       IN  IF k > Len(stack) THEN Undefined
           ELSE Complete(Depth - 1, Adjust(TopN(stack, k), nres),
                         Adjust(results, nres), TRUE, ~Copied(Depth))

\* lua_error with v on top of a stack: the innermost protected call gets what
\* the destructors leave on top.  An error handler is taken to return it.
Raise(stack, v) ==
    LET catchers == {i \in 1..(Depth - 1) : frames[i].call.mode \in Protected}
    IN  IF catchers = {}
        THEN status' = "panic" /\ last' = Nothing /\ UNCHANGED frames
        ELSE LET c     == CHOOSE i \in catchers : \A j \in catchers : j <= i
                 final == IF unwinds THEN Destroyed(c + 1, Append(stack, v))
                          ELSE Append(stack, v)
             IN  Complete(c, <<Last(final)>>, <<v>>, FALSE, ~(unwinds /\ Copied(c + 1)))

----------------------------------------------------------------------------
(* Operations of the executing frame that call or raise. *)

\* call, pcall, xpcall and their variants: nres is 1, a fixed number or Multi;
\* the handler of xpcall has h upvalues and the function u, which are taken off the
\* stack; or the function is nil, which raises before lua_pcall.
Call(mode, nres, nilfn, h, u, n) ==
    /\ Depth < MaxFrames /\ Len(Top.stack) <= MaxLocals
    /\ mode # "xpcall" => h = 0
    /\ LET stack == IF mode = "xpcall" THEN Append(Below(Top.stack, h), Handler) ELSE Top.stack
           rest  == Below(stack, u)
       IN  IF h > Len(Top.stack) \/ (~nilfn /\ u > Len(stack))
           THEN status' = "undefined" /\ last' = Nothing /\ Update(Odd(Top, TRUE))
           ELSE IF nilfn THEN Raise(stack, Message)
           ELSE /\ frames' = Append(
                      [frames EXCEPT ![Depth] =
                          Odd([@ EXCEPT !.stack = rest,
                                        !.call = [mode |-> mode, nres |-> nres,
                                                  errh |-> IF mode = "xpcall" THEN Len(stack) ELSE 0]],
                              @.odd \/ h > 0 \/ u > 0)],
                      Frame(Some("arg", n)))
                /\ Quiet

\* error(v).
Error(v) == Raise(Top.stack, v)

\* expect_argn(n): the count is last_stack_size of the frame's LuauFnCtx, 0.
ArgsCount == Top.ctxs[1].size
ExpectArgn(n) ==
    IF ArgsCount # n THEN Raise(Top.stack, Message) ELSE UNCHANGED frames /\ Quiet

Next ==
    \/ /\ status = "running" /\ UNCHANGED unwinds
       /\ \/ MakeLocal \/ AsThread \/ NewCtx \/ CopyCtx \/ DropCtx
          \/ \E mode \in Modes, nres \in {Multi} \cup 0..MaxResults, nilfn \in BOOLEAN,
                h, u, n \in 0..1 : Call(mode, nres, nilfn, h, u, n)
          \/ \E n \in 0..MaxResults : Return(Some("result", n))
          \/ Error(<<"error", 1>>)
          \/ Depth > 1 /\ \E n \in 0..1 : ExpectArgn(n)
    \/ status # "running" /\ UNCHANGED vars

Spec == Init /\ [][Next]_vars

----------------------------------------------------------------------------
(* Properties. *)

\* A frame finds its locals where it left them, whatever it calls and however
\* deep an error is caught, unless one of the four oddities occurred in it.
LocalsIntact ==
    \A i \in DOMAIN frames : ~frames[i].odd =>
        frames[i].stack = frames[i].locals
            \o (IF frames[i].call.mode = "xpcall" THEN <<Handler>> ELSE <<>>)

\* What a function returns, or raises, is what its caller, or the protected
\* call that catches it, gets: unless a copied LuauCtx died in between, whose
\* destructor resizes the stack under the value.
ValuesDelivered == last.sound => last.got = last.sent

\* The stack underflows, and an error is read from an empty vector, only in a
\* frame with an oddity or in a protected call that asked for no results or
\* several.
UndefinedOnlyWhenOdd ==
    status = "undefined" =>
        \E i \in DOMAIN frames :
            \/ frames[i].odd \/ Copied(i)
            \/ frames[i].call.mode \in Protected /\ frames[i].call.nres # 1
            \/ frames[i].call.nres = Multi

============================================================================
