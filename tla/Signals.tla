------------------------------ MODULE Signals ------------------------------
(***************************************************************************)
(* One RBXScriptSignal of src/userdata/events.cpp with its connections,    *)
(* used by several LuauStates.  connected_functions maps a state to the    *)
(* pairs (desync, function) connected in it, in the order of connection;   *)
(* Godot's HashMap keeps its keys in insertion order.                      *)
(*                                                                         *)
(* What runs is a stack: code of a state, or a FireNow between two of its  *)
(* handlers.  Code may call any operation, so handlers connect, disconnect *)
(* and fire in the middle of a fire.  One thread; what the guards do when  *)
(* there are several is in Arc.                                            *)
(*                                                                         *)
(* The scheduler is external: spawn runs a function at once, until it      *)
(* returns or waits, and resumes a thread only if it is suspended; defer   *)
(* appends to the queue of the state (threads_pending, scheduler.hpp).     *)
(*                                                                         *)
(* A few lines stop most of this code.  repaired names those taken to be   *)
(* mended, so that the rest can be studied; {} is the code as it is.       *)
(*   "count": get_args_count() is 0 (context.hpp 683-693), so expect_argn  *)
(*            raises in every function that is called from Luau;           *)
(*   "wrapper": the functions that Once and Wait connect call Disconnect   *)
(*            without the connection (method_call, object.hpp:308), whose  *)
(*            expect_argn raises before anything is spawned; and Wait keeps*)
(*            the coroutine as a light userdata (events.cpp:70), of which  *)
(*            LuaThread makes a NIL (thread.hpp 28-32).                    *)
(***************************************************************************)
EXTENDS Naturals, FiniteSets, SequencesExt

CONSTANTS
    States,         \* LuauStates
    Functions,      \* functions that programs connect
    Repairs,        \* the values of repaired
    MaxConns, MaxThreads, MaxFires, MaxDepth    \* bounds

ASSUME SignalAssumption ==
    /\ Repairs \subseteq SUBSET {"count", "wrapper"}
    /\ MaxConns \in Nat /\ MaxThreads \in Nat /\ MaxFires \in Nat
    /\ MaxDepth \in Nat \ {0}

VARIABLES
    order,      \* the keys of connected_functions, as inserted
    connected,  \* connected_functions
    conn,       \* the RBXScriptConnections made so far
    pending,    \* deferred calls of each state, synchronized or not
    stack,      \* what runs, innermost last
    threads,    \* the coroutines that ever waited
    repaired,
    fires,      \* history: how many fires there were
    overlapped, \* history: a fire began with calls of another one to come
    abandoned,  \* history: Wait was called from C++, where it cannot yield
    ran,        \* history: the connections whose wrapper ran
    repeated,   \* history: the wrapper of a connection ran twice
    stale       \* history: a thread was resumed from something else

history == <<fires, overlapped, abandoned, ran, repeated, stale>>
vars == <<order, connected, conn, pending, stack, threads, repaired, history>>

\* The function given to Connect, or the lambda that Once or Wait makes; of is
\* the connection in its upvalue 2, thread the coroutine in upvalue 1 of Wait.
Plain(f) == [kind |-> "plain", of |-> f, thread |-> 0]
OnceWrapper(c) == [kind |-> "once", of |-> c, thread |-> 0]
WaitWrapper(c, t) == [kind |-> "wait", of |-> c, thread |-> t]

Pair(desync, func) == [desync |-> desync, func |-> func]
\* A connection.  Its ref is NIL when it is not live; pair is what it connected.
Conn(s, pair) == [live |-> TRUE, state |-> s, pair |-> pair]
Live == {c \in DOMAIN conn : conn[c].live}
\* expect_argn lets a call with the right arguments through.
Counted == "count" \in repaired

Code(s, t) == [kind |-> "code", state |-> s, thread |-> t]
\* A FireNow: at counts the states it came to, j the handlers of the copy of
\* their vector it called; born (live connections at its begin) and given
\* (what it called) are history.
Firing == [kind |-> "fire", at |-> 0, copy |-> <<>>, j |-> 0,
           born |-> Live, given |-> {}]

Top == Last(stack)
InCode == stack # <<>> /\ Top.kind = "code"
CanFire == fires < MaxFires /\ (stack = <<>> \/ InCode)

Init ==
    /\ order = <<>>
    /\ connected = [s \in States |-> <<>>]
    /\ conn = <<>>
    /\ pending = [s \in States |-> [d \in BOOLEAN |-> <<>>]]
    /\ stack = <<>>
    /\ threads = <<>>
    /\ repaired \in Repairs
    /\ fires = 0
    /\ ran = {}
    /\ overlapped = FALSE /\ abandoned = FALSE /\ repeated = FALSE /\ stale = FALSE
----------------------------------------------------------------------------
(* Connecting. *)

\* The map gets a key when it is new, and keeps it for ever.
Keyed(s) == IF s \in ToSet(order) THEN order ELSE Append(order, s)

\* RBXScriptSignal::_connect.
ConnectPair(s, pair) ==
    /\ Len(conn) < MaxConns
    /\ order' = Keyed(s)
    /\ connected' = [connected EXCEPT ![s] = Append(@, pair)]
    /\ conn' = Append(conn, Conn(s, pair))

\* Connect of C++, lua_Connect (desync FALSE) and lua_ConnectParallel (TRUE);
\* the last two raise unless arguments are counted, the first never does.
Connect(f, desync) ==
    /\ InCode
    /\ ConnectPair(Top.state, Pair(desync, Plain(f)))
    /\ UNCHANGED <<pending, stack, threads, repaired, history>>

\* lua_Once; desync is what the state is at the call.
Once(desync) ==
    /\ InCode /\ Counted
    /\ ConnectPair(Top.state, Pair(desync, OnceWrapper(Len(conn) + 1)))
    /\ UNCHANGED <<pending, stack, threads, repaired, history>>

\* The running coroutine, which gets its number when it first waits.
Running == IF Top.thread = 0 THEN Len(threads) + 1 ELSE Top.thread
Becomes(status, c) ==
    /\ Running <= MaxThreads
    /\ threads' = IF Top.thread = 0 THEN Append(threads, [status |-> status, on |-> c])
                  ELSE [threads EXCEPT ![Top.thread] = [status |-> status, on |-> c]]

\* lua_Wait: the coroutine is connected and yields.
Wait(desync) ==
    LET c == Len(conn) + 1
    IN  /\ InCode /\ Counted
        /\ ConnectPair(Top.state, Pair(desync, WaitWrapper(c, Running)))
        /\ Becomes("suspended", c)
        /\ stack' = Front(stack)
        /\ UNCHANGED <<pending, repaired, history>>

\* Wait of C++ calls lua_Wait by lua_call, through which Luau does not yield: it
\* raises after the connection is made, and the coroutine goes on.
CppWait(desync) ==
    /\ InCode /\ Counted
    /\ ConnectPair(Top.state, Pair(desync, WaitWrapper(Len(conn) + 1, Running)))
    /\ Becomes("running", 0)
    /\ stack' = Append(Front(stack), [Top EXCEPT !.thread = Running])
    /\ abandoned' = TRUE
    /\ UNCHANGED <<pending, repaired, fires, overlapped, ran, repeated, stale>>
----------------------------------------------------------------------------
(* Disconnecting. *)

\* Fault: the most recent entry is taken to be the one.
EraseLast(seq, pair) == IF seq = <<>> THEN seq ELSE Front(seq)
\* Fault: a pair is not found.
EraseNone(seq, pair) == seq
\* erase of the vector removes the first equal pair.
Erase(seq, pair) == RemoveFirst(seq, pair)

\* Fault: the ref is not set to NIL.
DisconnectedAgain(c) ==
    /\ connected' = [connected EXCEPT ![conn[c].state] = Erase(@, conn[c].pair)]
    /\ UNCHANGED conn
\* lua_Disconnect after its arguments: nothing when the ref is NIL already.
Disconnected(c) ==
    IF conn[c].live
    THEN /\ connected' = [connected EXCEPT ![conn[c].state] = Erase(@, conn[c].pair)]
         /\ conn' = [conn EXCEPT ![c].live = FALSE]
    ELSE UNCHANGED <<connected, conn>>

\* Connection:Disconnect().  The connection of a Wait is known to its wrapper only.
Disconnect(c) ==
    /\ InCode /\ Counted
    /\ conn[c].pair.func.kind # "wait"
    /\ Disconnected(c)
    /\ UNCHANGED <<order, pending, stack, threads, repaired, history>>
----------------------------------------------------------------------------
(* Running handlers; base is the stack when the handler is over. *)

RunPlain(s, func, base) ==
    /\ func.kind = "plain"
    /\ stack' = Append(base, Code(s, 0))
    /\ UNCHANGED <<connected, conn, threads, ran, repeated, stale>>

\* The wrapper calls Disconnect without an argument, which raises.
WrapperRaises(s, func, base) ==
    /\ func.kind # "plain" /\ "wrapper" \notin repaired
    /\ stack' = base
    /\ UNCHANGED <<connected, conn, threads, ran, repeated, stale>>

\* Fault: it is left out.
WrapperStays(func) == UNCHANGED <<connected, conn>>
\* Its first statement is Disconnect.
WrapperDisconnects(func) == Disconnected(func.of)

WrapperRuns(func) ==
    /\ func.kind # "plain" /\ "wrapper" \in repaired
    /\ WrapperDisconnects(func)
    /\ ran' = ran \cup {func.of}
    /\ repeated' = (repeated \/ func.of \in ran)

\* The lambda of lua_Once then spawns the function.
RunOnce(s, func, base) ==
    /\ func.kind = "once"
    /\ WrapperRuns(func)
    /\ stack' = Append(base, Code(s, 0))
    /\ UNCHANGED <<threads, stale>>

\* The lambda of lua_Wait then spawns the thread in upvalue 1.
RunWait(s, func, base) ==
    LET t == func.thread
        suspended == threads[t].status = "suspended"
    IN  /\ func.kind = "wait"
        /\ WrapperRuns(func)
        /\ stack' = IF suspended THEN Append(base, Code(s, t)) ELSE base
        /\ threads' = IF suspended
                      THEN [threads EXCEPT ![t] = [status |-> "running", on |-> 0]]
                      ELSE threads
        /\ stale' = (stale \/ (suspended /\ threads[t].on # func.of))

Run(s, func, base) ==
    /\ \/ RunPlain(s, func, base)
       \/ WrapperRaises(s, func, base)
       \/ RunOnce(s, func, base)
       \/ RunWait(s, func, base)
    /\ UNCHANGED <<order, repaired, fires, overlapped, abandoned>>

\* The VM starts a script of a state.
StartScript(s) ==
    /\ stack = <<>>
    /\ stack' = <<Code(s, 0)>>
    /\ UNCHANGED <<order, connected, conn, pending, threads, repaired, history>>

\* Code returns, or raises an error.
Return ==
    /\ InCode
    /\ stack' = Front(stack)
    /\ threads' = IF Top.thread = 0 THEN threads
                  ELSE [threads EXCEPT ![Top.thread].status = "dead"]
    /\ UNCHANGED <<order, connected, conn, pending, repaired, history>>

\* The scheduler runs the next deferred call of a state.
RunDeferred(s, desync) ==
    /\ stack = <<>>
    /\ pending[s][desync] # <<>>
    /\ pending' = [pending EXCEPT ![s][desync] = Tail(@)]
    /\ Run(s, Head(pending[s][desync]), <<>>)
----------------------------------------------------------------------------
(* Firing. *)

\* Fault: auto &it, the vector itself.
IteratedLive(frame) == IF frame.at = 0 THEN <<>> ELSE connected[order[frame.at]]
\* auto it: the loop has a copy of the vector.
Iterated(frame) == frame.copy

Unfinished(frame) == frame.j < Len(Iterated(frame)) \/ frame.at < Len(order)
CallsToCome ==
    \/ \E s \in States, d \in BOOLEAN : pending[s][d] # <<>>
    \/ \E i \in DOMAIN stack : stack[i].kind = "fire" /\ Unfinished(stack[i])
Begin ==
    /\ CanFire
    /\ fires' = fires + 1
    /\ overlapped' = (overlapped \/ CallsToCome)
    /\ UNCHANGED <<order, connected, conn, threads, repaired, abandoned, ran, repeated, stale>>

\* The functions of the pairs with that flag, in the order of the pairs.
FunctionsOf(pairs, desync) ==
    LET those  == {i \in DOMAIN pairs : pairs[i].desync = desync}
        nth(n) == CHOOSE i \in those : Cardinality({k \in those : k <= i}) = n
    IN  [n \in 1..Cardinality(those) |-> pairs[nth(n)].func]

\* Fire(LuaTuple), and both templates, FireNow(Args...) too: defer every function.
Fire ==
    /\ Begin
    /\ pending' = [s \in States |-> [d \in BOOLEAN |->
                      pending[s][d] \o FunctionsOf(connected[s], d)]]
    /\ UNCHANGED stack

\* FireNow(LuaTuple), of which there is a loop step for each function.
FireNow ==
    /\ Begin
    /\ Len(stack) + 2 <= MaxDepth
    /\ stack' = Append(stack, Firing)
    /\ UNCHANGED pending

FireCall ==
    LET pair == Iterated(Top)[Top.j + 1]
        rest == [Top EXCEPT !.j = @ + 1, !.given = @ \cup {<<Top.at, Top.j, pair>>}]
    IN  /\ Top.j < Len(Iterated(Top))
        /\ Run(order[Top.at], pair.func, Append(Front(stack), rest))
        /\ UNCHANGED pending

FireState ==
    /\ Top.j >= Len(Iterated(Top)) /\ Top.at < Len(order)
    /\ stack' = Append(Front(stack), [Top EXCEPT !.at = @ + 1, !.j = 0,
                                        !.copy = connected[order[Top.at + 1]]])
    /\ UNCHANGED <<order, connected, conn, pending, threads, repaired, history>>

FireEnd ==
    /\ Top.j >= Len(Iterated(Top)) /\ Top.at = Len(order)
    /\ stack' = Front(stack)
    /\ UNCHANGED <<order, connected, conn, pending, threads, repaired, history>>

ContinueFire == stack # <<>> /\ Top.kind = "fire" /\ (FireCall \/ FireState \/ FireEnd)

Next ==
    \/ \E s \in States : StartScript(s)
    \/ \E s \in States, d \in BOOLEAN : RunDeferred(s, d)
    \/ \E f \in Functions, d \in BOOLEAN : Connect(f, d)
    \/ \E d \in BOOLEAN : Once(d) \/ Wait(d) \/ CppWait(d)
    \/ \E c \in DOMAIN conn : Disconnect(c)
    \/ Return
    \/ Fire
    \/ FireNow
    \/ ContinueFire

Spec == Init /\ [][Next]_vars
----------------------------------------------------------------------------
(* Properties. *)

Entries == [desync : BOOLEAN, func : {Plain(f) : f \in Functions}
    \cup {OnceWrapper(c) : c \in 1..MaxConns}
    \cup {WaitWrapper(c, t) : c \in 1..MaxConns, t \in 1..MaxThreads}]

\* The type of every variable; a fire never comes to more states or functions
\* than there are.
TypeOK ==
    /\ ToSet(order) \subseteq States /\ Len(order) = Cardinality(ToSet(order))
    /\ \A s \in States : ToSet(connected[s]) \subseteq Entries
    /\ \A c \in DOMAIN conn : conn[c] \in [live : BOOLEAN, state : States, pair : Entries]
    /\ \A s \in States, d \in BOOLEAN :
          \A i \in DOMAIN pending[s][d] : Pair(d, pending[s][d][i]) \in Entries
    /\ \A i \in DOMAIN stack :
          \/ stack[i] \in [kind : {"code"}, state : States, thread : 0..Len(threads)]
          \/ stack[i].kind = "fire" /\ stack[i].at <= Len(order)
                                    /\ stack[i].j <= Len(stack[i].copy)
    /\ Len(stack) <= MaxDepth /\ Len(threads) <= MaxThreads /\ fires <= MaxFires
    /\ \A t \in DOMAIN threads : threads[t] \in
          [status : {"suspended", "running", "dead"}, on : 0..Len(conn)]

Occurrences(seq, e) == Cardinality({i \in DOMAIN seq : seq[i] = e})
Made(conns, s, pair) == {c \in conns : conn[c].state = s /\ conn[c].pair = pair}

\* A pair is in the vector of a state as often as there are connections that
\* connected it there and have a ref.  Disconnect (events.cpp 5-15) erases a
\* pair that only equals its own, also for a function that is connected twice.
EntriesAreConnections ==
    \A s \in States : \A pair \in ToSet(connected[s]) \cup {conn[c].pair : c \in DOMAIN conn} :
        Occurrences(connected[s], pair) = Cardinality(Made(Live, s, pair))

\* When FireNow is through (events.cpp 106-113), it called every function that
\* was connected from its begin on, and none more often than it was connected,
\* whatever its handlers connected, disconnected and fired meanwhile.
FireReachesAll ==
    \A i \in DOMAIN stack : (stack[i].kind = "fire" /\ ~Unfinished(stack[i])) =>
        \A c \in DOMAIN conn :
            LET s == conn[c].state
                pair == conn[c].pair
                calls == Cardinality({g \in stack[i].given : order[g[1]] = s /\ g[3] = pair})
            IN  /\ calls >= Cardinality(Made(stack[i].born \cap Live, s, pair))
                /\ calls <= Cardinality(Made(DOMAIN conn, s, pair))

\* The function of Once is spawned once (events.cpp 76-95), unless a fire began
\* while calls of an earlier one were to come.
OnceSpawnsOnce == repeated => overlapped

\* A thread is resumed by the wrapper of the Wait it is suspended in
\* (events.cpp 57-74), unless fires overlapped or Wait was called from C++.
ResumedForItsWait == stale => overlapped \/ abandoned

\* A thread that is suspended in Wait still has its pair in the vector of its
\* state: no disconnect of another connection, no nested and no stale resume
\* takes it away, so that the next fire finds it (events.cpp 5-15, 57-74).
NoLostWaiter ==
    \A t \in DOMAIN threads : threads[t].status = "suspended" =>
        LET c == threads[t].on
        IN  c \in Live /\ Contains(connected[conn[c].state], conn[c].pair)

\* The calls of a pair in a state that are to come.
ToCome(s, pair) ==
    Occurrences(pending[s][pair.desync], pair.func)
    + Cardinality({p \in (DOMAIN stack) \X (1..MaxConns) :
        LET f == stack[p[1]]
        IN  /\ f.kind = "fire" /\ f.at > 0 /\ order[f.at] = s
            /\ p[2] > f.j /\ p[2] <= Len(f.copy) /\ f.copy[p[2]] = pair})

\* A function that is no longer connected gets no further calls from a fire: only
\* those that were deferred or copied when it was (events.cpp 97-113).
NoLateCall ==
    [][\A s \in States : \A pair \in {conn[c].pair : c \in DOMAIN conn} :
          Made(Live, s, pair) = {} => ToCome(s, pair)' <= ToCome(s, pair)]_vars
=============================================================================
