------------------------------- MODULE Values -------------------------------
(***************************************************************************)
(* The value classes that own heap blocks: LuaString (core/string.hpp),    *)
(* LuaBuffer (core/buffer.hpp), LuaFunction with the strings it holds      *)
(* (core/function.hpp), and LuaObjectHeader, the counted box of a buffer   *)
(* or function (core/object_header.hpp).  One thread constructs, copies,   *)
(* assigns, converts, reads, writes and destroys a few variables of them.  *)
(*                                                                         *)
(* Of the bytes of a block one is kept, the one after the last that        *)
(* counts: there a C string ends, and the spare bytes of a buffer begin.   *)
(* odd is a ghost, the set of what happened that the classes do not        *)
(* survive; a build with DEV_ENABLED is one that never has "assert" in it. *)
(***************************************************************************)
EXTENDS Integers, FiniteSets, Functions

CONSTANTS
    Vars,       \* variables of any of the classes
    Blocks,     \* heap blocks, used again after they were freed
    Null, Junk, \* pointers: nullptr; uninitialised, or to a freed block
    MaxLen,     \* bound of the lengths
    MaxCount,   \* bound of the references to one header
    Offsets, Counts,    \* the arguments of the buffer operations
    SizeMod     \* 2^64: size_t, and so int64_t - size_t, count modulo it

Parts == {1, 2}             \* the strings a value may hold
Places == Vars \X Parts
SpareShort == 4             \* fault: room for four bytes
Spare == 8                  \* what a buffer allocates beyond its size
Widths == {1, 2, 4, 8}

ASSUME PointerAssumption == Null \notin Blocks /\ Junk \notin Blocks /\ Null # Junk
ASSUME BoundAssumption ==
    /\ MaxLen \in Nat /\ MaxCount \in Nat \ {0} /\ SizeMod \in Nat
    /\ Offsets \subseteq Nat /\ Counts \subseteq Nat
    /\ \A n \in Offsets \cup Counts : n + MaxLen + Spare < SizeMod

VARIABLES
    class,      \* class[v]: what v is, "none": not constructed
    ptr, len,   \* s and l of the i-th string of v at <<v, i>>, data and size of a buffer
    count,      \* count[v]: the references to a header
    block,      \* block[b]: "free", or the byte after what counts of b: "nul" or "any"
    odd, undefined

vars == <<class, ptr, len, count, block, odd, undefined>>

Oddities == {"string=", "buffer=", "self", "header", "default", "assert", "past end", "spare",
             "open", "godot", "null", "unended"}
TypeOK ==
    /\ class \in [Vars -> {"none", "string", "buffer", "cfunc", "lfunc", "header"}]
    /\ ptr \in [Places -> Blocks \cup {Null, Junk}]
    /\ len \in [Places -> 0..MaxLen]
    /\ count \in [Vars -> 0..MaxCount]
    /\ block \in [Blocks -> {"free", "nul", "any"}]
    /\ odd \in SUBSET Oddities
    /\ undefined \in BOOLEAN

Init ==
    /\ class = [v \in Vars |-> "none"]
    /\ ptr = [p \in Places |-> Null]
    /\ len = [p \in Places |-> 0]
    /\ count = [v \in Vars |-> 0]
    /\ block = [b \in Blocks |-> "free"]
    /\ odd = {} /\ undefined = FALSE

----------------------------------------------------------------------------
(* Blocks. *)

Note(what) == odd' = odd \cup what
Undefined(what) ==
    undefined' = TRUE /\ Note(what) /\ UNCHANGED <<class, ptr, len, count, block>>

\* A block with n bytes that count, and what follows them.
Bytes(n, end) == [len |-> n, end |-> end]

\* v becomes a value of class c with a new block for each element of made, a
\* function on parts, after the blocks of freed went back.
Build(v, c, made, freed) ==
    \E f \in Injection(DOMAIN made, {b \in Blocks : block[b] = "free" \/ b \in freed}) :
        /\ class' = [class EXCEPT ![v] = c]
        /\ ptr' = [p \in Places |->
              IF p[1] = v THEN (IF p[2] \in DOMAIN made THEN f[p[2]] ELSE Null)
              ELSE IF ptr[p] \in freed THEN Junk ELSE ptr[p]]
        /\ len' = [p \in Places |->
              IF p[1] = v THEN (IF p[2] \in DOMAIN made THEN made[p[2]].len ELSE 0) ELSE len[p]]
        /\ count' = [count EXCEPT ![v] = IF c = "header" THEN 1 ELSE 0]
        /\ block' = [b \in Blocks |->
              IF \E i \in DOMAIN made : f[i] = b
              THEN made[CHOOSE i \in DOMAIN made : f[i] = b].end
              ELSE IF b \in freed THEN "free" ELSE block[b]]
        /\ UNCHANGED undefined

PartsOf(v) == CASE class[v] = "none" -> {} [] class[v] \in {"lfunc", "header"} -> Parts [] OTHER -> {1}
Held(v) == {ptr[<<v, i>>] : i \in PartsOf(v)} \ {Null}

\* Fault: a copy takes l bytes.
CopiedBare(p) == Bytes(len[p], "any")

\* Copies of strings take l + 1 bytes, so what follows the text comes along; a
\* null pointer makes an empty one.
Readable(v) == Held(v) \subseteq Blocks
Copied(p) == Bytes(len[p], IF ptr[p] = Null THEN "nul" ELSE block[ptr[p]])
Copy(v) == [i \in PartsOf(v) |-> Copied(<<v, i>>)]

IsA(v, c) == ~undefined /\ class[v] = c
Free(v) == IsA(v, "none")
Size(v) == len[<<v, 1>>]
Data(v) == ptr[<<v, 1>>]

----------------------------------------------------------------------------
(* LuaString *)

\* LuaString(const char*), LuaString(const char*, size_t) of a text with its NUL;
\* the default one is null.
NewString(v, n) == Free(v) /\ Build(v, "string", <<Bytes(n, "nul")>>, {}) /\ UNCHANGED odd
DefaultString(v) == Free(v) /\ Build(v, "string", <<>>, {}) /\ UNCHANGED odd
\* LuaString(int) leaves the bytes as they are.
OpenString(v, n) == Free(v) /\ Build(v, "string", <<Bytes(n, "any")>>, {}) /\ Note({"open"})

\* The same two of nullptr: one asks strlen before it asks for null, the other
\* sets the first byte only.
StringOfNull(v) == Free(v) /\ Undefined({"null"})
BytesOfNull(v, n) ==
    /\ Free(v)
    /\ \/ n = 0 /\ Build(v, "string", <<Bytes(0, "nul")>>, {}) /\ UNCHANGED odd
       \/ n > 0 /\ Build(v, "string", <<Bytes(n, "any")>>, {}) /\ Note({"open"})

\* LuaString(godot::String): n is size() of the CharString, which counts the
\* terminator and is 0 for a null pointer.  One byte more is copied, which is
\* outside the block: the copy has any byte there, if there is a copy at all.
StringOfGodot(v, n) ==
    /\ Free(v)
    /\ \/ n = 0 /\ Build(v, "string", <<Bytes(0, "nul")>>, {}) /\ UNCHANGED odd
       \/ n > 0 /\ Build(v, "string", <<Bytes(n, "any")>>, {}) /\ Note({"godot"})
       \/ n > 0 /\ Undefined({"godot"})

\* == and != with a const char* hand s to strcmp, which reads up to a NUL: where
\* there is none it may leave the block.  With a NUL nothing changes.
CompareChars(v) ==
    /\ IsA(v, "string")
    /\ \/ Data(v) = Null /\ Undefined({"null"})
       \/ Data(v) = Junk /\ Undefined({})
       \/ Data(v) \in Blocks /\ block[Data(v)] # "nul" /\ Undefined({"unended"})

CopyString(v, w) ==
    /\ Free(v) /\ IsA(w, "string")
    /\ IF Readable(w) THEN Build(v, "string", Copy(w), {}) /\ UNCHANGED odd ELSE Undefined({})

\* v = w: the new block is there first, and is p_o.s too when w is v.
Assigned(v, w) == IF v = w THEN <<Bytes(Size(w), "any")>> ELSE Copy(w)
AssignString(v, w) ==
    /\ IsA(v, "string") /\ IsA(w, "string")
    /\ IF Readable(w)
       THEN /\ Build(v, "string", Assigned(v, w), {})
            /\ Note((IF Data(v) = Null THEN {} ELSE {"string="}) \cup (IF v = w THEN {"self"} ELSE {}))
       ELSE Undefined({})

\* operator+ copies both texts and no terminator.
Concat(v, w, x) ==
    /\ Free(v) /\ IsA(w, "string") /\ IsA(x, "string") /\ Size(w) + Size(x) <= MaxLen
    /\ IF Readable(w) /\ Readable(x)
       THEN Build(v, "string", <<Bytes(Size(w) + Size(x), "any")>>, {}) /\ Note({"open"})
       ELSE Undefined({})

----------------------------------------------------------------------------
(* LuaBuffer *)

NewBuffer(v, n) == Free(v) /\ Build(v, "buffer", <<Bytes(n, "nul")>>, {}) /\ UNCHANGED odd
DefaultBuffer(v) == Free(v) /\ Build(v, "buffer", <<>>, {}) /\ UNCHANGED odd

\* Fault: the constructor the compiler would write.
CopyBufferShallow(v, w) ==
    /\ Free(v) /\ IsA(w, "buffer")
    /\ class' = [class EXCEPT ![v] = "buffer"]
    /\ ptr' = [ptr EXCEPT ![<<v, 1>>] = Data(w)]
    /\ len' = [len EXCEPT ![<<v, 1>>] = Size(w)]
    /\ UNCHANGED <<count, block, odd, undefined>>

\* A copy takes size + Spare bytes, also from the null pointer of a default buffer.
FromNull(v) == IF class[v] = "buffer" /\ Data(v) = Null THEN {"default"} ELSE {}
CopyBuffer(v, w) ==
    /\ Free(v) /\ IsA(w, "buffer")
    /\ IF Data(w) \in Blocks THEN Build(v, "buffer", Copy(w), {}) /\ UNCHANGED odd
       ELSE Undefined(FromNull(w))

\* LuaBuffer(const LuaString&) and operator LuaString of a buffer.
BufferOfString(v, w) ==
    /\ Free(v) /\ IsA(w, "string")
    /\ IF Readable(w) THEN Build(v, "buffer", <<Bytes(Size(w), "nul")>>, {}) /\ UNCHANGED odd
       ELSE Undefined({})
StringOfBuffer(v, w) ==
    /\ Free(v) /\ IsA(w, "buffer")
    /\ IF Readable(w) THEN Build(v, "string", Copy(w), {}) /\ UNCHANGED odd ELSE Undefined({})

\* There is no operator=; the compiler's copies both fields.
AssignBuffer(v, w) ==
    /\ IsA(v, "buffer") /\ IsA(w, "buffer")
    /\ ptr' = [ptr EXCEPT ![<<v, 1>>] = Data(w)]
    /\ len' = [len EXCEPT ![<<v, 1>>] = Size(w)]
    /\ Note(IF v # w THEN {"buffer="} ELSE {})
    /\ UNCHANGED <<class, count, block, undefined>>

\* The n bytes of v from lo on, as memory has them.
Inside(v, lo, n) == n = 0 \/ (Data(v) \in Blocks /\ lo + n <= Size(v) + Spare)
Crosses(v, lo, n) == lo <= Size(v) /\ Size(v) < lo + n
ReadBytes(v, lo, n, what) ==
    IF Inside(v, lo, n)
    THEN Note(what) /\ UNCHANGED <<class, ptr, len, count, block, undefined>>
    ELSE Undefined(what)
WriteBytes(v, lo, n, what) ==
    IF Inside(v, lo, n)
    THEN /\ block' = IF Crosses(v, lo, n) THEN [block EXCEPT ![Data(v)] = "any"] ELSE block
         /\ Note(what \cup IF Crosses(v, lo, n) THEN {"spare"} ELSE {})
         /\ UNCHANGED <<class, ptr, len, count, undefined>>
    ELSE Undefined(what)

\* readi8 .. readf64, writei8 .. writef64, with DEV_ASSERT(p_offset < size).
Asserted(v, off) == IF off < Size(v) THEN {} ELSE {"assert"}
Read(v, off, w) == IsA(v, "buffer") /\ ReadBytes(v, off, w, Asserted(v, off))
Write(v, off, w) == IsA(v, "buffer") /\ WriteBytes(v, off, w, Asserted(v, off))

\* (int64_t)size - p_offset is a subtraction of size_t.
Left(v, off) == (Size(v) - off) % SizeMod
Least(a, b) == IF a < b THEN a ELSE b
Beyond(v, off) == IF off > Size(v) THEN {"past end"} ELSE {}

ReadString(v, w, off, n) ==
    /\ Free(v) /\ IsA(w, "buffer")
    /\ LET k == Least(n, Left(w, off))
       IN  \/ k = 0 /\ Build(v, "string", <<>>, {}) /\ UNCHANGED odd
           \/ k > 0 /\ ~Inside(w, off, k + 1) /\ Undefined(Beyond(w, off))
           \/ /\ k \in 1..MaxLen /\ Inside(w, off, k + 1)
              /\ Build(v, "string",
                       <<Bytes(k, IF off + k = Size(w) THEN block[Data(w)] ELSE "any")>>, {})
              /\ Note(Beyond(w, off) \cup IF off + k = Size(w) THEN {} ELSE {"open"})

\* writestring with a count, and its DEV_ASSERT(p_string.l >= p_count).
WriteString(v, off, s, n) ==
    /\ IsA(v, "buffer") /\ IsA(s, "string")
    /\ LET k    == Least(Least(n, Size(s)), Left(v, off))
           what == (IF n <= Size(s) THEN {} ELSE {"assert"}) \cup Beyond(v, off)
       IN  IF k > 0 /\ Data(s) \notin Blocks THEN Undefined(what)
           ELSE WriteBytes(v, off, k, IF k = 0 THEN {} ELSE what)

CopyBytes(v, to, w, from, n) ==
    /\ IsA(v, "buffer") /\ IsA(w, "buffer")
    /\ LET k    == Least(Least(Left(v, to), Left(w, from)), n)
           what == IF k = 0 THEN {} ELSE Beyond(v, to) \cup Beyond(w, from)
       IN  IF Inside(w, from, k) THEN WriteBytes(v, to, k, what) ELSE Undefined(what)

\* fill writes from the beginning, whatever its offset is.
Fill(v, off, n) ==
    /\ IsA(v, "buffer")
    /\ LET k == Least(n, Left(v, off))
       IN  WriteBytes(v, 0, k, IF k = 0 THEN {} ELSE Beyond(v, off))

----------------------------------------------------------------------------
(* LuaFunction, and the method table of a class. *)

\* LuaFunction() leaves cfunc_name as the memory was.
DefaultFunction(v) ==
    /\ Free(v)
    /\ \/ Build(v, "cfunc", <<>>, {}) /\ UNCHANGED odd
       \/ /\ class' = [class EXCEPT ![v] = "cfunc"]
          /\ ptr' = [ptr EXCEPT ![<<v, 1>>] = Junk]
          /\ Note({"default"})
          /\ UNCHANGED <<len, count, block, undefined>>
\* With a C function and its name; with bytecode and a chunk name.
NewCFunction(v, n) == Free(v) /\ Build(v, "cfunc", <<Bytes(n, "nul")>>, {}) /\ UNCHANGED odd
NewLFunction(v, n) ==
    Free(v) /\ Build(v, "lfunc", <<Bytes(n, "nul"), Bytes(n, "nul")>>, {}) /\ UNCHANGED odd

IsFunction(v) == ~undefined /\ class[v] \in {"cfunc", "lfunc"}
CopyFunction(v, w) ==
    /\ Free(v) /\ IsFunction(w)
    /\ IF Readable(w) THEN Build(v, class[w], Copy(w), {}) /\ UNCHANGED odd ELSE Undefined({})

\* Fault: no destructor before the copy.
AssignFunctionOver(v, w) ==
    IsFunction(v) /\ IsFunction(w) /\ Readable(w)
        /\ Build(v, class[w], Copy(w), {}) /\ UNCHANGED odd

\* v = w: ~LuaFunction(), and then a copy of w, which may be v.
AssignFunction(v, w) ==
    /\ IsFunction(v) /\ IsFunction(w)
    /\ IF Readable(v) /\ Readable(w) /\ (v = w => Held(v) = {})
       THEN Build(v, class[w], Copy(w), Held(v)) /\ UNCHANGED odd
       ELSE Undefined(IF v = w THEN {"self"} ELSE {})

\* methods[p_name] = LuaFunction(p_method, p_name): for a new name the map makes
\* and copies a default LuaFunction, which the assignment destroys.
RegisterMethod(v, n) ==
    \/ /\ Free(v)
       /\ \/ Build(v, "cfunc", <<Bytes(n, "nul")>>, {}) /\ UNCHANGED odd
          \/ Undefined({"default"})
    \/ /\ IsA(v, "cfunc")
       /\ IF Readable(v) THEN Build(v, "cfunc", <<Bytes(n, "nul")>>, Held(v)) /\ UNCHANGED odd
          ELSE Undefined({})

----------------------------------------------------------------------------
(* LuaObjectHeader, and the destructors. *)

\* The header of a copy of buffer or function w.
NewHeader(v, w) ==
    /\ Free(v) /\ (IsA(w, "buffer") \/ IsFunction(w))
    /\ IF Readable(w) /\ FromNull(w) = {} THEN Build(v, "header", Copy(w), {}) /\ UNCHANGED odd
       ELSE Undefined(FromNull(w))
Incref(v) ==
    /\ IsA(v, "header") /\ count[v] < MaxCount
    /\ count' = [count EXCEPT ![v] = @ + 1]
    /\ UNCHANGED <<class, ptr, len, block, odd, undefined>>

\* The switch of ~LuaObjectHeader, get_type and get_header_type has labels where
\* it needs cases: nothing is destroyed, and nothing is returned.
Decref(v) ==
    /\ IsA(v, "header")
    /\ IF count[v] = 1 THEN Build(v, "none", <<>>, {}) /\ Note({"header"})
       ELSE count' = [count EXCEPT ![v] = @ - 1] /\ UNCHANGED <<class, ptr, len, block, odd, undefined>>
GetType(v) == IsA(v, "header") /\ Undefined({"header"})

\* ~LuaString, ~LuaBuffer, ~LuaFunction.
Destroy(v) ==
    /\ ~undefined /\ class[v] \notin {"none", "header"}
    /\ IF Readable(v) THEN Build(v, "none", <<>>, Held(v)) /\ UNCHANGED odd ELSE Undefined({})

----------------------------------------------------------------------------
Next ==
    \/ \E v \in Vars :
        \/ \E n \in 0..MaxLen :
            \/ NewString(v, n) \/ OpenString(v, n) \/ BytesOfNull(v, n) \/ StringOfGodot(v, n)
            \/ NewBuffer(v, n)
            \/ NewCFunction(v, n) \/ NewLFunction(v, n) \/ RegisterMethod(v, n)
        \/ DefaultString(v) \/ StringOfNull(v) \/ CompareChars(v)
        \/ DefaultBuffer(v) \/ DefaultFunction(v)
        \/ Incref(v) \/ Decref(v) \/ GetType(v) \/ Destroy(v)
        \/ \E off \in Offsets, w \in Widths : Read(v, off, w) \/ Write(v, off, w)
        \/ \E off \in Offsets, n \in Counts : Fill(v, off, n)
    \/ \E v, w \in Vars :
        \/ CopyString(v, w) \/ AssignString(v, w) \/ CopyBuffer(v, w) \/ AssignBuffer(v, w)
        \/ BufferOfString(v, w) \/ StringOfBuffer(v, w)
        \/ CopyFunction(v, w) \/ AssignFunction(v, w) \/ NewHeader(v, w)
        \/ \E x \in Vars : Concat(v, w, x)
        \/ \E off \in Offsets, n \in Counts : ReadString(v, w, off, n) \/ WriteString(v, off, w, n)
        \/ \E to, from \in Offsets, n \in Counts : CopyBytes(v, to, w, from, n)
    \/ undefined /\ UNCHANGED vars

Spec == Init /\ [][Next]_vars

----------------------------------------------------------------------------
(* Properties. *)

\* A block has one owner and no value points to one that was freed, whatever
\* was copied, converted and assigned, unless a buffer was assigned.
OneOwner ==
    "buffer=" \notin odd => \A p, q \in Places :
        /\ ptr[p] \in Blocks => block[ptr[p]] # "free" /\ (ptr[q] = ptr[p] => q = p)
        /\ ptr[p] = Junk => "default" \in odd

\* A block that is in use belongs to a value that will free it: blocks are lost
\* only to two assignments and to headers (string.hpp 72, object_header.hpp 50).
NoLeak ==
    odd \cap {"string=", "buffer=", "header"} = {} =>
        \A b \in Blocks : block[b] # "free" => \E p \in Places : ptr[p] = b

\* What operator const char* hands to Lua ends with a NUL, if it came from C
\* strings and from buffers that nobody wrote past the end of; what came from a
\* string of Godot does not (string.hpp 26).
Terminated ==
    odd \cap {"self", "open", "godot", "spare", "buffer="} = {} =>
        \A v \in Vars : class[v] = "string" /\ Data(v) \in Blocks => block[Data(v)] = "nul"

\* Nothing is read or written outside a block, and nothing is freed twice, but
\* by these: the spare bytes take what an asserted access of any width has
\* beyond the end, and a clamped range with its offset in the buffer is inside.
\* Two of them need nothing but a constructor: any text of Godot (string.hpp 26)
\* and a null pointer (42, also 89 and 101 on a default string).
UndefinedOnlyWhenOdd ==
    undefined => odd \cap {"buffer=", "default", "self", "assert", "past end", "header",
                           "godot", "null", "unended"} # {}
============================================================================
