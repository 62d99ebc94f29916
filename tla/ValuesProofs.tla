---------------------------- MODULE ValuesProofs ----------------------------
(***************************************************************************)
(* Theorems about Values for any number of variables, blocks and lengths.  *)
(* Nearly every operation is Build: it gives a value new blocks and gives  *)
(* others back.  BuildKeeps says what an operation owes Build so that      *)
(* blocks keep one owner, and is cited for each of them.                   *)
(***************************************************************************)
EXTENDS Values, TLAPS

Classes == {"none", "string", "buffer", "cfunc", "lfunc", "header"}

\* A value has no pointers but those of its class, nothing without a pointer, and
\* is referred to if it is a header.
Shape ==
    /\ \A v \in Vars : \A i \in Parts \ PartsOf(v) : ptr[<<v, i>>] = Null
    /\ \A p \in Places : ptr[p] = Null => len[p] = 0
    /\ \A v \in Vars : class[v] = "header" => count[v] > 0

\* Buffers too are followed by a zero, so that strings made of them are.
Ended ==
    odd \cap {"self", "open", "godot", "spare", "buffer="} = {} =>
        \A v \in Vars : class[v] \in {"string", "buffer"} /\ Data(v) \in Blocks
            => block[Data(v)] = "nul"

Bad == {"buffer=", "default", "self", "assert", "past end", "header", "godot", "null", "unended"}

IInv == TypeOK /\ Shape /\ OneOwner /\ NoLeak /\ Ended /\ UndefinedOnlyWhenOdd

----------------------------------------------------------------------------
(* What Build does. *)

\* New blocks that fit class c.
Fit(c, made) ==
    /\ DOMAIN made \subseteq Parts
    /\ c = "none" => DOMAIN made = {}
    /\ c \notin {"lfunc", "header"} => DOMAIN made \subseteq {1}
    /\ \A i \in DOMAIN made : made[i].len \in 0..MaxLen /\ made[i].end \in {"free", "nul", "any"}

\* v has new blocks as made says, which were free or have just been freed.
Rebuilt(v, made, freed) ==
    /\ \A i \in DOMAIN made :
        /\ ptr'[<<v, i>>] \in Blocks
        /\ block[ptr'[<<v, i>>]] = "free" \/ ptr'[<<v, i>>] \in freed
        /\ len'[<<v, i>>] = made[i].len
        /\ block'[ptr'[<<v, i>>]] = made[i].end
    /\ \A i, j \in DOMAIN made : ptr'[<<v, i>>] = ptr'[<<v, j>>] => i = j
    /\ \A i \in Parts \ DOMAIN made : ptr'[<<v, i>>] = Null /\ len'[<<v, i>>] = 0
    /\ \A p \in Places : p[1] # v =>
        /\ ptr'[p] = IF ptr[p] \in freed THEN Junk ELSE ptr[p]
        /\ len'[p] = len[p]
    /\ \A b \in Blocks : (\A i \in DOMAIN made : ptr'[<<v, i>>] # b)
                            => block'[b] = IF b \in freed THEN "free" ELSE block[b]

\* Build is such a change, and keeps the types.
LEMMA BuildRebuilds ==
    ASSUME TypeOK, NEW v \in Vars, NEW c \in Classes, NEW made, NEW freed,
           Fit(c, made), freed \subseteq Blocks, Build(v, c, made, freed)
    PROVE  /\ Rebuilt(v, made, freed)
           /\ class' = [class EXCEPT ![v] = c] /\ UNCHANGED undefined
           /\ class' \in [Vars -> Classes]
           /\ ptr' \in [Places -> Blocks \cup {Null, Junk}]
           /\ len' \in [Places -> 0..MaxLen]
           /\ count' \in [Vars -> 0..MaxCount]
           /\ count' = [count EXCEPT ![v] = IF c = "header" THEN 1 ELSE 0]
           /\ block' \in [Blocks -> {"free", "nul", "any"}]
<1>1. PICK f \in Injection(DOMAIN made, {b \in Blocks : block[b] = "free" \/ b \in freed}) :
        /\ ptr' = [p \in Places |->
              IF p[1] = v THEN (IF p[2] \in DOMAIN made THEN f[p[2]] ELSE Null)
              ELSE IF ptr[p] \in freed THEN Junk ELSE ptr[p]]
        /\ len' = [p \in Places |->
              IF p[1] = v THEN (IF p[2] \in DOMAIN made THEN made[p[2]].len ELSE 0) ELSE len[p]]
        /\ block' = [b \in Blocks |->
              IF \E i \in DOMAIN made : f[i] = b
              THEN made[CHOOSE i \in DOMAIN made : f[i] = b].end
              ELSE IF b \in freed THEN "free" ELSE block[b]]
  BY DEF Build
<1>2. /\ f \in [DOMAIN made -> {b \in Blocks : block[b] = "free" \/ b \in freed}]
      /\ \A i, j \in DOMAIN made : f[i] = f[j] => i = j
  BY DEF Injection, IsInjective
<1>3. \A i \in Parts : <<v, i>> \in Places /\ <<v, i>>[1] = v /\ <<v, i>>[2] = i
  BY DEF Places
<1>4. \A i \in DOMAIN made : ptr'[<<v, i>>] = f[i] /\ f[i] \in Blocks
  BY <1>1, <1>2, <1>3 DEF Fit
<1>5. \A i \in DOMAIN made : (CHOOSE j \in DOMAIN made : f[j] = f[i]) = i
  BY <1>2
<1>6. \A i \in DOMAIN made : block'[f[i]] = made[i].end
  BY <1>1, <1>4, <1>5
<1>7. \A b \in Blocks : (\A i \in DOMAIN made : f[i] # b)
          => block'[b] = IF b \in freed THEN "free" ELSE block[b]
  BY <1>1
<1>8. \A i \in DOMAIN made : len'[<<v, i>>] = made[i].len
  BY <1>1, <1>3 DEF Fit
<1>9. \A i \in Parts \ DOMAIN made : ptr'[<<v, i>>] = Null /\ len'[<<v, i>>] = 0
  BY <1>1, <1>3
<1>10. \A p \in Places : p[1] # v =>
        /\ ptr'[p] = IF ptr[p] \in freed THEN Junk ELSE ptr[p]
        /\ len'[p] = len[p]
  BY <1>1
<1>11. Rebuilt(v, made, freed)
  <2>1. \A i \in DOMAIN made : ptr'[<<v, i>>] \in Blocks
           /\ (block[ptr'[<<v, i>>]] = "free" \/ ptr'[<<v, i>>] \in freed)
           /\ block'[ptr'[<<v, i>>]] = made[i].end
    BY <1>2, <1>4, <1>6
  <2>2. \A i, j \in DOMAIN made : ptr'[<<v, i>>] = ptr'[<<v, j>>] => i = j
    BY <1>2, <1>4
  <2>3. \A b \in Blocks : (\A i \in DOMAIN made : ptr'[<<v, i>>] # b)
            => block'[b] = IF b \in freed THEN "free" ELSE block[b]
    BY <1>4, <1>7
  <2> QED BY <1>8, <1>9, <1>10, <2>1, <2>2, <2>3 DEF Rebuilt
<1>12. ptr' \in [Places -> Blocks \cup {Null, Junk}]
  BY <1>1, <1>2 DEF TypeOK
<1>13. len' \in [Places -> 0..MaxLen]
  <2>1. \A p \in Places : len'[p] \in 0..MaxLen
    BY <1>1, BoundAssumption DEF TypeOK, Fit
  <2> QED BY <1>1, <2>1
<1>14. block' \in [Blocks -> {"free", "nul", "any"}]
  <2>1. \A b \in Blocks : block'[b] \in {"free", "nul", "any"}
    BY <1>6, <1>7 DEF TypeOK, Fit
  <2> QED BY <1>1, <2>1
<1>15. count' \in [Vars -> 0..MaxCount]
       /\ count' = [count EXCEPT ![v] = IF c = "header" THEN 1 ELSE 0]
       /\ class' = [class EXCEPT ![v] = c]
       /\ class' \in [Vars -> Classes] /\ UNCHANGED undefined
  BY BoundAssumption DEF Build, TypeOK, Classes
<1> QED BY <1>11, <1>12, <1>13, <1>14, <1>15

----------------------------------------------------------------------------
(* What Build keeps. *)

\* The pointers of v are given back with it.
LEMMA HeldBlocks ==
    ASSUME NEW v \in Vars, Shape, Readable(v), NEW i \in Parts, ptr[<<v, i>>] # Null
    PROVE  ptr[<<v, i>>] \in Held(v)
BY DEF Shape, Held

\* Build keeps the invariant if what it is given fits its class, new blocks are
\* in use, and no pointer of v is lost that is not noted.
LEMMA BuildKeeps ==
    ASSUME IInv, NEW v \in Vars, NEW c \in Classes, NEW made, NEW freed,
           Fit(c, made), Build(v, c, made, freed),
           freed = {} \/ (freed = Held(v) /\ Readable(v)),
           odd \subseteq odd', odd' \in SUBSET Oddities,
           "buffer=" \notin odd' => \A i \in DOMAIN made : made[i].end # "free",
           odd' \cap {"string=", "buffer=", "header"} = {} =>
               \A i \in Parts : ptr[<<v, i>>] \in Blocks => ptr[<<v, i>>] \in freed,
           odd' \cap {"self", "open", "godot", "spare", "buffer="} = {} =>
               (c \in {"string", "buffer"} => \A i \in DOMAIN made : made[i].end = "nul")
    PROVE  IInv'
<1>a. freed \subseteq Blocks
  BY DEF Readable
<1>1. /\ Rebuilt(v, made, freed)
      /\ class' = [class EXCEPT ![v] = c] /\ UNCHANGED undefined
      /\ class' \in [Vars -> Classes]
      /\ ptr' \in [Places -> Blocks \cup {Null, Junk}]
      /\ len' \in [Places -> 0..MaxLen]
      /\ count' \in [Vars -> 0..MaxCount]
      /\ count' = [count EXCEPT ![v] = IF c = "header" THEN 1 ELSE 0]
      /\ block' \in [Blocks -> {"free", "nul", "any"}]
  BY <1>a, BuildRebuilds DEF IInv
<1>2. TypeOK'
  BY <1>1 DEF IInv, TypeOK, Classes
<1>b. \A p \in Places : p[1] = v => p[2] \in Parts /\ p = <<v, p[2]>>
  BY DEF Places
<1>c. \A w \in Vars, i \in Parts : <<w, i>> \in Places /\ <<w, i>>[1] = w
  BY DEF Places
<1>3. Shape'
  <2>1. ASSUME NEW w \in Vars, NEW i \in Parts \ PartsOf(w)'
        PROVE  ptr'[<<w, i>>] = Null
    <3>1. CASE w = v
      <4>1. class'[v] = c
        BY <1>1
      <4>2. i \notin DOMAIN made
        BY <2>1, <3>1, <4>1 DEF PartsOf, Fit, Parts
      <4> QED BY <1>1, <3>1, <4>2 DEF Rebuilt
    <3>2. CASE w # v
      <4>1. class'[w] = class[w]
        BY <1>1, <3>2
      <4>2. ptr[<<w, i>>] = Null
        BY <2>1, <4>1 DEF IInv, Shape, PartsOf
      <4>3. Null \notin freed
        BY <1>a, PointerAssumption
      <4> QED BY <1>1, <1>c, <3>2, <4>2, <4>3 DEF Rebuilt
    <3> QED BY <3>1, <3>2
  <2>2. ASSUME NEW p \in Places, ptr'[p] = Null
        PROVE  len'[p] = 0
    <3>1. CASE p[1] = v
      BY <1>1, <1>b, <2>2, <3>1, PointerAssumption DEF Rebuilt
    <3>2. CASE p[1] # v
      BY <1>1, <2>2, <3>2, PointerAssumption DEF Rebuilt, IInv, Shape
    <3> QED BY <3>1, <3>2
  <2>3. \A w \in Vars : class'[w] = "header" => count'[w] > 0
    BY <1>1 DEF IInv, TypeOK, Shape
  <2> QED BY <2>1, <2>2, <2>3 DEF Shape
\* Which blocks v gets: nobody else had them.
<1>4. ASSUME "buffer=" \notin odd', NEW i \in DOMAIN made, NEW q \in Places, q[1] # v
      PROVE  ptr'[q] # ptr'[<<v, i>>]
  <2>1. ptr'[<<v, i>>] \in Blocks
        /\ (block[ptr'[<<v, i>>]] = "free" \/ ptr'[<<v, i>>] \in freed)
    BY <1>1 DEF Rebuilt
  <2>2. ptr'[q] = IF ptr[q] \in freed THEN Junk ELSE ptr[q]
    BY <1>1, <1>4 DEF Rebuilt
  <2>3. "buffer=" \notin odd
    BY <1>4
  <2> QED BY <2>1, <2>2, <2>3, PointerAssumption DEF IInv, OneOwner
<1>5. OneOwner'
  <2> SUFFICES ASSUME "buffer=" \notin odd', NEW p \in Places, NEW q \in Places
               PROVE  /\ ptr'[p] \in Blocks => block'[ptr'[p]] # "free" /\ (ptr'[q] = ptr'[p] => q = p)
                      /\ ptr'[p] = Junk => "default" \in odd'
    BY DEF OneOwner
  <2>a. "buffer=" \notin odd
    OBVIOUS
  <2>1. CASE p[1] = v
    <3>1. PICK i \in Parts : p = <<v, i>>
      BY <1>b, <2>1
    <3>2. CASE i \in DOMAIN made
      <4>1. ptr'[p] \in Blocks /\ block'[ptr'[p]] # "free"
        BY <1>1, <3>1, <3>2 DEF Rebuilt
      <4>2. ASSUME ptr'[q] = ptr'[p] PROVE q = p
        <5>1. q[1] = v
          BY <1>4, <3>1, <3>2, <4>2
        <5>2. PICK j \in Parts : q = <<v, j>>
          BY <1>b, <5>1
        <5>3. j \in DOMAIN made
          BY <1>1, <4>1, <4>2, <5>2, PointerAssumption DEF Rebuilt
        <5> QED BY <1>1, <3>1, <3>2, <4>2, <5>2, <5>3 DEF Rebuilt
      <4> QED BY <4>1, <4>2, PointerAssumption
    <3>3. CASE i \notin DOMAIN made
      BY <1>1, <3>1, <3>3, PointerAssumption DEF Rebuilt
    <3> QED BY <3>2, <3>3
  <2>2. CASE p[1] # v
    <3>1. ptr'[p] = IF ptr[p] \in freed THEN Junk ELSE ptr[p]
      BY <1>1, <2>2 DEF Rebuilt
    <3>2. ptr[p] \notin freed
      <4> SUFFICES ASSUME ptr[p] \in freed PROVE FALSE
        OBVIOUS
      <4>1. PICK i \in PartsOf(v) : ptr[p] = ptr[<<v, i>>]
        BY DEF Held
      <4>2. <<v, i>> \in Places /\ <<v, i>>[1] = v
        BY <1>c, <4>1 DEF PartsOf, Parts
      <4> QED BY <1>a, <2>a, <2>2, <4>1, <4>2 DEF IInv, OneOwner
    <3>3. ptr'[p] = Junk => "default" \in odd'
      BY <2>a, <3>1, <3>2 DEF IInv, OneOwner
    <3>4. ASSUME ptr'[p] \in Blocks PROVE block'[ptr'[p]] # "free"
      <4>1. \A i \in DOMAIN made : ptr'[<<v, i>>] # ptr'[p]
        BY <1>4, <2>2
      <4>2. block'[ptr'[p]] = block[ptr[p]]
        BY <1>1, <3>1, <3>2, <3>4, <4>1 DEF Rebuilt
      <4> QED BY <2>a, <3>1, <3>2, <3>4, <4>2 DEF IInv, OneOwner
    <3>5. ASSUME ptr'[p] \in Blocks, ptr'[q] = ptr'[p] PROVE q = p
      <4>1. CASE q[1] = v
        <5>1. PICK j \in Parts : q = <<v, j>>
          BY <1>b, <4>1
        <5>2. j \in DOMAIN made
          BY <1>1, <3>5, <5>1, PointerAssumption DEF Rebuilt
        <5> QED BY <1>4, <2>2, <3>5, <5>1, <5>2
      <4>2. CASE q[1] # v
        <5>1. ptr[q] = ptr[p]
          BY <1>1, <3>1, <3>2, <3>5, <4>2, PointerAssumption DEF Rebuilt
        <5> QED BY <2>a, <3>1, <3>2, <3>5, <5>1 DEF IInv, OneOwner
      <4> QED BY <4>1, <4>2
    <3> QED BY <3>3, <3>4, <3>5
  <2> QED BY <2>1, <2>2
<1>6. NoLeak'
  <2> SUFFICES ASSUME odd' \cap {"string=", "buffer=", "header"} = {},
                      NEW b \in Blocks, block'[b] # "free"
               PROVE  \E p \in Places : ptr'[p] = b
    BY DEF NoLeak
  <2>1. CASE \E i \in DOMAIN made : ptr'[<<v, i>>] = b
    BY <1>c, <2>1 DEF Fit
  <2>2. CASE \A i \in DOMAIN made : ptr'[<<v, i>>] # b
    <3>1. block'[b] = IF b \in freed THEN "free" ELSE block[b]
      BY <1>1, <2>2 DEF Rebuilt
    <3>2. PICK p \in Places : ptr[p] = b
      BY <3>1 DEF IInv, NoLeak
    <3>3. p[1] # v
      BY <1>b, <3>1, <3>2
    <3> QED BY <1>1, <3>1, <3>2, <3>3 DEF Rebuilt
  <2> QED BY <2>1, <2>2
<1>7. Ended'
  <2> SUFFICES ASSUME odd' \cap {"self", "open", "godot", "spare", "buffer="} = {}, NEW w \in Vars,
                      class'[w] \in {"string", "buffer"}, Data(w)' \in Blocks
               PROVE  block'[Data(w)'] = "nul"
    BY DEF Ended
  <2>1. CASE w = v
    <3>1. class'[v] = c
      BY <1>1
    <3>2. 1 \in DOMAIN made
      BY <1>1, <2>1, PointerAssumption DEF Data, Rebuilt, Parts
    <3> QED BY <1>1, <2>1, <3>1, <3>2 DEF Data, Rebuilt
  <2>2. CASE w # v
    <3>1. class'[w] = class[w]
      BY <1>1, <2>2
    <3>2. <<w, 1>> \in Places /\ <<w, 1>>[1] = w
      BY <1>c DEF Parts
    <3>3. Data(w)' = Data(w) /\ Data(w) \notin freed
      BY <1>1, <2>2, <3>2, PointerAssumption DEF Rebuilt, Data
    <3>4. \A i \in DOMAIN made : ptr'[<<v, i>>] # Data(w)
      BY <1>4, <2>2, <3>2, <3>3 DEF Data
    <3>5. block'[Data(w)] = block[Data(w)]
      BY <1>1, <3>3, <3>4 DEF Rebuilt
    <3> QED BY <3>1, <3>3, <3>5 DEF IInv, Ended
  <2> QED BY <2>1, <2>2
<1>8. UndefinedOnlyWhenOdd'
  BY <1>1 DEF IInv, UndefinedOnlyWhenOdd
<1> QED BY <1>2, <1>3, <1>5, <1>6, <1>7, <1>8 DEF IInv

----------------------------------------------------------------------------
(* The uses of Build. *)

\* What was not constructed holds nothing.
LEMMA FreeHolds ==
    ASSUME IInv, NEW v \in Vars, Free(v), NEW i \in Parts
    PROVE  ptr[<<v, i>>] \notin Blocks
BY PointerAssumption DEF IInv, Shape, Free, IsA, PartsOf

\* A new value with one block.
LEMMA NewKeeps ==
    ASSUME IInv, NEW v \in Vars, NEW c \in Classes \ {"none"}, NEW n \in 0..MaxLen,
           NEW end \in {"free", "nul", "any"}, Free(v), Build(v, c, <<Bytes(n, end)>>, {}),
           odd \subseteq odd', odd' \in SUBSET Oddities,
           "buffer=" \notin odd' => end # "free",
           odd' \cap {"self", "open", "godot", "spare", "buffer="} = {} =>
               c \notin {"string", "buffer"} \/ end = "nul"
    PROVE  IInv'
<1> DEFINE made == <<Bytes(n, end)>>
<1>1. Fit(c, made) /\ \A i \in DOMAIN made : made[i].end = end
  BY DEF Fit, Bytes, Parts
<1>2. \A i \in Parts : ptr[<<v, i>>] \notin Blocks
  BY FreeHolds
<1> HIDE DEF made
<1>3. Build(v, c, made, {})
  BY DEF made
<1> QED BY <1>1, <1>2, <1>3, BuildKeeps

\* A new value with no block.
LEMMA EmptyKeeps ==
    ASSUME IInv, NEW v \in Vars, NEW c \in Classes, Free(v), Build(v, c, <<>>, {}),
           odd \subseteq odd', odd' \in SUBSET Oddities
    PROVE  IInv'
<1>1. Fit(c, <<>>) /\ DOMAIN <<>> = {}
  BY DEF Fit
<1>2. \A i \in Parts : ptr[<<v, i>>] \notin Blocks
  BY FreeHolds
<1> QED BY <1>1, <1>2, BuildKeeps

\* A copy fits where its source did, and is followed by what followed that.
LEMMA CopyFits ==
    ASSUME IInv, NEW w \in Vars, Readable(w), NEW c \in Classes \ {"none"},
           class[w] # "header", class[w] = "lfunc" => c \in {"lfunc", "header"}
    PROVE  /\ Fit(c, Copy(w))
           /\ "buffer=" \notin odd => \A i \in DOMAIN Copy(w) : Copy(w)[i].end # "free"
           /\ odd \cap {"self", "open", "godot", "spare", "buffer="} = {} /\ class[w] \in {"string", "buffer"}
                  => \A i \in DOMAIN Copy(w) : Copy(w)[i].end = "nul"
<1>1. DOMAIN Copy(w) = PartsOf(w) /\ PartsOf(w) \subseteq Parts
      /\ (class[w] # "lfunc" => PartsOf(w) \subseteq {1})
  BY DEF Copy, PartsOf, Parts
<1>2. \A i \in PartsOf(w) : <<w, i>> \in Places
  BY <1>1 DEF Places
<1>3. \A i \in PartsOf(w) : ptr[<<w, i>>] = Null \/ ptr[<<w, i>>] \in Blocks
  BY DEF Readable, Held
<1>4. \A i \in PartsOf(w) :
        /\ Copy(w)[i].len = len[<<w, i>>]
        /\ Copy(w)[i].end = IF ptr[<<w, i>>] = Null THEN "nul" ELSE block[ptr[<<w, i>>]]
  BY DEF Copy, Copied, Bytes
<1>5. Fit(c, Copy(w))
  <2>1. \A i \in PartsOf(w) : Copy(w)[i].len \in 0..MaxLen /\ Copy(w)[i].end \in {"free", "nul", "any"}
    BY <1>2, <1>3, <1>4 DEF IInv, TypeOK
  <2> QED BY <1>1, <2>1 DEF Fit
<1>6. ASSUME "buffer=" \notin odd, NEW i \in DOMAIN Copy(w) PROVE Copy(w)[i].end # "free"
  <2>1. i \in PartsOf(w) /\ <<w, i>> \in Places
    BY <1>1, <1>2, <1>6
  <2>2. CASE ptr[<<w, i>>] = Null
    BY <1>4, <2>1, <2>2
  <2>3. CASE ptr[<<w, i>>] \in Blocks
    <3>1. block[ptr[<<w, i>>]] # "free"
      BY <1>6, <2>1, <2>3 DEF IInv, OneOwner
    <3> QED BY <1>4, <2>1, <2>3, <3>1, PointerAssumption
  <2> QED BY <1>3, <2>1, <2>2, <2>3
<1>7. ASSUME odd \cap {"self", "open", "godot", "spare", "buffer="} = {}, class[w] \in {"string", "buffer"},
             NEW i \in DOMAIN Copy(w)
      PROVE  Copy(w)[i].end = "nul"
  <2>1. i = 1
    BY <1>1, <1>7
  <2> QED BY <1>1, <1>3, <1>4, <1>7, <2>1 DEF IInv, Ended, Data
<1> QED BY <1>5, <1>6, <1>7

\* A copy of a value.
LEMMA CopyKeeps ==
    ASSUME IInv, NEW v \in Vars, NEW w \in Vars, NEW c \in Classes \ {"none"}, Free(v), Readable(w),
           Build(v, c, Copy(w), {}), UNCHANGED odd,
           class[w] # "header", class[w] = "lfunc" => c \in {"lfunc", "header"},
           c \in {"string", "buffer"} => class[w] \in {"string", "buffer"}
    PROVE  IInv'
<1> DEFINE made == Copy(w)
<1>1. /\ Fit(c, made)
      /\ "buffer=" \notin odd => \A i \in DOMAIN made : made[i].end # "free"
      /\ odd \cap {"self", "open", "godot", "spare", "buffer="} = {} /\ class[w] \in {"string", "buffer"}
             => \A i \in DOMAIN made : made[i].end = "nul"
  BY CopyFits
<1>2. \A i \in Parts : ptr[<<v, i>>] \notin Blocks
  BY FreeHolds
<1>3. Build(v, c, made, {}) /\ odd \in SUBSET Oddities
  BY DEF IInv, TypeOK
<1> HIDE DEF made
<1> QED BY <1>1, <1>2, <1>3, BuildKeeps

----------------------------------------------------------------------------
(* The other kinds of step. *)

\* A pointer that cannot be read was left by something that is noted.
LEMMA UnreadableNoted ==
    ASSUME IInv, NEW v \in Vars, ~Readable(v)
    PROVE  odd \cap Bad # {}
<1>1. PICK i \in PartsOf(v) : ptr[<<v, i>>] # Null /\ ptr[<<v, i>>] \notin Blocks
  BY DEF Readable, Held
<1>2. <<v, i>> \in Places
  BY <1>1 DEF Places, PartsOf, Parts
<1> QED BY <1>1, <1>2 DEF IInv, TypeOK, OneOwner, Bad

\* What is undefined has a reason.
LEMMA UndefinedKeeps ==
    ASSUME IInv, NEW what \in SUBSET Oddities, Undefined(what), (odd \cup what) \cap Bad # {}
    PROVE  IInv'
<1>1. odd' = odd \cup what /\ undefined' = TRUE /\ UNCHANGED <<class, ptr, len, count, block>>
  BY DEF Undefined, Note
<1>2. TypeOK' /\ UndefinedOnlyWhenOdd'
  BY <1>1 DEF IInv, TypeOK, UndefinedOnlyWhenOdd, Bad
<1>3. Shape' /\ OneOwner' /\ NoLeak' /\ Ended'
  BY <1>1 DEF IInv, Shape, OneOwner, NoLeak, Ended, PartsOf, Data
<1> QED BY <1>2, <1>3 DEF IInv

\* Nothing changes but what is noted.
LEMMA NoteKeeps ==
    ASSUME IInv, NEW what \in SUBSET Oddities, Note(what),
           UNCHANGED <<class, ptr, len, count, block, undefined>>
    PROVE  IInv'
<1>1. odd' = odd \cup what
  BY DEF Note
<1>2. TypeOK' /\ UndefinedOnlyWhenOdd'
  BY <1>1 DEF IInv, TypeOK, UndefinedOnlyWhenOdd
<1>3. Shape' /\ OneOwner' /\ NoLeak' /\ Ended'
  BY <1>1 DEF IInv, Shape, OneOwner, NoLeak, Ended, PartsOf, Data
<1> QED BY <1>2, <1>3 DEF IInv

\* A write inside a block changes at most the byte after its end, and notes it.
LEMMA WriteKeeps ==
    ASSUME IInv, NEW v \in Vars, class[v] = "buffer", NEW lo \in Nat, NEW n \in Nat,
           NEW what \in SUBSET Oddities, WriteBytes(v, lo, n, what),
           Inside(v, lo, n) \/ what \cap Bad # {} \/ odd \cap Bad # {}
    PROVE  IInv'
<1>1. CASE ~Inside(v, lo, n)
  BY <1>1, UndefinedKeeps DEF WriteBytes
<1>2. CASE Inside(v, lo, n) /\ ~Crosses(v, lo, n)
  <2>1. Note(what) /\ UNCHANGED <<class, ptr, len, count, block, undefined>>
    BY <1>2 DEF WriteBytes, Note
  <2> QED BY <2>1, NoteKeeps
<1>3. CASE Inside(v, lo, n) /\ Crosses(v, lo, n)
  <2>1. Data(v) \in Blocks
    BY <1>3 DEF Inside, Crosses, IInv, TypeOK, Size, Places, Parts
  <2>2. /\ block' = [block EXCEPT ![Data(v)] = "any"] /\ odd' = odd \cup what \cup {"spare"}
        /\ UNCHANGED <<class, ptr, len, count, undefined>>
    BY <1>3 DEF WriteBytes, Note
  <2>3. TypeOK' /\ UndefinedOnlyWhenOdd'
    BY <2>1, <2>2 DEF IInv, TypeOK, UndefinedOnlyWhenOdd, Oddities
  <2>4. Shape' /\ OneOwner'
    BY <2>1, <2>2 DEF IInv, TypeOK, Shape, OneOwner, PartsOf
  <2>5. <<v, 1>> \in Places /\ ptr[<<v, 1>>] = Data(v)
    BY DEF Places, Parts, Data
  <2>6. NoLeak'
    BY <2>1, <2>2, <2>5 DEF IInv, TypeOK, NoLeak
  <2>7. Ended'
    BY <2>2 DEF Ended
  <2> QED BY <2>3, <2>4, <2>6, <2>7 DEF IInv
<1> QED BY <1>1, <1>2, <1>3

----------------------------------------------------------------------------
(* Ranges of a buffer. *)

\* A value with a length but no block was left by something that is noted.
LEMMA DataNoted ==
    ASSUME IInv, NEW v \in Vars, Size(v) # 0, Data(v) \notin Blocks
    PROVE  odd \cap Bad # {}
<1>1. <<v, 1>> \in Places
  BY DEF Places, Parts
<1>2. Data(v) = Junk
  BY <1>1 DEF IInv, TypeOK, Shape, Size, Data
<1> QED BY <1>1, <1>2 DEF IInv, OneOwner, Data, Bad

\* What clamping with size - offset gives.
LEMMA LeftRange ==
    ASSUME IInv, NEW v \in Vars, NEW off \in Offsets
    PROVE  Size(v) \in 0..MaxLen /\ off \in Nat /\ Left(v, off) \in Nat
           /\ (off <= Size(v) => Left(v, off) = Size(v) - off)
<1>1. <<v, 1>> \in Places
  BY DEF Places, Parts
<1>2. Size(v) \in 0..MaxLen /\ off \in Nat /\ off + MaxLen + Spare < SizeMod /\ MaxLen \in Nat /\ SizeMod \in Nat
  BY <1>1, BoundAssumption DEF IInv, TypeOK, Size
<1>3. SizeMod > 0 /\ Size(v) - off \in Int
  BY <1>2 DEF Spare
<1>4. Left(v, off) \in Nat
  BY <1>2, <1>3 DEF Left
<1>5. off <= Size(v) => Left(v, off) = Size(v) - off
  BY <1>2, <1>3 DEF Left, Spare
<1> QED BY <1>2, <1>4, <1>5

\* A range that is clamped with its offset in the buffer is inside, and so is
\* the byte after it.
LEMMA RangeInside ==
    ASSUME IInv, NEW v \in Vars, NEW off \in Offsets, off <= Size(v),
           NEW k \in Nat \ {0}, k <= Left(v, off)
    PROVE  \/ Inside(v, off, k + 1) /\ Inside(v, off, k) /\ Inside(v, 0, k)
           \/ odd \cap Bad # {}
<1>1. Size(v) \in Nat /\ off \in Nat /\ off + k <= Size(v) /\ Size(v) # 0
  BY LeftRange
<1>2. CASE Data(v) \in Blocks
  BY <1>1, <1>2 DEF Inside, Spare
<1>3. CASE Data(v) \notin Blocks
  BY <1>1, <1>3, DataNoted
<1> QED BY <1>2, <1>3

----------------------------------------------------------------------------
(* The steps: strings. *)

\* What follows a text is not set, which is noted.
LEMMA OpenKeeps ==
    ASSUME IInv, NEW v \in Vars, NEW n \in 0..MaxLen, NEW what \in {"open", "godot"},
           Free(v), Build(v, "string", <<Bytes(n, "any")>>, {}), Note({what})
    PROVE  IInv'
<1>1. odd' = odd \cup {what} /\ odd \in SUBSET Oddities
  BY DEF Note, IInv, TypeOK
<1>2. odd' \in SUBSET Oddities /\ odd \subseteq odd' /\ what \in odd'
  BY <1>1 DEF Oddities
<1> QED BY <1>2, NewKeeps DEF Classes

\* The constructors of strings.
LEMMA NewStringStep ==
    ASSUME IInv, NEW v \in Vars, NEW n \in 0..MaxLen,
           NewString(v, n) \/ DefaultString(v) \/ OpenString(v, n)
    PROVE  IInv'
<1>1. odd \in SUBSET Oddities
  BY DEF IInv, TypeOK
<1>2. CASE NewString(v, n)
  BY <1>1, <1>2, NewKeeps DEF NewString, Classes
<1>3. CASE DefaultString(v)
  BY <1>1, <1>3, EmptyKeeps DEF DefaultString, Classes
<1>4. CASE OpenString(v, n)
  BY <1>4, OpenKeeps DEF OpenString
<1> QED BY <1>2, <1>3, <1>4

\* The constructors from a null pointer.
LEMMA NullStringStep ==
    ASSUME IInv, NEW v \in Vars, NEW n \in 0..MaxLen, StringOfNull(v) \/ BytesOfNull(v, n)
    PROVE  IInv'
<1>1. odd \in SUBSET Oddities /\ 0 \in 0..MaxLen
  BY BoundAssumption DEF IInv, TypeOK
<1>2. CASE StringOfNull(v)
  BY <1>2, UndefinedKeeps DEF StringOfNull, Oddities, Bad
<1>3. CASE Free(v) /\ Build(v, "string", <<Bytes(0, "nul")>>, {}) /\ UNCHANGED odd
  BY <1>1, <1>3, NewKeeps DEF Classes
<1>4. CASE Free(v) /\ Build(v, "string", <<Bytes(n, "any")>>, {}) /\ Note({"open"})
  BY <1>4, OpenKeeps
<1> QED BY <1>2, <1>3, <1>4 DEF BytesOfNull

\* The constructor from a string of Godot: the byte beyond is read, which is noted.
LEMMA GodotStringStep ==
    ASSUME IInv, NEW v \in Vars, NEW n \in 0..MaxLen, StringOfGodot(v, n)
    PROVE  IInv'
<1>1. odd \in SUBSET Oddities /\ 0 \in 0..MaxLen
  BY BoundAssumption DEF IInv, TypeOK
<1>2. CASE Free(v) /\ Build(v, "string", <<Bytes(0, "nul")>>, {}) /\ UNCHANGED odd
  BY <1>1, <1>2, NewKeeps DEF Classes
<1>3. CASE Free(v) /\ Build(v, "string", <<Bytes(n, "any")>>, {}) /\ Note({"godot"})
  BY <1>3, OpenKeeps
<1>4. CASE Undefined({"godot"})
  BY <1>4, UndefinedKeeps DEF Oddities, Bad
<1> QED BY <1>2, <1>3, <1>4 DEF StringOfGodot

\* strcmp of a text without an end has a reason, too.
LEMMA CompareStep ==
    ASSUME IInv, NEW v \in Vars, CompareChars(v)
    PROVE  IInv'
<1>1. CASE Undefined({"null"})
  BY <1>1, UndefinedKeeps DEF Oddities, Bad
<1>2. CASE Data(v) = Junk /\ Undefined({})
  <2>1. class[v] = "string" /\ Junk \in Held(v) /\ Junk \notin Blocks
    BY <1>2, PointerAssumption DEF CompareChars, IsA, Held, PartsOf, Data
  <2>2. ~Readable(v)
    BY <2>1 DEF Readable
  <2> QED BY <1>2, <2>2, UnreadableNoted, UndefinedKeeps
<1>3. CASE Undefined({"unended"})
  BY <1>3, UndefinedKeeps DEF Oddities, Bad
<1> QED BY <1>1, <1>2, <1>3 DEF CompareChars

\* LuaString(const LuaString&).
LEMMA CopyStringStep ==
    ASSUME IInv, NEW v \in Vars, NEW w \in Vars, CopyString(v, w)
    PROVE  IInv'
<1>1. CASE Readable(w)
  BY <1>1, CopyKeeps DEF CopyString, Classes, IsA
<1>2. CASE ~Readable(w)
  BY <1>2, UnreadableNoted, UndefinedKeeps DEF CopyString
<1> QED BY <1>1, <1>2

\* operator= of strings: the old block is lost, which is noted.
LEMMA AssignStringStep ==
    ASSUME IInv, NEW v \in Vars, NEW w \in Vars, AssignString(v, w)
    PROVE  IInv'
<1>1. CASE ~Readable(w)
  BY <1>1, UnreadableNoted, UndefinedKeeps DEF AssignString
<1>2. CASE Readable(w)
  <2> DEFINE made == Assigned(v, w)
  <2>1. Build(v, "string", made, {}) /\ class[v] = "string" /\ class[w] = "string"
    BY <1>2 DEF AssignString, IsA
  <2>2. odd' = odd \cup (IF Data(v) = Null THEN {} ELSE {"string="}) \cup (IF v = w THEN {"self"} ELSE {})
    BY <1>2 DEF AssignString, Note
  <2>3. odd \subseteq odd' /\ odd' \in SUBSET Oddities
    BY <2>2 DEF IInv, TypeOK, Oddities
  <2>4. odd' \cap {"string=", "buffer=", "header"} = {} =>
            \A i \in Parts : ptr[<<v, i>>] \in Blocks => ptr[<<v, i>>] \in {}
    <3> SUFFICES ASSUME "string=" \notin odd', NEW i \in Parts PROVE ptr[<<v, i>>] \notin Blocks
      OBVIOUS
    <3>1. ptr[<<v, 1>>] = Null
      BY <2>2 DEF Data
    <3>2. PartsOf(v) = {1}
      BY <2>1 DEF PartsOf
    <3> QED BY <3>1, <3>2, PointerAssumption DEF IInv, Shape
  <2>5. /\ Fit("string", made)
        /\ "buffer=" \notin odd' => \A i \in DOMAIN made : made[i].end # "free"
        /\ odd' \cap {"self", "open", "godot", "spare", "buffer="} = {} =>
              \A i \in DOMAIN made : made[i].end = "nul"
    <3>1. CASE v = w
      <4>1. <<w, 1>> \in Places
        BY DEF Places, Parts
      <4>2. Size(w) \in 0..MaxLen
        BY <4>1 DEF IInv, TypeOK, Size
      <4> QED BY <2>2, <3>1, <4>2 DEF Assigned, Fit, Bytes, Parts
    <3>2. CASE v # w
      <4>1. made = Copy(w)
        BY <3>2 DEF Assigned
      <4>2. /\ Fit("string", Copy(w))
            /\ "buffer=" \notin odd => \A i \in DOMAIN Copy(w) : Copy(w)[i].end # "free"
            /\ odd \cap {"self", "open", "godot", "spare", "buffer="} = {} =>
                  \A i \in DOMAIN Copy(w) : Copy(w)[i].end = "nul"
        BY <1>2, <2>1, CopyFits DEF Classes
      <4> HIDE DEF made
      <4>3. odd \cap {"self", "open", "godot", "spare", "buffer="} \subseteq odd' \cap {"self", "open", "godot", "spare", "buffer="}
        BY <2>3
      <4> QED BY <2>3, <4>1, <4>2, <4>3
    <3> QED BY <3>1, <3>2
  <2> HIDE DEF made
  <2>6. "string" \in Classes
    BY DEF Classes
  <2> QED BY <2>1, <2>3, <2>4, <2>5, <2>6, BuildKeeps
<1> QED BY <1>1, <1>2

\* operator+ of strings.
LEMMA ConcatStep ==
    ASSUME IInv, NEW v \in Vars, NEW w \in Vars, NEW x \in Vars, Concat(v, w, x)
    PROVE  IInv'
<1>1. CASE Readable(w) /\ Readable(x)
  <2>1. odd' = odd \cup {"open"} /\ Free(v)
        /\ Build(v, "string", <<Bytes(Size(w) + Size(x), "any")>>, {})
    BY <1>1 DEF Concat, Note
  <2>2. odd' \in SUBSET Oddities /\ odd \subseteq odd' /\ "open" \in odd'
    BY <2>1 DEF Oddities, IInv, TypeOK
  <2>3. Size(w) + Size(x) \in 0..MaxLen
    <3>1. <<w, 1>> \in Places /\ <<x, 1>> \in Places
      BY DEF Places, Parts
    <3> QED BY <3>1, BoundAssumption DEF Concat, IInv, TypeOK, Size
  <2> QED BY <2>1, <2>2, <2>3, NewKeeps DEF Classes
<1>2. CASE ~(Readable(w) /\ Readable(x))
  <2>1. Undefined({}) /\ odd \cap Bad # {}
    BY <1>2, UnreadableNoted DEF Concat
  <2> QED BY <2>1, UndefinedKeeps
<1> QED BY <1>1, <1>2

----------------------------------------------------------------------------
(* The steps: buffers. *)

\* The constructors of buffers, and the copies that cross from strings.
LEMMA NewBufferStep ==
    ASSUME IInv, NEW v \in Vars, NEW n \in 0..MaxLen, NewBuffer(v, n) \/ DefaultBuffer(v)
    PROVE  IInv'
<1>1. odd \in SUBSET Oddities
  BY DEF IInv, TypeOK
<1>2. CASE NewBuffer(v, n)
  BY <1>1, <1>2, NewKeeps DEF NewBuffer, Classes
<1>3. CASE DefaultBuffer(v)
  BY <1>1, <1>3, EmptyKeeps DEF DefaultBuffer, Classes
<1> QED BY <1>2, <1>3

\* LuaBuffer(const LuaBuffer&), from a buffer without block too.
LEMMA CopyBufferStep ==
    ASSUME IInv, NEW v \in Vars, NEW w \in Vars, CopyBuffer(v, w)
    PROVE  IInv'
<1>1. Free(v) /\ class[w] = "buffer" /\ PartsOf(w) = {1}
  BY DEF CopyBuffer, IsA, PartsOf
<1>2. CASE Data(w) \in Blocks
  <2>1. Readable(w)
    BY <1>1, <1>2 DEF Readable, Held, Data
  <2> QED BY <1>1, <1>2, <2>1, CopyKeeps DEF CopyBuffer, Classes
<1>3. CASE Data(w) = Null
  <2>1. Undefined({"default"})
    BY <1>1, <1>3, PointerAssumption DEF CopyBuffer, FromNull
  <2> QED BY <2>1, UndefinedKeeps DEF Oddities, Bad
<1>4. CASE Data(w) \notin Blocks /\ Data(w) # Null
  <2>1. Undefined({})
    BY <1>4 DEF CopyBuffer, FromNull
  <2>2. ~Readable(w)
    BY <1>1, <1>4 DEF Readable, Held, Data
  <2> QED BY <2>1, <2>2, UnreadableNoted, UndefinedKeeps
<1> QED BY <1>2, <1>3, <1>4

\* LuaBuffer(const LuaString&), operator LuaString.
LEMMA ConvertStep ==
    ASSUME IInv, NEW v \in Vars, NEW w \in Vars, BufferOfString(v, w) \/ StringOfBuffer(v, w)
    PROVE  IInv'
<1>1. CASE ~Readable(w)
  <2>1. Undefined({})
    BY <1>1 DEF BufferOfString, StringOfBuffer
  <2> QED BY <1>1, <2>1, UnreadableNoted, UndefinedKeeps
<1>2. CASE Readable(w) /\ BufferOfString(v, w)
  <2>1. Size(w) \in 0..MaxLen
    <3>1. <<w, 1>> \in Places
      BY DEF Places, Parts
    <3> QED BY <3>1 DEF IInv, TypeOK, Size
  <2>2. Free(v) /\ Build(v, "buffer", <<Bytes(Size(w), "nul")>>, {}) /\ UNCHANGED odd
    BY <1>2 DEF BufferOfString
  <2> QED BY <2>1, <2>2, NewKeeps DEF Classes, IInv, TypeOK
<1>3. CASE Readable(w) /\ StringOfBuffer(v, w)
  BY <1>3, CopyKeeps DEF StringOfBuffer, Classes, IsA
<1> QED BY <1>1, <1>2, <1>3

\* The operator= the compiler writes: from then on blocks may have two owners.
LEMMA AssignBufferStep ==
    ASSUME IInv, NEW v \in Vars, NEW w \in Vars, AssignBuffer(v, w)
    PROVE  IInv'
<1>a. /\ <<v, 1>> \in Places /\ <<w, 1>> \in Places
      /\ class[v] = "buffer" /\ class[w] = "buffer" /\ PartsOf(v) = {1} /\ PartsOf(w) = {1}
  BY DEF Places, Parts, AssignBuffer, IsA, PartsOf
<1>1. CASE v = w
  <2>1. Note({}) /\ UNCHANGED <<class, ptr, len, count, block, undefined>>
    BY <1>a, <1>1 DEF AssignBuffer, Data, Size, IInv, TypeOK
  <2> QED BY <2>1, NoteKeeps
<1>2. CASE v # w
  <2>1. /\ odd' = odd \cup {"buffer="}
        /\ ptr' = [ptr EXCEPT ![<<v, 1>>] = ptr[<<w, 1>>]]
        /\ len' = [len EXCEPT ![<<v, 1>>] = len[<<w, 1>>]]
        /\ UNCHANGED <<class, count, block, undefined>>
    BY <1>2 DEF AssignBuffer, Note, Data, Size
  <2>2. TypeOK'
    BY <1>a, <2>1 DEF IInv, TypeOK, Oddities
  <2>3. Shape'
    <3>1. ASSUME NEW u \in Vars, NEW i \in Parts \ PartsOf(u)' PROVE ptr'[<<u, i>>] = Null
      <4>1. PartsOf(u)' = PartsOf(u)
        BY <2>1 DEF PartsOf
      <4>2. i \in Parts \ PartsOf(u) /\ <<u, i>> \in Places /\ <<u, i>> # <<v, 1>>
        BY <1>a, <3>1, <4>1 DEF Places
      <4>3. ptr[<<u, i>>] = Null
        BY <4>2 DEF IInv, Shape
      <4> QED BY <2>1, <4>2, <4>3 DEF IInv, TypeOK
    <3>2. \A p \in Places : ptr'[p] = Null => len'[p] = 0
      BY <1>a, <2>1 DEF IInv, TypeOK, Shape
    <3>3. \A u \in Vars : class'[u] = "header" => count'[u] > 0
      BY <2>1 DEF IInv, Shape
    <3> QED BY <3>1, <3>2, <3>3 DEF Shape
  <2>4. OneOwner' /\ NoLeak' /\ Ended' /\ UndefinedOnlyWhenOdd'
    BY <2>1 DEF OneOwner, NoLeak, Ended, UndefinedOnlyWhenOdd
  <2> QED BY <2>2, <2>3, <2>4 DEF IInv
<1> QED BY <1>1, <1>2

\* readi8 .. readf64 and writei8 .. writef64.
LEMMA AccessStep ==
    ASSUME IInv, NEW v \in Vars, NEW off \in Offsets, NEW w \in Widths,
           Read(v, off, w) \/ Write(v, off, w)
    PROVE  IInv'
<1> DEFINE what == Asserted(v, off)
<1>1. Size(v) \in Nat /\ off \in Nat /\ w \in Nat /\ w <= Spare /\ Spare \in Nat
  BY LeftRange DEF Widths, Spare
<1>2. what \in SUBSET Oddities
  BY DEF Asserted, Oddities
<1>3. Inside(v, off, w) \/ what \cap Bad # {} \/ odd \cap Bad # {}
  <2>1. CASE off < Size(v)
    <3>1. Size(v) # 0 /\ off + w <= Size(v) + Spare
      BY <1>1, <2>1
    <3> QED BY <3>1, DataNoted DEF Inside
  <2>2. CASE ~(off < Size(v))
    BY <2>2 DEF Asserted, Bad
  <2> QED BY <2>1, <2>2
<1>4. CASE Write(v, off, w)
  <2>1. WriteBytes(v, off, w, what) /\ class[v] = "buffer"
    BY <1>4 DEF Write, IsA
  <2> HIDE DEF what
  <2> QED BY <1>1, <1>2, <1>3, <2>1, WriteKeeps
<1>5. CASE Read(v, off, w)
  <2>1. ReadBytes(v, off, w, what)
    BY <1>5 DEF Read
  <2> HIDE DEF what
  <2>2. CASE Inside(v, off, w)
    BY <1>2, <2>1, <2>2, NoteKeeps DEF ReadBytes
  <2>3. CASE ~Inside(v, off, w)
    BY <1>2, <1>3, <2>1, <2>3, UndefinedKeeps DEF ReadBytes
  <2> QED BY <2>2, <2>3
<1> QED BY <1>4, <1>5

\* readstring: what the clamps leave is inside the buffer, if the offset is.
LEMMA ReadStringStep ==
    ASSUME IInv, NEW v \in Vars, NEW w \in Vars, NEW off \in Offsets, NEW n \in Counts,
           ReadString(v, w, off, n)
    PROVE  IInv'
<1> DEFINE k == Least(n, Left(w, off))
<1>1. /\ Size(w) \in Nat /\ off \in Nat /\ n \in Nat
      /\ k \in Nat /\ k <= Left(w, off)
      /\ Free(v) /\ class[w] = "buffer"
  <2>1. n \in Nat
    BY BoundAssumption
  <2>2. Size(w) \in Nat /\ off \in Nat /\ Left(w, off) \in Nat
    BY LeftRange
  <2> QED BY <2>1, <2>2 DEF Least, ReadString, IsA
<1>2. \/ k = 0 /\ Build(v, "string", <<>>, {}) /\ UNCHANGED odd
      \/ k > 0 /\ ~Inside(w, off, k + 1) /\ Undefined(Beyond(w, off))
      \/ /\ k \in 1..MaxLen /\ Inside(w, off, k + 1)
         /\ Build(v, "string",
                  <<Bytes(k, IF off + k = Size(w) THEN block[Data(w)] ELSE "any")>>, {})
         /\ Note(Beyond(w, off) \cup IF off + k = Size(w) THEN {} ELSE {"open"})
  BY DEF ReadString
<1> HIDE DEF k
<1>3. CASE k = 0 /\ Build(v, "string", <<>>, {}) /\ UNCHANGED odd
  BY <1>1, <1>3, EmptyKeeps DEF Classes, IInv, TypeOK
<1>4. CASE k > 0 /\ ~Inside(w, off, k + 1) /\ Undefined(Beyond(w, off))
  <2>1. Beyond(w, off) \in SUBSET Oddities
    BY DEF Beyond, Oddities
  <2>2. (odd \cup Beyond(w, off)) \cap Bad # {}
    <3>1. CASE off > Size(w)
      BY <3>1 DEF Beyond, Bad
    <3>2. CASE off <= Size(w)
      BY <1>1, <1>4, <3>2, RangeInside
    <3> QED BY <1>1, <3>1, <3>2
  <2> QED BY <1>4, <2>1, <2>2, UndefinedKeeps
<1>5. CASE /\ k \in 1..MaxLen /\ Inside(w, off, k + 1)
           /\ Build(v, "string",
                    <<Bytes(k, IF off + k = Size(w) THEN block[Data(w)] ELSE "any")>>, {})
           /\ Note(Beyond(w, off) \cup IF off + k = Size(w) THEN {} ELSE {"open"})
  <2> DEFINE end == IF off + k = Size(w) THEN block[Data(w)] ELSE "any"
  <2>1. Data(w) \in Blocks /\ k \in 0..MaxLen
    BY <1>1, <1>5 DEF Inside
  <2>2. <<w, 1>> \in Places /\ ptr[<<w, 1>>] = Data(w)
    BY DEF Places, Parts, Data
  <2>3. odd' = odd \cup (Beyond(w, off) \cup IF off + k = Size(w) THEN {} ELSE {"open"})
    BY <1>5 DEF Note
  <2>4. odd \subseteq odd' /\ odd' \in SUBSET Oddities
    BY <2>3 DEF IInv, TypeOK, Beyond, Oddities
  <2>5. end \in {"free", "nul", "any"}
    BY <2>1 DEF IInv, TypeOK
  <2>6. "buffer=" \notin odd' => end # "free"
    BY <2>1, <2>2, <2>4 DEF IInv, OneOwner
  <2>7. odd' \cap {"self", "open", "godot", "spare", "buffer="} = {} => end = "nul"
    <3>1. ASSUME off + k # Size(w) PROVE "open" \in odd'
      BY <2>3, <3>1
    <3>2. ASSUME off + k = Size(w), odd' \cap {"self", "open", "godot", "spare", "buffer="} = {}
          PROVE  block[Data(w)] = "nul"
      BY <1>1, <2>1, <2>4, <3>2 DEF IInv, Ended
    <3> QED BY <3>1, <3>2
  <2>8. Build(v, "string", <<Bytes(k, end)>>, {})
    BY <1>5
  <2> HIDE DEF end
  <2>9. "string" \in Classes \ {"none"}
    BY DEF Classes
  <2> QED BY <1>1, <2>1, <2>4, <2>5, <2>6, <2>7, <2>8, <2>9, NewKeeps
<1> QED BY <1>2, <1>3, <1>4, <1>5

\* writestring: no more is taken than the string has or the buffer takes.
LEMMA WriteStringStep ==
    ASSUME IInv, NEW v \in Vars, NEW s \in Vars, NEW off \in Offsets, NEW n \in Counts,
           WriteString(v, off, s, n)
    PROVE  IInv'
<1> DEFINE k == Least(Least(n, Size(s)), Left(v, off))
           what == (IF n <= Size(s) THEN {} ELSE {"assert"}) \cup Beyond(v, off)
<1>1. /\ Size(v) \in Nat /\ Size(s) \in Nat /\ off \in Nat /\ n \in Nat
      /\ k \in Nat /\ k <= Left(v, off) /\ k <= Size(s) /\ class[v] = "buffer"
  <2>1. n \in Nat
    BY BoundAssumption
  <2>2. Size(v) \in Nat /\ off \in Nat /\ Left(v, off) \in Nat /\ Size(s) \in Nat
    BY LeftRange
  <2> QED BY <2>1, <2>2 DEF Least, WriteString, IsA
<1>2. what \in SUBSET Oddities
  BY DEF Beyond, Oddities
<1>3. off > Size(v) => "past end" \in what
  BY DEF Beyond
<1>4. IF k > 0 /\ Data(s) \notin Blocks THEN Undefined(what)
      ELSE WriteBytes(v, off, k, IF k = 0 THEN {} ELSE what)
  BY DEF WriteString
<1> HIDE DEF k, what
<1>5. CASE k > 0 /\ Data(s) \notin Blocks
  <2>1. odd \cap Bad # {}
    BY <1>1, <1>5, DataNoted
  <2> QED BY <1>2, <1>4, <1>5, <2>1, UndefinedKeeps
<1>6. CASE ~(k > 0 /\ Data(s) \notin Blocks)
  <2>1. WriteBytes(v, off, k, IF k = 0 THEN {} ELSE what)
    BY <1>4, <1>6
  <2>2. CASE k = 0
    BY <1>1, <2>1, <2>2, WriteKeeps DEF Inside
  <2>3. CASE k # 0
    <3>1. Inside(v, off, k) \/ what \cap Bad # {} \/ odd \cap Bad # {}
      <4>1. CASE off > Size(v)
        BY <1>3, <4>1 DEF Bad
      <4>2. CASE off <= Size(v)
        BY <1>1, <2>3, <4>2, RangeInside
      <4> QED BY <1>1, <4>1, <4>2
    <3> QED BY <1>1, <1>2, <2>1, <2>3, <3>1, WriteKeeps
  <2> QED BY <2>2, <2>3
<1> QED BY <1>5, <1>6

\* copy between buffers.
LEMMA CopyBytesStep ==
    ASSUME IInv, NEW v \in Vars, NEW w \in Vars, NEW to \in Offsets, NEW from \in Offsets,
           NEW n \in Counts, CopyBytes(v, to, w, from, n)
    PROVE  IInv'
<1> DEFINE k == Least(Least(Left(v, to), Left(w, from)), n)
           what == IF k = 0 THEN {} ELSE Beyond(v, to) \cup Beyond(w, from)
<1>1. /\ Size(v) \in Nat /\ Size(w) \in Nat /\ to \in Nat /\ from \in Nat
      /\ k \in Nat /\ k <= Left(v, to) /\ k <= Left(w, from) /\ class[v] = "buffer"
  <2>1. n \in Nat
    BY BoundAssumption
  <2>2. Size(v) \in Nat /\ to \in Nat /\ Left(v, to) \in Nat
        /\ Size(w) \in Nat /\ from \in Nat /\ Left(w, from) \in Nat
    BY LeftRange
  <2> QED BY <2>1, <2>2 DEF Least, CopyBytes, IsA
<1>2. what \in SUBSET Oddities
  BY DEF Beyond, Oddities
<1>3. k # 0 /\ (to > Size(v) \/ from > Size(w)) => "past end" \in what
  BY DEF Beyond
<1>4. IF Inside(w, from, k) THEN WriteBytes(v, to, k, what) ELSE Undefined(what)
  BY DEF CopyBytes
<1> HIDE DEF k, what
<1>5. (Inside(v, to, k) /\ Inside(w, from, k)) \/ what \cap Bad # {} \/ odd \cap Bad # {}
  <2>1. CASE k = 0
    BY <2>1 DEF Inside
  <2>2. CASE k # 0 /\ (to > Size(v) \/ from > Size(w))
    BY <1>3, <2>2 DEF Bad
  <2>3. CASE k # 0 /\ to <= Size(v) /\ from <= Size(w)
    <3>1. Inside(v, to, k) \/ odd \cap Bad # {}
      BY <1>1, <2>3, RangeInside
    <3>2. Inside(w, from, k) \/ odd \cap Bad # {}
      BY <1>1, <2>3, RangeInside
    <3> QED BY <3>1, <3>2
  <2> QED BY <1>1, <2>1, <2>2, <2>3
<1>6. CASE Inside(w, from, k)
  BY <1>1, <1>2, <1>4, <1>5, <1>6, WriteKeeps
<1>7. CASE ~Inside(w, from, k)
  <2>1. (odd \cup what) \cap Bad # {}
    BY <1>5, <1>7
  <2> QED BY <1>2, <1>4, <1>7, <2>1, UndefinedKeeps
<1> QED BY <1>6, <1>7

\* fill.
LEMMA FillStep ==
    ASSUME IInv, NEW v \in Vars, NEW off \in Offsets, NEW n \in Counts, Fill(v, off, n)
    PROVE  IInv'
<1> DEFINE k == Least(n, Left(v, off))
           what == IF k = 0 THEN {} ELSE Beyond(v, off)
<1>1. /\ Size(v) \in Nat /\ off \in Nat
      /\ k \in Nat /\ k <= Left(v, off) /\ class[v] = "buffer"
  <2>1. n \in Nat
    BY BoundAssumption
  <2>2. Size(v) \in Nat /\ off \in Nat /\ Left(v, off) \in Nat
    BY LeftRange
  <2> QED BY <2>1, <2>2 DEF Least, Fill, IsA
<1>2. what \in SUBSET Oddities
  BY DEF Beyond, Oddities
<1>3. k # 0 /\ off > Size(v) => "past end" \in what
  BY DEF Beyond
<1>4. WriteBytes(v, 0, k, what)
  BY DEF Fill
<1> HIDE DEF k, what
<1>5. Inside(v, 0, k) \/ what \cap Bad # {} \/ odd \cap Bad # {}
  <2>1. CASE k = 0
    BY <2>1 DEF Inside
  <2>2. CASE k # 0 /\ off > Size(v)
    BY <1>3, <2>2 DEF Bad
  <2>3. CASE k # 0 /\ off <= Size(v)
    BY <1>1, <2>3, RangeInside
  <2> QED BY <1>1, <2>1, <2>2, <2>3
<1> QED BY <1>1, <1>2, <1>4, <1>5, WriteKeeps

----------------------------------------------------------------------------
(* The steps: functions. *)

\* The constructors of functions; the default one may leave any pointer.
LEMMA NewFunctionStep ==
    ASSUME IInv, NEW v \in Vars, NEW n \in 0..MaxLen,
           DefaultFunction(v) \/ NewCFunction(v, n) \/ NewLFunction(v, n)
    PROVE  IInv'
<1>a. odd \in SUBSET Oddities /\ Free(v)
  BY DEF IInv, TypeOK, DefaultFunction, NewCFunction, NewLFunction
<1>1. CASE NewCFunction(v, n)
  BY <1>a, <1>1, NewKeeps DEF NewCFunction, Classes
<1>2. CASE NewLFunction(v, n)
  <2> DEFINE made == <<Bytes(n, "nul"), Bytes(n, "nul")>>
  <2>1. Build(v, "lfunc", made, {}) /\ UNCHANGED odd
    BY <1>2 DEF NewLFunction
  <2>2. Fit("lfunc", made) /\ \A i \in DOMAIN made : made[i].end # "free"
    BY DEF Fit, Bytes, Parts
  <2>3. \A i \in Parts : ptr[<<v, i>>] \notin Blocks
    BY <1>a, FreeHolds
  <2>4. "lfunc" \in Classes
    BY DEF Classes
  <2> HIDE DEF made
  <2> QED BY <1>a, <2>1, <2>2, <2>3, <2>4, BuildKeeps
<1>3. CASE DefaultFunction(v) /\ Build(v, "cfunc", <<>>, {}) /\ UNCHANGED odd
  BY <1>a, <1>3, EmptyKeeps DEF Classes
<1>4. CASE /\ class' = [class EXCEPT ![v] = "cfunc"]
           /\ ptr' = [ptr EXCEPT ![<<v, 1>>] = Junk]
           /\ Note({"default"})
           /\ UNCHANGED <<len, count, block, undefined>>
  <2>1. odd' = odd \cup {"default"}
    BY <1>4 DEF Note
  <2>2. <<v, 1>> \in Places /\ class[v] = "none"
    BY <1>a DEF Places, Parts, Free, IsA
  <2>3. TypeOK'
    BY <1>4, <2>1, <2>2 DEF IInv, TypeOK, Oddities
  <2>4. Shape'
    <3>1. ASSUME NEW u \in Vars, NEW i \in Parts \ PartsOf(u)' PROVE ptr'[<<u, i>>] = Null
      <4>1. <<u, i>> \in Places
        BY <3>1 DEF Places
      <4>2. CASE u = v
        <5>1. class'[v] = "cfunc"
          BY <1>4 DEF IInv, TypeOK
        <5>2. i # 1
          BY <3>1, <4>2, <5>1 DEF PartsOf
        <5>3. ptr[<<v, i>>] = Null
          BY <2>2, <3>1 DEF IInv, Shape, PartsOf
        <5> QED BY <1>4, <4>1, <4>2, <5>2, <5>3 DEF IInv, TypeOK
      <4>3. CASE u # v
        <5>1. class'[u] = class[u]
          BY <1>4, <4>3 DEF IInv, TypeOK
        <5>2. PartsOf(u)' = PartsOf(u)
          BY <5>1 DEF PartsOf
        <5>3. ptr[<<u, i>>] = Null
          BY <3>1, <5>2 DEF IInv, Shape
        <5> QED BY <1>4, <4>1, <4>3, <5>3 DEF IInv, TypeOK
      <4> QED BY <4>2, <4>3
    <3>2. \A p \in Places : ptr'[p] = Null => len'[p] = 0
      BY <1>4, <2>2, PointerAssumption DEF IInv, TypeOK, Shape
    <3>3. \A u \in Vars : class'[u] = "header" => count'[u] > 0
      BY <1>4 DEF IInv, TypeOK, Shape
    <3> QED BY <3>1, <3>2, <3>3 DEF Shape
  <2>5. OneOwner'
    BY <1>4, <2>1, <2>2, PointerAssumption DEF IInv, TypeOK, OneOwner
  <2>6. \A i \in Parts : ptr[<<v, i>>] \notin Blocks
    BY <1>a, FreeHolds
  <2>7. NoLeak'
    <3>1. ASSUME odd' \cap {"string=", "buffer=", "header"} = {}, NEW b \in Blocks, block'[b] # "free"
          PROVE  \E p \in Places : ptr'[p] = b
      <4>1. PICK p \in Places : ptr[p] = b
        BY <1>4, <2>1, <3>1 DEF IInv, NoLeak
      <4>2. p # <<v, 1>>
        BY <2>6, <4>1 DEF Parts
      <4> QED BY <1>4, <4>1, <4>2 DEF IInv, TypeOK
    <3> QED BY <3>1 DEF NoLeak
  <2>8. Ended'
    <3>1. ASSUME odd' \cap {"self", "open", "godot", "spare", "buffer="} = {}, NEW u \in Vars,
                 class'[u] \in {"string", "buffer"}, Data(u)' \in Blocks
          PROVE  block'[Data(u)'] = "nul"
      <4>1. u # v
        BY <1>4, <3>1 DEF IInv, TypeOK
      <4>2. <<u, 1>> \in Places /\ <<u, 1>> # <<v, 1>>
        BY <4>1 DEF Places, Parts
      <4>3. class'[u] = class[u] /\ Data(u)' = Data(u)
        BY <1>4, <4>1, <4>2 DEF IInv, TypeOK, Data
      <4> QED BY <1>4, <2>1, <3>1, <4>3 DEF IInv, Ended
    <3> QED BY <3>1 DEF Ended
  <2>9. UndefinedOnlyWhenOdd'
    BY <1>4, <2>1 DEF IInv, UndefinedOnlyWhenOdd
  <2> QED BY <2>3, <2>4, <2>5, <2>7, <2>8, <2>9 DEF IInv
<1> QED BY <1>1, <1>2, <1>3, <1>4 DEF DefaultFunction

\* LuaFunction(const LuaFunction&).
LEMMA CopyFunctionStep ==
    ASSUME IInv, NEW v \in Vars, NEW w \in Vars, CopyFunction(v, w)
    PROVE  IInv'
<1>1. CASE ~Readable(w)
  BY <1>1, UnreadableNoted, UndefinedKeeps DEF CopyFunction
<1>2. CASE Readable(w)
  <2>1. Free(v) /\ Build(v, class[w], Copy(w), {}) /\ UNCHANGED odd
        /\ class[w] \in {"cfunc", "lfunc"}
    BY <1>2 DEF CopyFunction, IsFunction
  <2>2. PICK c \in Classes \ {"none"} : c = class[w]
    BY <2>1 DEF Classes
  <2>3. Build(v, c, Copy(w), {}) /\ c \notin {"string", "buffer"}
    BY <2>1, <2>2
  <2> QED BY <1>2, <2>1, <2>2, <2>3, CopyKeeps
<1> QED BY <1>1, <1>2

\* operator= of functions gives back what the function held before it copies.
LEMMA AssignFunctionStep ==
    ASSUME IInv, NEW v \in Vars, NEW w \in Vars, AssignFunction(v, w)
    PROVE  IInv'
<1>1. CASE Readable(v) /\ Readable(w) /\ (v = w => Held(v) = {})
  <2>1. Build(v, class[w], Copy(w), Held(v)) /\ UNCHANGED odd
        /\ class[w] \in {"cfunc", "lfunc"}
    BY <1>1 DEF AssignFunction, IsFunction
  <2>2. PICK c \in Classes \ {"none"} : c = class[w]
    BY <2>1 DEF Classes
  <2>3. PICK freed : freed = Held(v)
    OBVIOUS
  <2>4. Fit(c, Copy(w)) /\ ("buffer=" \notin odd => \A i \in DOMAIN Copy(w) : Copy(w)[i].end # "free")
    BY <1>1, <2>1, <2>2, CopyFits
  <2>5. \A i \in Parts : ptr[<<v, i>>] \in Blocks => ptr[<<v, i>>] \in freed
    BY <1>1, <2>3, HeldBlocks, PointerAssumption DEF IInv
  <2> DEFINE made == Copy(w)
  <2>6. Build(v, c, made, freed) /\ UNCHANGED odd /\ odd \in SUBSET Oddities
        /\ c \notin {"string", "buffer"}
    BY <2>1, <2>2, <2>3 DEF IInv, TypeOK
  <2>7. Fit(c, made) /\ ("buffer=" \notin odd => \A i \in DOMAIN made : made[i].end # "free")
    BY <2>4
  <2> HIDE DEF made
  <2> QED BY <1>1, <2>3, <2>5, <2>6, <2>7, BuildKeeps
<1>2. CASE ~Readable(v) \/ ~Readable(w)
  <2>1. odd \cap Bad # {}
    BY <1>2, UnreadableNoted
  <2>2. Undefined(IF v = w THEN {"self"} ELSE {})
    BY <1>2 DEF AssignFunction
  <2>3. (IF v = w THEN {"self"} ELSE {}) \in SUBSET Oddities
    BY DEF Oddities
  <2> QED BY <2>1, <2>2, <2>3, UndefinedKeeps
<1>3. CASE ~(v = w => Held(v) = {})
  <2>1. Undefined({"self"})
    BY <1>3 DEF AssignFunction
  <2> QED BY <2>1, UndefinedKeeps DEF Oddities, Bad
<1> QED BY <1>1, <1>2, <1>3

\* What an emptied value and a replaced name keep: all its blocks go back.
LEMMA ReplacedKeeps ==
    ASSUME IInv, NEW v \in Vars, Readable(v), NEW c \in Classes \ {"string", "buffer"}, NEW made,
           Fit(c, made), \A i \in DOMAIN made : made[i].end # "free",
           Build(v, c, made, Held(v)), UNCHANGED odd
    PROVE  IInv'
<1>1. PICK freed : freed = Held(v)
  OBVIOUS
<1>2. \A i \in Parts : ptr[<<v, i>>] \in Blocks => ptr[<<v, i>>] \in freed
  BY <1>1, HeldBlocks, PointerAssumption DEF IInv
<1>3. Build(v, c, made, freed) /\ odd \in SUBSET Oddities
  BY <1>1 DEF IInv, TypeOK
<1> QED BY <1>1, <1>2, <1>3, BuildKeeps

\* A method is registered under a new or a used name.
LEMMA RegisterMethodStep ==
    ASSUME IInv, NEW v \in Vars, NEW n \in 0..MaxLen, RegisterMethod(v, n)
    PROVE  IInv'
<1>1. CASE Free(v) /\ Build(v, "cfunc", <<Bytes(n, "nul")>>, {}) /\ UNCHANGED odd
  BY <1>1, NewKeeps DEF Classes, IInv, TypeOK
<1>2. CASE Undefined({"default"})
  BY <1>2, UndefinedKeeps DEF Oddities, Bad
<1>3. CASE Readable(v) /\ Build(v, "cfunc", <<Bytes(n, "nul")>>, Held(v)) /\ UNCHANGED odd
  <2> DEFINE made == <<Bytes(n, "nul")>>
  <2>1. Fit("cfunc", made) /\ \A i \in DOMAIN made : made[i].end # "free"
    BY DEF Fit, Bytes, Parts
  <2>2. Build(v, "cfunc", made, Held(v)) /\ "cfunc" \in Classes \ {"string", "buffer"}
    BY <1>3 DEF Classes
  <2> HIDE DEF made
  <2> QED BY <1>3, <2>1, <2>2, ReplacedKeeps
<1>4. CASE ~Readable(v) /\ Undefined({})
  BY <1>4, UnreadableNoted, UndefinedKeeps
<1> QED BY <1>1, <1>2, <1>3, <1>4 DEF RegisterMethod

----------------------------------------------------------------------------
(* The steps: headers and destructors. *)

\* LuaObjectHeader of a copy.
LEMMA NewHeaderStep ==
    ASSUME IInv, NEW v \in Vars, NEW w \in Vars, NewHeader(v, w)
    PROVE  IInv'
<1>1. class[w] \in {"buffer", "cfunc", "lfunc"} /\ Free(v)
  BY DEF NewHeader, IsA, IsFunction
<1>2. CASE Readable(w) /\ FromNull(w) = {}
  <2>1. Build(v, "header", Copy(w), {}) /\ UNCHANGED odd
    BY <1>2 DEF NewHeader
  <2>2. "header" \in Classes \ {"none"} /\ class[w] # "header"
    BY <1>1 DEF Classes
  <2> QED BY <1>1, <1>2, <2>1, <2>2, CopyKeeps
<1>3. CASE FromNull(w) # {}
  <2>1. Undefined({"default"})
    BY <1>3 DEF NewHeader, FromNull
  <2> QED BY <2>1, UndefinedKeeps DEF Oddities, Bad
<1>4. CASE ~Readable(w) /\ FromNull(w) = {}
  <2>1. Undefined({})
    BY <1>4 DEF NewHeader
  <2> QED BY <1>4, <2>1, UnreadableNoted, UndefinedKeeps
<1> QED BY <1>2, <1>3, <1>4

\* The references to a header, and the last of them.
LEMMA CountStep ==
    ASSUME IInv, NEW v \in Vars, Incref(v) \/ Decref(v)
    PROVE  IInv'
<1>1. class[v] = "header" /\ count[v] \in 1..MaxCount
  <2>1. class[v] = "header"
    BY DEF Incref, Decref, IsA
  <2>2. count[v] > 0 /\ count[v] \in 0..MaxCount
    BY <2>1 DEF IInv, TypeOK, Shape
  <2> QED BY <2>1, <2>2, BoundAssumption
<1>2. ASSUME count' \in [Vars -> 0..MaxCount], \A u \in Vars : class[u] = "header" => count'[u] > 0,
             UNCHANGED <<class, ptr, len, block, odd, undefined>>
      PROVE  IInv'
  <2>1. TypeOK'
    BY <1>2 DEF IInv, TypeOK
  <2>2. \A u \in Vars : PartsOf(u)' = PartsOf(u)
    BY <1>2 DEF PartsOf
  <2>3. Shape'
    BY <1>2, <2>2 DEF IInv, Shape
  <2>4. OneOwner' /\ NoLeak' /\ Ended' /\ UndefinedOnlyWhenOdd'
    BY <1>2 DEF IInv, OneOwner, NoLeak, Ended, UndefinedOnlyWhenOdd, Data
  <2> QED BY <2>1, <2>3, <2>4 DEF IInv
<1>3. CASE Incref(v)
  <2>1. count' = [count EXCEPT ![v] = @ + 1] /\ count[v] < MaxCount
        /\ UNCHANGED <<class, ptr, len, block, odd, undefined>>
    BY <1>3 DEF Incref
  <2>2. count' \in [Vars -> 0..MaxCount] /\ \A u \in Vars : class[u] = "header" => count'[u] > 0
    BY <1>1, <2>1, BoundAssumption DEF IInv, TypeOK, Shape
  <2> QED BY <1>2, <2>1, <2>2
<1>4. CASE Decref(v) /\ count[v] # 1
  <2>1. count' = [count EXCEPT ![v] = @ - 1]
        /\ UNCHANGED <<class, ptr, len, block, odd, undefined>>
    BY <1>4 DEF Decref
  <2>2. count' \in [Vars -> 0..MaxCount] /\ \A u \in Vars : class[u] = "header" => count'[u] > 0
    BY <1>1, <1>4, <2>1, BoundAssumption DEF IInv, TypeOK, Shape
  <2> QED BY <1>2, <2>1, <2>2
<1>5. CASE Decref(v) /\ count[v] = 1
  <2>1. Build(v, "none", <<>>, {}) /\ odd' = odd \cup {"header"}
    BY <1>5 DEF Decref, Note
  <2>2. Fit("none", <<>>) /\ DOMAIN <<>> = {} /\ "none" \in Classes
    BY DEF Fit, Classes
  <2>3. odd \subseteq odd' /\ odd' \in SUBSET Oddities /\ "header" \in odd'
    BY <2>1 DEF IInv, TypeOK, Oddities
  <2> QED BY <2>1, <2>2, <2>3, BuildKeeps
<1> QED BY <1>3, <1>4, <1>5

\* The destructors.
LEMMA DestroyStep ==
    ASSUME IInv, NEW v \in Vars, Destroy(v)
    PROVE  IInv'
<1>1. CASE Readable(v)
  <2>1. Build(v, "none", <<>>, Held(v)) /\ UNCHANGED odd
    BY <1>1 DEF Destroy
  <2>2. Fit("none", <<>>) /\ DOMAIN <<>> = {} /\ "none" \in Classes \ {"string", "buffer"}
    BY DEF Fit, Classes
  <2> QED BY <1>1, <2>1, <2>2, ReplacedKeeps
<1>2. CASE ~Readable(v)
  BY <1>2, UnreadableNoted, UndefinedKeeps DEF Destroy
<1> QED BY <1>1, <1>2

----------------------------------------------------------------------------
(* The invariant. *)

\* Nothing is constructed, nothing is allocated.
LEMMA InitStep == Init => IInv
<1> SUFFICES ASSUME Init PROVE IInv
  OBVIOUS
<1>1. TypeOK
  <2>1. 0 \in 0..MaxLen /\ 0 \in 0..MaxCount
    BY BoundAssumption
  <2>2. class \in [Vars -> {"none", "string", "buffer", "cfunc", "lfunc", "header"}]
        /\ ptr \in [Places -> Blocks \cup {Null, Junk}]
    BY DEF Init
  <2>3. len \in [Places -> 0..MaxLen] /\ count \in [Vars -> 0..MaxCount]
    BY <2>1 DEF Init
  <2>4. block \in [Blocks -> {"free", "nul", "any"}]
    BY DEF Init
  <2>5. odd \in SUBSET Oddities /\ undefined \in BOOLEAN
    BY DEF Init
  <2> QED BY <2>2, <2>3, <2>4, <2>5 DEF TypeOK
<1>2. Shape
  BY DEF Init, Shape, Places
<1>3. OneOwner /\ NoLeak /\ Ended /\ UndefinedOnlyWhenOdd
  BY PointerAssumption DEF Init, OneOwner, NoLeak, Ended, UndefinedOnlyWhenOdd
<1> QED BY <1>1, <1>2, <1>3 DEF IInv

\* A stutter keeps what a state says.
LEMMA StutterStep == IInv /\ UNCHANGED vars => IInv'
<1> SUFFICES ASSUME IInv, UNCHANGED vars PROVE IInv'
  OBVIOUS
<1>1. UNCHANGED <<class, ptr, len, count, block, odd, undefined>>
  BY DEF vars
<1>2. TypeOK' /\ OneOwner' /\ NoLeak' /\ Ended' /\ UndefinedOnlyWhenOdd'
  BY <1>1 DEF IInv, TypeOK, OneOwner, NoLeak, Ended, UndefinedOnlyWhenOdd, Data
<1>3. Shape'
  BY <1>1 DEF IInv, Shape, PartsOf
<1> QED BY <1>2, <1>3 DEF IInv

\* Every operation keeps the invariant.
LEMMA NextStep == IInv /\ [Next]_vars => IInv'
<1> SUFFICES ASSUME IInv, [Next]_vars PROVE IInv'
  OBVIOUS
<1>1. ASSUME NEW v \in Vars, NEW n \in 0..MaxLen,
             \/ NewString(v, n) \/ OpenString(v, n) \/ BytesOfNull(v, n) \/ StringOfGodot(v, n)
             \/ NewBuffer(v, n)
             \/ NewCFunction(v, n) \/ NewLFunction(v, n) \/ RegisterMethod(v, n)
             \/ DefaultString(v) \/ StringOfNull(v) \/ CompareChars(v)
             \/ DefaultBuffer(v) \/ DefaultFunction(v)
      PROVE  IInv'
  BY <1>1, NewStringStep, NullStringStep, GodotStringStep, CompareStep, NewBufferStep,
     NewFunctionStep, RegisterMethodStep
<1>2. ASSUME NEW v \in Vars, Incref(v) \/ Decref(v) \/ Destroy(v)
      PROVE  IInv'
  BY <1>2, CountStep, DestroyStep
<1>3. ASSUME NEW v \in Vars, GetType(v) PROVE IInv'
  <2>1. Undefined({"header"})
    BY <1>3 DEF GetType
  <2> QED BY <2>1, UndefinedKeeps DEF Oddities, Bad
<1>4. ASSUME NEW v \in Vars, NEW off \in Offsets, NEW w \in Widths, Read(v, off, w) \/ Write(v, off, w)
      PROVE  IInv'
  BY <1>4, AccessStep
<1>5. ASSUME NEW v \in Vars, NEW off \in Offsets, NEW n \in Counts, Fill(v, off, n)
      PROVE  IInv'
  BY <1>5, FillStep
<1>6. ASSUME NEW v \in Vars, NEW w \in Vars,
             \/ CopyString(v, w) \/ AssignString(v, w) \/ CopyBuffer(v, w) \/ AssignBuffer(v, w)
             \/ BufferOfString(v, w) \/ StringOfBuffer(v, w)
             \/ CopyFunction(v, w) \/ AssignFunction(v, w) \/ NewHeader(v, w)
      PROVE  IInv'
  BY <1>6, CopyStringStep, AssignStringStep, CopyBufferStep, AssignBufferStep, ConvertStep,
     CopyFunctionStep, AssignFunctionStep, NewHeaderStep
<1>7. ASSUME NEW v \in Vars, NEW w \in Vars, NEW x \in Vars, Concat(v, w, x)
      PROVE  IInv'
  BY <1>7, ConcatStep
<1>8. ASSUME NEW v \in Vars, NEW w \in Vars, NEW off \in Offsets, NEW n \in Counts,
             ReadString(v, w, off, n) \/ WriteString(v, off, w, n)
      PROVE  IInv'
  BY <1>8, ReadStringStep, WriteStringStep
<1>9. ASSUME NEW v \in Vars, NEW w \in Vars, NEW to \in Offsets, NEW from \in Offsets,
             NEW n \in Counts, CopyBytes(v, to, w, from, n)
      PROVE  IInv'
  BY <1>9, CopyBytesStep
<1>10. CASE UNCHANGED vars
  BY <1>10, StutterStep
<1>11. 0 \in 0..MaxLen
  BY BoundAssumption
<1>12. ASSUME NEW v \in Vars,
              \/ DefaultString(v) \/ StringOfNull(v) \/ CompareChars(v)
              \/ DefaultBuffer(v) \/ DefaultFunction(v)
       PROVE  IInv'
  BY <1>1, <1>11, <1>12
<1> QED BY <1>1, <1>2, <1>3, <1>4, <1>5, <1>6, <1>7, <1>8, <1>9, <1>10, <1>12 DEF Next

\* In every behaviour of the values the invariant holds.
THEOREM Invariance == Spec => []IInv
<1>1. Init => IInv
  BY InitStep
<1>2. IInv /\ [Next]_vars => IInv'
  BY NextStep
<1> QED BY <1>1, <1>2, PTL DEF Spec

\* The variables keep their types: no length exceeds its bound, no count wraps.
THEOREM TypeCorrect == Spec => []TypeOK
<1>1. IInv => TypeOK
  BY DEF IInv
<1> QED BY <1>1, Invariance, PTL

\* No block has two owners and no value points to one that was freed, for any
\* number of strings, buffers and functions, until a buffer is assigned.
THEOREM BlocksHaveOneOwner == Spec => []OneOwner
<1>1. IInv => OneOwner
  BY DEF IInv
<1> QED BY <1>1, Invariance, PTL

\* A block that no value points to any more was given back, unless a string or a
\* buffer was assigned or a header lost its last reference.
THEOREM NothingLeaks == Spec => []NoLeak
<1>1. IInv => NoLeak
  BY DEF IInv
<1> QED BY <1>1, Invariance, PTL

\* Strings end with a NUL; that strings made of buffers do needs that buffers do.
THEOREM StringsEnd == Spec => []Terminated
<1>1. IInv => Terminated
  BY DEF IInv, Ended, Terminated
<1> QED BY <1>1, Invariance, PTL

\* For any sizes, offsets and counts below 2^64 nothing is read, written or freed
\* that is not there, but for the uses that are noted.
THEOREM UndefinedIsOdd == Spec => []UndefinedOnlyWhenOdd
<1>1. IInv => UndefinedOnlyWhenOdd
  BY DEF IInv
<1> QED BY <1>1, Invariance, PTL
=============================================================================
