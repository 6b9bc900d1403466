---------------------------- MODULE StringsProofs ----------------------------
(***************************************************************************)
(* The arena for every capacity, every set of sizes and any number of      *)
(* scopes.  BlocksAreApart is not inductive: a push after the end of a     *)
(* scope starts where the scope began, so no block that outlives a scope   *)
(* may lie across that position.  Scoped says so: for every mark a caller  *)
(* holds, the blocks pushed before it end below it and those pushed after  *)
(* it start above it.                                                      *)
(*                                                                         *)
(* And the strings on it, for every literal: a string keeps its text since *)
(* it lies in a block that was pushed in the same scope (HeldInv), so that *)
(* it is held exactly as long as its block, and what is pushed next lies   *)
(* above every block.                                                      *)
(***************************************************************************)
EXTENDS Strings, SequenceTheorems, TLAPS

Placed ==
  \A b \in live : /\ b.at % Word = 0 /\ b.at >= Header
                  /\ End(b) <= pos /\ b.depth <= Len(scopes)

Marks ==
  \A i \in 1 .. Len(scopes) :
    /\ scopes[i] >= Header /\ scopes[i] <= pos
    /\ \A j \in 1 .. i : scopes[j] <= scopes[i]

Scoped ==
  \A i \in 1 .. Len(scopes) : \A b \in live :
    IF b.depth < i THEN End(b) <= scopes[i] ELSE scopes[i] <= b.at

Disjoint == \A b, c \in live : b # c => Apart(b, c)

IInv == TypeOK /\ Placed /\ Marks /\ Scoped /\ Disjoint

-----------------------------------------------------------------------------

\* arena_align_forward moves a position up to the next multiple of a word, by
\* less than a word.
LEMMA AlignForwardRoundsUp ==
  ASSUME NEW p \in Nat
  PROVE  /\ AlignForward(p) \in Nat /\ AlignForward(p) % Word = 0
         /\ p <= AlignForward(p) /\ AlignForward(p) < p + Word
BY DEF AlignForward, Word

\* The block a push hands out.
NewBlock(size) == [at |-> AlignForward(pos), size |-> size, depth |-> Len(scopes)]

LEMMA PushKeepsInv ==
  ASSUME IInv, NEW size \in Nat, Push(size)
  PROVE  IInv'
<1> DEFINE b == NewBlock(size)
<1>1. size \in Nat /\ pos \in Nat /\ Len(scopes) \in Nat
  BY LenProperties DEF IInv, TypeOK
<1>2. /\ AlignForward(pos) \in Nat /\ AlignForward(pos) % Word = 0
      /\ pos <= AlignForward(pos)
  BY <1>1, AlignForwardRoundsUp
<1>3. /\ b \in Block /\ b.at = AlignForward(pos) /\ b.size = size
      /\ b.depth = Len(scopes) /\ End(b) = AlignForward(pos) + size
  BY <1>1, <1>2 DEF NewBlock, Block, End
<1>4. /\ pos' = End(b) /\ live' = live \cup {b} /\ scopes' = scopes
      /\ End(b) <= Capacity
  BY <1>3 DEF Push, Fits, After, NewBlock
<1>5. pos <= b.at /\ b.at <= pos' /\ pos' \in Nat
  BY <1>1, <1>2, <1>3, <1>4
<1>6. \A c \in live : c \in Block /\ End(c) \in Nat /\ End(c) <= pos
  BY DEF IInv, TypeOK, Placed, Block, End
<1> HIDE DEF b
<1>7. TypeOK'
  <2>1. live' \subseteq Block
    BY <1>3, <1>4 DEF IInv, TypeOK
  <2>2. pos' \in Nat /\ pos' >= Header /\ pos' <= Capacity
    BY <1>1, <1>3, <1>4, <1>5, CapacityAssumption DEF IInv, TypeOK, Header, Block
  <2> QED  BY <1>4, <2>1, <2>2 DEF IInv, TypeOK
<1>8. Placed'
  BY <1>1, <1>2, <1>3, <1>4, <1>5, <1>6
  DEF IInv, TypeOK, Placed, End, Header
<1>9. Marks'
  <2>1. \A i \in 1 .. Len(scopes) : scopes[i] \in Nat
    BY DEF IInv, TypeOK
  <2>2. b.at \in Nat /\ pos <= pos'
    BY <1>1, <1>3, <1>5 DEF Block
  <2> SUFFICES ASSUME NEW i \in 1 .. Len(scopes)
               PROVE  /\ scopes[i] >= Header /\ scopes[i] <= pos'
                      /\ \A j \in 1 .. i : scopes[j] <= scopes[i]
    BY <1>4 DEF Marks
  <2>3. /\ scopes[i] >= Header /\ scopes[i] <= pos
        /\ \A j \in 1 .. i : scopes[j] <= scopes[i]
    BY DEF IInv, Marks
  <2> QED  BY <1>1, <1>5, <2>1, <2>2, <2>3
<1>10. Scoped'
  <2>1. \A i \in 1 .. Len(scopes) : scopes[i] \in Nat /\ scopes[i] <= pos
    BY DEF IInv, TypeOK, Marks
  <2> SUFFICES ASSUME NEW i \in 1 .. Len(scopes), NEW c \in live \cup {b}
               PROVE  IF c.depth < i THEN End(c) <= scopes[i]
                      ELSE scopes[i] <= c.at
    BY <1>4 DEF Scoped, End
  <2>2. CASE c \in live
    BY <2>2 DEF IInv, Scoped
  <2>3. CASE c = b
    BY <1>1, <1>2, <1>3, <1>5, <2>1, <2>3
  <2> QED  BY <2>2, <2>3
<1>11. Disjoint'
  <2> SUFFICES ASSUME NEW c \in live \cup {b}, NEW d \in live \cup {b}, c # d
               PROVE  Apart(c, d)
    BY <1>4 DEF Disjoint, Apart, End
  <2>1. \A e \in live : Apart(e, b) /\ Apart(b, e)
    BY <1>1, <1>2, <1>3, <1>5, <1>6 DEF Apart
  <2> QED  BY <2>1 DEF IInv, Disjoint
<1> QED  BY <1>7, <1>8, <1>9, <1>10, <1>11 DEF IInv

LEMMA MarkKeepsInv ==
  ASSUME IInv, Mark
  PROVE  IInv'
<1>1. /\ scopes \in Seq(Nat) /\ pos \in Nat /\ Len(scopes) \in Nat
  BY LenProperties DEF IInv, TypeOK
<1>2. /\ scopes' \in Seq(Nat) /\ Len(scopes') = Len(scopes) + 1
      /\ \A i \in 1 .. Len(scopes) : scopes'[i] = scopes[i]
      /\ scopes'[Len(scopes) + 1] = pos
      /\ pos' = pos /\ live' = live
  BY <1>1, AppendProperties DEF Mark
<1>3. \A b \in live : b \in Block /\ End(b) \in Nat /\ b.depth \in Nat
  BY DEF IInv, TypeOK, Block, End
<1>4. \A i \in 1 .. Len(scopes) : scopes[i] \in Nat
  BY <1>1
<1>5. TypeOK'
  BY <1>2 DEF IInv, TypeOK
<1>6. Placed'
  BY <1>1, <1>2, <1>3 DEF IInv, Placed, End
<1>7. Marks'
  <2> SUFFICES ASSUME NEW i \in 1 .. Len(scopes) + 1
               PROVE  /\ scopes'[i] >= Header /\ scopes'[i] <= pos
                      /\ \A j \in 1 .. i : scopes'[j] <= scopes'[i]
    BY <1>2 DEF Marks
  <2>1. \A k \in 1 .. Len(scopes) :
          /\ scopes[k] >= Header /\ scopes[k] <= pos
          /\ \A j \in 1 .. k : scopes[j] <= scopes[k]
    BY DEF IInv, Marks
  <2>2. CASE i \in 1 .. Len(scopes)
    <3>1. \A j \in 1 .. i : j \in 1 .. Len(scopes) /\ scopes'[j] = scopes[j]
      BY <1>1, <1>2, <2>2
    <3> QED  BY <1>2, <2>1, <2>2, <3>1
  <2>3. CASE i = Len(scopes) + 1
    <3>1. pos >= Header /\ pos <= pos
      BY <1>1 DEF IInv, TypeOK
    <3>2. ASSUME NEW j \in 1 .. i
          PROVE  scopes'[j] <= pos
      <4>1. CASE j \in 1 .. Len(scopes)
        BY <1>2, <2>1, <4>1
      <4>2. CASE j = Len(scopes) + 1
        BY <1>2, <3>1, <4>2
      <4> QED  BY <1>1, <2>3, <4>1, <4>2
    <3> QED  BY <1>2, <2>3, <3>1, <3>2
  <2> QED  BY <1>1, <2>2, <2>3
<1>8. Scoped'
  <2> SUFFICES ASSUME NEW i \in 1 .. Len(scopes) + 1, NEW b \in live
               PROVE  IF b.depth < i THEN End(b) <= scopes'[i]
                      ELSE scopes'[i] <= b.at
    BY <1>2 DEF Scoped, End
  <2>1. CASE i \in 1 .. Len(scopes)
    BY <1>2, <2>1 DEF IInv, Scoped
  <2>2. CASE i = Len(scopes) + 1
    BY <1>1, <1>2, <1>3, <2>2 DEF IInv, Placed
  <2> QED  BY <1>1, <2>1, <2>2
<1>9. Disjoint'
  BY <1>2 DEF IInv, Disjoint, Apart, End
<1> QED  BY <1>5, <1>6, <1>7, <1>8, <1>9 DEF IInv

LEMMA PopKeepsInv ==
  ASSUME IInv, Pop
  PROVE  IInv'
<1> DEFINE n == Len(scopes)
<1>1. /\ scopes \in Seq(Nat) /\ pos \in Nat /\ n \in Nat /\ n >= 1
  BY EmptySeq, LenProperties DEF IInv, TypeOK, Pop
<1>2. /\ scopes[n] \in Nat /\ scopes[n] >= Header /\ scopes[n] <= pos
      /\ \A i \in 1 .. n : scopes[i] \in Nat
  BY <1>1 DEF IInv, Marks
<1>3. pos' = scopes[n]
  BY <1>2 DEF Pop, Header
<1>4. live' = {b \in live : b.depth < n} /\ live' \subseteq live
  BY DEF Pop
<1>5. /\ scopes' \in Seq(Nat) /\ Len(scopes') = n - 1
      /\ \A i \in 1 .. n - 1 : scopes'[i] = scopes[i]
  <2>1. scopes' = SubSeq(scopes, 1, n - 1)
    BY DEF Pop
  <2>2. \A i \in 1 .. n - 1 : scopes[i] \in Nat
    BY <1>1, <1>2
  <2>3. /\ SubSeq(scopes, 1, n - 1) \in Seq(Nat)
        /\ Len(SubSeq(scopes, 1, n - 1)) = IF 1 <= n - 1 THEN (n - 1) - 1 + 1 ELSE 0
        /\ \A i \in 1 .. (n - 1) - 1 + 1 :
             SubSeq(scopes, 1, n - 1)[i] = scopes[1 + i - 1]
    BY <1>1, <2>2, SubSeqProperties
  <2> HIDE DEF n
  <2>4. (IF 1 <= n - 1 THEN (n - 1) - 1 + 1 ELSE 0) = n - 1
        /\ (n - 1) - 1 + 1 = n - 1 /\ \A i \in 1 .. n - 1 : 1 + i - 1 = i
    BY <1>1
  <2> QED  BY <2>1, <2>3, <2>4
<1>6. \A b \in live : b \in Block /\ End(b) \in Nat /\ b.depth \in Nat
  BY DEF IInv, TypeOK, Block, End
<1> HIDE DEF n
<1>7. TypeOK'
  BY <1>1, <1>2, <1>3, <1>4, <1>5, CapacityAssumption DEF IInv, TypeOK, Header
<1>8. Placed'
  <2>1. \A b \in live' : End(b) <= scopes[n] /\ b.depth <= n - 1
    BY <1>1, <1>4, <1>6 DEF IInv, Scoped, n
  <2> QED  BY <1>3, <1>4, <1>5, <2>1 DEF IInv, Placed, End
<1>9. Marks'
  <2> SUFFICES ASSUME NEW i \in 1 .. n - 1
               PROVE  /\ scopes'[i] >= Header /\ scopes'[i] <= pos'
                      /\ \A j \in 1 .. i : scopes'[j] <= scopes'[i]
    BY <1>5 DEF Marks
  <2>1. i \in 1 .. n /\ n \in 1 .. n /\ i \in 1 .. n
    BY <1>1
  <2>2. /\ scopes[i] >= Header /\ scopes[i] <= scopes[n]
        /\ \A j \in 1 .. i : scopes[j] <= scopes[i]
    BY <2>1 DEF IInv, Marks, n
  <2>3. \A j \in 1 .. i : j \in 1 .. n - 1
    BY <1>1
  <2> QED  BY <1>3, <1>5, <2>2, <2>3
<1>10. Scoped'
  <2> SUFFICES ASSUME NEW i \in 1 .. n - 1, NEW b \in live'
               PROVE  IF b.depth < i THEN End(b) <= scopes[i]
                      ELSE scopes[i] <= b.at
    BY <1>5 DEF Scoped, End
  <2> QED  BY <1>1, <1>4 DEF IInv, Scoped, n
<1>11. Disjoint'
  BY <1>4 DEF IInv, Disjoint, Apart, End
<1> QED  BY <1>7, <1>8, <1>9, <1>10, <1>11 DEF IInv

-----------------------------------------------------------------------------

LEMMA InitInv == Init => IInv
<1> SUFFICES ASSUME Init PROVE IInv
  OBVIOUS
<1>1. scopes \in Seq(Nat) /\ Len(scopes) = 0
  BY EmptySeq DEF Init
<1> QED
  BY <1>1
  DEF Init, IInv, TypeOK, Placed, Marks, Scoped, Disjoint, Header

LEMMA NextInv == IInv /\ [Next]_vars => IInv'
<1> SUFFICES ASSUME IInv, [Next]_vars PROVE IInv'
  OBVIOUS
<1>1. CASE \E size \in Sizes : Push(size)
  BY <1>1, PushKeepsInv, SizesAssumption
<1>2. CASE Mark
  BY <1>2, MarkKeepsInv
<1>3. CASE Pop
  BY <1>3, PopKeepsInv
<1>4. CASE Clear
  <2>1. Len(scopes') = 0 /\ scopes' \in Seq(Nat)
    BY <1>4, EmptySeq DEF Clear
  <2> QED
    BY <1>4, <2>1
    DEF Clear, IInv, TypeOK, Placed, Marks, Scoped, Disjoint, Header
<1>5. CASE UNCHANGED vars
  BY <1>5
  DEF vars, IInv, TypeOK, Placed, Marks, Scoped, Disjoint, Apart, End
<1> QED
  <2>1. (\E size \in Sizes : PushFails(size)) => UNCHANGED vars
    BY DEF PushFails
  <2> QED  BY <1>1, <1>2, <1>3, <1>4, <1>5, <2>1 DEF Next

LEMMA Invariance == Spec => []IInv
<1> QED  BY InitInv, NextInv, PTL DEF Spec

LEMMA InvIsEnough == IInv => BlocksAreApart
<1> SUFFICES ASSUME IInv PROVE BlocksAreApart
  OBVIOUS
<1>1. pos \in Nat /\ pos <= Allocated
  BY CapacityAssumption DEF IInv, TypeOK, Allocated, Header
<1>2. \A b \in live : End(b) \in Nat
  BY DEF IInv, TypeOK, Block, End
<1>3. \A b \in live : b.at % Word = 0 /\ b.at >= Header /\ End(b) <= Allocated
  BY <1>1, <1>2, CapacityAssumption DEF IInv, Placed, Allocated, Header
<1> QED  BY <1>3 DEF IInv, Disjoint, BlocksAreApart

\* The position stays between the header and the capacity, and what callers
\* hold are blocks and marks.
THEOREM TypeCorrect == Spec => []TypeOK
<1>1. IInv => TypeOK
  BY DEF IInv
<1> QED  BY <1>1, Invariance, PTL

\* Whatever the capacity, the sizes and the nesting of the scopes, the blocks
\* callers hold are aligned, inside the allocation and apart.
THEOREM BlocksAreApartTheorem == Spec => []BlocksAreApart
<1> QED  BY InvIsEnough, Invariance, PTL

-----------------------------------------------------------------------------
(* The strings *)

HeldInv ==
  \A h \in held :
    /\ h.at \in Nat /\ h.length \in Nat /\ h.depth \in 0 .. MaxScopes
    /\ h.at + h.length <= Allocated
    /\ ~laittOnly =>
         \E b \in live : b.at = h.at /\ h.length <= b.size /\ b.depth = h.depth

StringsInv ==
  /\ IInv /\ Len(scopes) <= MaxScopes
  /\ mem \in [Memory -> 0 .. 255]
  /\ laittOnly \in BOOLEAN /\ crashed \in BOOLEAN
  /\ HeldInv /\ StringsKeepTheirText

\* A string whose bytes can be read: none of them is in the part of the arena
\* that is free.
Readable(s) ==
  /\ s.at \in Nat /\ s.length \in Nat
  /\ s.at + s.length <= Allocated + Len(Literal)
  /\ s.at + s.length <= pos \/ s.at >= Allocated

-----------------------------------------------------------------------------

LEMMA Limits ==
  /\ Allocated \in Nat /\ Capacity \in Nat /\ Capacity < Allocated
  /\ Len(Literal) \in Nat /\ Literal \in Seq(1 .. 255)
  /\ \A i \in 1 .. Len(Literal) : Literal[i] \in 0 .. 255
<1>1. Len(Literal) \in Nat /\ Literal \in Seq(1 .. 255)
  BY LiteralAssumption, LenProperties
<1>2. \A i \in 1 .. Len(Literal) : Literal[i] \in 1 .. 255
  BY <1>1, ElementOfSeq
<1> QED  BY <1>1, <1>2, CapacityAssumption DEF Allocated, Header

\* str8_substring stays inside the string.
LEMMA SubstringInside ==
  ASSUME NEW s, s.at \in Nat, s.length \in Nat, NEW start \in Nat, NEW end \in Nat
  PROVE  LET to == IF end <= s.length THEN end ELSE s.length
             from == IF start <= to THEN start ELSE to
         IN Substring(s, start, end) = [at |-> s.at + from, length |-> to - from]
<1>1. ASSUME NEW a \in Nat, NEW b \in Nat
      PROVE  Min({a, b}) = IF a <= b THEN a ELSE b
  BY DEF Min
<1> QED  BY <1>1 DEF Substring

LEMMA SubstringReadable ==
  ASSUME StringsInv, NEW s, Readable(s), NEW start \in Nat, NEW end \in Nat
  PROVE  /\ Readable(Substring(s, start, end))
         /\ Substring(s, start, end).length <= s.length
<1> DEFINE to == IF end <= s.length THEN end ELSE s.length
           from == IF start <= to THEN start ELSE to
<1>1. /\ s.at \in Nat /\ s.length \in Nat
      /\ Substring(s, start, end) = [at |-> s.at + from, length |-> to - from]
  BY SubstringInside DEF Readable
<1>2. from \in Nat /\ to \in Nat /\ from <= to /\ to <= s.length
  BY <1>1
<1> HIDE DEF from, to
<1>3. /\ s.at + from \in Nat /\ to - from \in Nat /\ to - from <= s.length
      /\ (s.at + from) + (to - from) <= s.at + s.length
  BY <1>1, <1>2
<1>4. pos \in Nat
  BY DEF StringsInv, IInv, TypeOK
<1> QED  BY <1>1, <1>2, <1>3, <1>4, Limits DEF Readable

LEMMA HeldReadable ==
  ASSUME StringsInv, ~laittOnly
  PROVE  \A s \in Strings : Readable(s)
<1>1. ASSUME NEW h \in held PROVE Readable([at |-> h.at, length |-> h.length])
  <2>1. PICK b \in live : b.at = h.at /\ h.length <= b.size
    BY DEF StringsInv, HeldInv
  <2>2. b \in Block /\ b.at + b.size <= pos /\ pos \in Nat
    BY DEF StringsInv, IInv, TypeOK, Placed, End
  <2>3. h.at \in Nat /\ h.length \in Nat /\ h.at + h.length <= Allocated
    BY DEF StringsInv, HeldInv
  <2> QED  BY <2>1, <2>2, <2>3, Limits DEF Readable, Block
<1>2. Readable(TheLiteral)
  BY Limits DEF Readable, TheLiteral
<1> QED  BY <1>1, <1>2 DEF Strings

LEMMA BytesAreBytes ==
  ASSUME NEW m \in [Memory -> 0 .. 255], NEW s, Readable(s)
  PROVE  /\ Bytes(m, s) \in Seq(0 .. 255) /\ Len(Bytes(m, s)) = s.length
         /\ \A i \in 1 .. s.length : /\ s.at + i - 1 \in Memory
                                     /\ Bytes(m, s)[i] = m[s.at + i - 1]
<1>1. \A i \in 1 .. s.length : s.at + i - 1 \in Memory
  BY Limits DEF Readable, Memory
<1>2. Bytes(m, s) \in [1 .. s.length -> 0 .. 255]
  BY <1>1 DEF Bytes
<1>3. s.length \in Nat
  BY DEF Readable
<1>4. Bytes(m, s) \in Seq(0 .. 255)
  <2>1. Bytes(m, s) \in UNION {[1 .. n -> 0 .. 255] : n \in Nat}
    BY <1>2, <1>3
  <2> QED  BY <2>1, SeqDef, Zenon
<1>5. Len(Bytes(m, s)) = s.length
  BY <1>2, <1>3, <1>4, LenProperties
<1> QED  BY <1>1, <1>4, <1>5 DEF Bytes

LEMMA WrittenBytes ==
  ASSUME NEW m \in [Memory -> 0 .. 255], NEW at \in Nat, NEW bytes \in Seq(0 .. 255)
  PROVE  /\ Written(m, at, bytes) \in [Memory -> 0 .. 255]
         /\ \A a \in Memory : Written(m, at, bytes)[a] =
              IF at <= a /\ a < at + Len(bytes) THEN bytes[a - at + 1] ELSE m[a]
<1>1. Len(bytes) \in Nat /\ \A i \in 1 .. Len(bytes) : bytes[i] \in 0 .. 255
  BY LenProperties, ElementOfSeq
<1>2. \A a \in Memory : a \in Nat
  BY Limits DEF Memory
<1>3. \A a \in Memory : /\ a \in at .. at + Len(bytes) - 1 <=>
                              at <= a /\ a < at + Len(bytes)
                        /\ a \in at .. at + Len(bytes) - 1 =>
                              a - at + 1 \in 1 .. Len(bytes)
  BY <1>1, <1>2
<1> QED  BY <1>1, <1>3 DEF Written

-----------------------------------------------------------------------------

\* str8_concat, str8_copy and lmp_log_build_service_string: the texts of both
\* strings are in the new block, and no other string has changed.
LEMMA MakeKeepsStrings ==
  ASSUME StringsInv, NEW size \in Nat, NEW s, NEW t, Readable(s), Readable(t),
         s.length + t.length <= size, Make(size, s, t)
  PROVE  StringsInv'
<1> DEFINE at == AlignForward(pos)
           zeroed == Written(mem, at, Zeros(size))
           first == Written(zeroed, at, Bytes(zeroed, s))
<1>1. /\ ~laittOnly /\ UNCHANGED laittOnly /\ mem \in [Memory -> 0 .. 255]
      /\ IInv /\ pos \in Nat /\ Len(scopes) \in 0 .. MaxScopes
  BY LenProperties, MaxScopesAssumption DEF Make, MayPush, StringsInv, IInv, TypeOK
<1>2. CASE PushFails(size) /\ crashed' = (size > 0) /\ UNCHANGED <<mem, held>>
  <2>1. UNCHANGED <<pos, scopes, live, mem, held, laittOnly>> /\ crashed' \in BOOLEAN
    BY <1>1, <1>2 DEF PushFails, vars
  <2>2. IInv'
    BY <1>1, <2>1 DEF IInv, TypeOK, Placed, Marks, Scoped, Disjoint, Apart, End
  <2> QED
    BY <2>1, <2>2 DEF StringsInv, HeldInv, StringsKeepTheirText, Bytes
<1>3. CASE Push(size) /\ UNCHANGED crashed /\ ~PushFails(size)
  <2> DEFINE new == [at |-> at, length |-> s.length + t.length,
                     depth |-> Len(scopes), text |-> Bytes(mem, s) \o Bytes(mem, t)]
             block == NewBlock(size)
  <2>1. /\ mem' = Written(first, at + s.length, Bytes(first, t))
        /\ held' = held \cup {new}
    BY <1>3 DEF Make, JoinedAt, Length
  <2>2. IInv' /\ Len(scopes') <= MaxScopes
    BY <1>1, <1>3, PushKeepsInv DEF Push
  <2>3. /\ at \in Nat /\ pos <= at /\ at + size <= Capacity
        /\ live' = live \cup {block} /\ block.at = at /\ block.size = size
        /\ block.depth = Len(scopes)
    BY <1>1, <1>3, AlignForwardRoundsUp DEF Push, Fits, NewBlock
  <2>4. /\ Zeros(size) \in Seq(0 .. 255) /\ Len(Zeros(size)) = size
    <3>1. Zeros(size) \in [1 .. size -> 0 .. 255]
      BY DEF Zeros
    <3>2. Zeros(size) \in UNION {[1 .. n -> 0 .. 255] : n \in Nat}
      BY <3>1
    <3>3. Zeros(size) \in Seq(0 .. 255)
      BY <3>2, SeqDef, Zenon
    <3> QED  BY <3>1, <3>3, LenProperties
  <2> HIDE DEF at, block
  <2>5. /\ zeroed \in [Memory -> 0 .. 255]
        /\ \A a \in Memory : ~(at <= a /\ a < at + size) => zeroed[a] = mem[a]
    <3>1. /\ zeroed \in [Memory -> 0 .. 255]
          /\ \A a \in Memory : zeroed[a] =
               IF at <= a /\ a < at + Len(Zeros(size)) THEN Zeros(size)[a - at + 1]
               ELSE mem[a]
      BY <1>1, <2>3, <2>4, WrittenBytes
    <3> QED  BY <2>4, <3>1
  <2> HIDE DEF zeroed
  \* What can be read is not in the new block.
  <2>6. ASSUME NEW r, Readable(r), NEW i \in 1 .. r.length
        PROVE  /\ r.at + i - 1 \in Memory
               /\ ~(at <= r.at + i - 1 /\ r.at + i - 1 < at + size)
    <3>1. r.at + i - 1 \in Memory
      BY <1>1, <2>6, BytesAreBytes
    <3>2. r.at \in Nat /\ r.length \in Nat
          /\ (r.at + r.length <= pos \/ r.at >= Allocated)
      BY <2>6 DEF Readable
    <3> QED  BY <1>1, <2>3, <3>1, <3>2, Limits
  <2>7. /\ Bytes(zeroed, s) \in Seq(0 .. 255) /\ Len(Bytes(zeroed, s)) = s.length
        /\ \A i \in 1 .. s.length : Bytes(zeroed, s)[i] = mem[s.at + i - 1]
    BY <2>5, <2>6, BytesAreBytes
  <2>8. s.length \in Nat /\ t.length \in Nat
    BY DEF Readable
  <2>9. /\ first \in [Memory -> 0 .. 255]
        /\ \A a \in Memory : first[a] =
             IF at <= a /\ a < at + s.length THEN mem[s.at + (a - at + 1) - 1]
             ELSE zeroed[a]
    <3>1. /\ first \in [Memory -> 0 .. 255]
          /\ \A a \in Memory : first[a] =
               IF at <= a /\ a < at + Len(Bytes(zeroed, s))
               THEN Bytes(zeroed, s)[a - at + 1] ELSE zeroed[a]
      BY <2>3, <2>5, <2>7, WrittenBytes
    <3>2. \A a \in Memory : at <= a /\ a < at + s.length =>
                              a - at + 1 \in 1 .. s.length
      BY <2>3, <2>8, Limits DEF Memory
    <3> QED  BY <2>7, <3>1, <3>2
  <2> HIDE DEF first
  <2>10. \A a \in Memory : ~(at <= a /\ a < at + size) => first[a] = mem[a]
    BY <2>3, <2>5, <2>8, <2>9, Limits DEF Memory
  <2>11. /\ Bytes(first, t) \in Seq(0 .. 255) /\ Len(Bytes(first, t)) = t.length
         /\ \A i \in 1 .. t.length : Bytes(first, t)[i] = mem[t.at + i - 1]
    BY <2>6, <2>9, <2>10, BytesAreBytes
  <2>12. /\ mem' \in [Memory -> 0 .. 255]
         /\ \A a \in Memory : mem'[a] =
              IF at + s.length <= a /\ a < at + s.length + t.length
              THEN mem[t.at + (a - (at + s.length) + 1) - 1] ELSE first[a]
    <3> DEFINE to == at + s.length
               written == Bytes(first, t)
    <3>0. to \in Nat /\ written \in Seq(0 .. 255) /\ mem' = Written(first, to, written)
      BY <2>1, <2>3, <2>8, <2>11
    <3> HIDE DEF to, written
    <3>1. /\ mem' \in [Memory -> 0 .. 255]
          /\ \A a \in Memory : mem'[a] =
               IF to <= a /\ a < to + Len(written)
               THEN written[a - to + 1] ELSE first[a]
      BY <2>9, <3>0, WrittenBytes
    <3>2. \A a \in Memory : at + s.length <= a /\ a < at + s.length + t.length =>
                              a - (at + s.length) + 1 \in 1 .. t.length
      BY <2>3, <2>8, Limits DEF Memory
    <3> QED  BY <2>11, <3>1, <3>2 DEF to, written
  <2>13. \A a \in Memory : ~(at <= a /\ a < at + size) => mem'[a] = mem[a]
    <3>1. \A a \in Memory : a \in Nat
      BY Limits DEF Memory
    <3>2. \A a \in Nat : at + s.length <= a /\ a < at + s.length + t.length
                            => at <= a /\ a < at + size
      BY <2>3, <2>8
    <3> QED  BY <2>10, <2>12, <3>1, <3>2
  <2>14. \A h \in held : Bytes(mem', h) = h.text
    <3> SUFFICES ASSUME NEW h \in held PROVE Bytes(mem', h) = h.text
      OBVIOUS
    <3> DEFINE r == [at |-> h.at, length |-> h.length]
    <3>1. r \in Strings
      BY DEF Strings
    <3>2. Readable(r) /\ r.at = h.at /\ r.length = h.length
      BY <1>1, <3>1, HeldReadable
    <3> HIDE DEF r
    <3>3. \A i \in 1 .. h.length : mem'[h.at + i - 1] = mem[h.at + i - 1]
      BY <2>6, <2>13, <3>2
    <3> QED  BY <3>3 DEF StringsInv, StringsKeepTheirText, Bytes
  <2>15. Bytes(mem', new) = new.text
    <3> DEFINE n == s.length + t.length
    <3>1. /\ Bytes(mem, s) \in Seq(0 .. 255) /\ Len(Bytes(mem, s)) = s.length
          /\ \A i \in 1 .. s.length : Bytes(mem, s)[i] = mem[s.at + i - 1]
          /\ Bytes(mem, t) \in Seq(0 .. 255) /\ Len(Bytes(mem, t)) = t.length
          /\ \A i \in 1 .. t.length : Bytes(mem, t)[i] = mem[t.at + i - 1]
      BY <1>1, BytesAreBytes
    <3>2. /\ new.text \in Seq(0 .. 255) /\ Len(new.text) = n
          /\ \A i \in 1 .. n : new.text[i] =
               IF i <= s.length THEN mem[s.at + i - 1]
               ELSE mem[t.at + (i - s.length) - 1]
      <4>1. \A i \in 1 .. n : IF i <= s.length THEN i \in 1 .. s.length
                              ELSE i - s.length \in 1 .. t.length
        BY <2>8
      <4>2. /\ new.text \in Seq(0 .. 255)
            /\ Len(new.text) = Len(Bytes(mem, s)) + Len(Bytes(mem, t))
            /\ \A i \in 1 .. Len(Bytes(mem, s)) + Len(Bytes(mem, t)) : new.text[i] =
                 IF i <= Len(Bytes(mem, s)) THEN Bytes(mem, s)[i]
                 ELSE Bytes(mem, t)[i - Len(Bytes(mem, s))]
        BY <3>1, ConcatProperties
      <4> HIDE DEF new
      <4>3. /\ new.text \in Seq(0 .. 255) /\ Len(new.text) = n
            /\ \A i \in 1 .. n : new.text[i] =
                 IF i <= s.length THEN Bytes(mem, s)[i]
                 ELSE Bytes(mem, t)[i - s.length]
        BY <3>1, <4>2
      <4>4. \A i \in 1 .. n : i <= s.length => Bytes(mem, s)[i] = mem[s.at + i - 1]
        BY <3>1, <4>1
      <4>5. \A i \in 1 .. n : ~(i <= s.length) =>
              Bytes(mem, t)[i - s.length] = mem[t.at + (i - s.length) - 1]
        BY <3>1, <4>1
      <4> HIDE DEF n
      <4> QED  BY <4>3, <4>4, <4>5
    <3>3. \A i \in 1 .. n : /\ at + i - 1 \in Memory
                            /\ mem'[at + i - 1] =
                                 IF i <= s.length THEN mem[s.at + i - 1]
                                 ELSE mem[t.at + (i - s.length) - 1]
      <4> TAKE i \in 1 .. n
      <4>1. at + i - 1 \in Memory
        BY <2>3, <2>8, Limits DEF Memory
      <4>2. CASE i <= s.length
        <5> DEFINE a == at + i - 1
        <5>1. /\ a \in Memory /\ at <= a /\ a < at + s.length
              /\ ~(at + s.length <= a) /\ a - at + 1 = i
          BY <2>3, <2>8, <4>1, <4>2
        <5> HIDE DEF a
        <5>2. mem'[a] = mem[s.at + i - 1]
          BY <2>9, <2>12, <5>1
        <5> QED  BY <4>1, <4>2, <5>2 DEF a
      <4>3. CASE i > s.length
        <5>1. /\ at + s.length <= at + i - 1 /\ at + i - 1 < at + s.length + t.length
              /\ (at + i - 1) - (at + s.length) + 1 = i - s.length
          BY <2>3, <2>8, <4>3
        <5> QED  BY <2>8, <2>12, <4>1, <4>3, <5>1
      <4> QED  BY <2>8, <4>2, <4>3
    <3>4. Bytes(mem', new) = [i \in 1 .. n |-> mem'[at + i - 1]]
      BY DEF Bytes
    <3>5. new.text \in [1 .. n -> 0 .. 255]
      BY <3>2, LenProperties
    <3> HIDE DEF new, n
    <3> QED  BY <3>2, <3>3, <3>4, <3>5
  <2>16. StringsKeepTheirText'
    BY <2>1, <2>14, <2>15 DEF StringsKeepTheirText, Bytes
  <2>17. HeldInv'
    <3>1. /\ new.at = at /\ new.length = s.length + t.length
          /\ new.depth = Len(scopes)
      OBVIOUS
    <3>2. /\ new.at \in Nat /\ new.length \in Nat /\ new.depth \in 0 .. MaxScopes
          /\ new.at + new.length <= Allocated
      BY <1>1, <2>3, <2>8, <3>1, Limits
    <3>3. block.at = new.at /\ new.length <= block.size /\ block.depth = new.depth
      BY <2>3, <3>1
    <3> HIDE DEF new
    <3> QED  BY <1>1, <2>1, <2>3, <3>2, <3>3 DEF StringsInv, HeldInv
  <2> QED
    BY <1>1, <1>3, <2>2, <2>12, <2>16, <2>17 DEF StringsInv
<1> QED  BY <1>2, <1>3 DEF Make, Push, PushFails

LEMMA InitStringsInv == StringsInit => StringsInv
<1> SUFFICES ASSUME StringsInit PROVE StringsInv
  OBVIOUS
<1>1. IInv /\ Len(scopes) <= MaxScopes
  BY InitInv, EmptySeq, MaxScopesAssumption DEF StringsInit, Init
<1>2. mem \in [Memory -> 0 .. 255]
  <2>1. \A a \in Memory : /\ a \in Nat
                          /\ ~(a < Allocated) => a - Allocated + 1 \in 1 .. Len(Literal)
    BY Limits DEF Memory
  <2> QED  BY <2>1, Limits DEF StringsInit
<1> QED
  BY <1>1, <1>2 DEF StringsInit, StringsInv, HeldInv, StringsKeepTheirText

\* What the string functions are called with.
LEMMA SlicesReadable ==
  ASSUME StringsInv, ~laittOnly, NEW s \in Slices
  PROVE  Readable(s) /\ Readable(Empty(s)) /\ Empty(s).length = 0
<1>1. PICK r \in Strings, i \in 0 .. 1, j \in 0 .. Len(Literal) + 1 :
        s = Substring(r, i, j)
  BY DEF Slices
<1>2. i \in Nat /\ j \in Nat /\ Readable(r)
  BY HeldReadable, Limits
<1>3. Readable(s)
  BY <1>1, <1>2, SubstringReadable
<1>4. Empty(s) = [at |-> s.at, length |-> 0]
  BY <1>3, SubstringInside DEF Empty, Readable
<1> QED  BY <1>3, <1>4, SubstringReadable DEF Empty

\* A copy, a service string and a concatenation are one Make each.
LEMMA AllocatingIsMaking ==
  ASSUME StringsInv, NEW s \in Slices,
         \/ Copy(s) \/ ServiceString(s, TheLiteral)
         \/ \E t \in Strings : Concat(s, t)
  PROVE  \E t : \E size \in Nat :
           /\ Readable(s) /\ Readable(t) /\ s.length + t.length <= size
           /\ Make(size, s, t)
<1>1. ~laittOnly
  BY DEF Copy, ServiceString, Concat, Make, MayPush
<1>2. /\ Readable(s) /\ Readable(Empty(s)) /\ Empty(s).length = 0
      /\ \A t \in Strings : Readable(t)
  BY <1>1, SlicesReadable, HeldReadable
<1>3. ASSUME NEW t, Readable(t), NEW size, NEW n \in {0, 1},
             size = s.length + t.length + n
      PROVE  size \in Nat /\ s.length + t.length <= size
  BY <1>2, <1>3 DEF Readable
<1>4. CASE Copy(s)
  <2>1. s.length = s.length + Empty(s).length + 0
    BY <1>2 DEF Readable
  <2> QED  BY <1>2, <1>3, <1>4, <2>1 DEF Copy
<1>5. CASE ServiceString(s, TheLiteral)
  <2>1. TheLiteral \in Strings
    BY DEF Strings
  <2>2. Make(s.length + TheLiteral.length + 1, s, TheLiteral)
    BY <1>5 DEF ServiceString, Length
  <2> QED  BY <1>2, <1>3, <2>1, <2>2
<1>6. ASSUME NEW t \in Strings, Concat(s, t)
      PROVE  \E size \in Nat : s.length + t.length <= size /\ Make(size, s, t)
  <2>1. Make(s.length + t.length, s, t) /\ Readable(t)
    BY <1>2, <1>6 DEF Concat, Length
  <2>2. s.length + t.length = s.length + t.length + 0
    BY <1>2, <2>1 DEF Readable
  <2> QED  BY <1>3, <2>1, <2>2
<1> QED  BY <1>2, <1>4, <1>5, <1>6

LEMMA ScopesKeepStrings ==
  ASSUME StringsInv, PopStrings \/ MarkStrings \/ ClearStrings
  PROVE  StringsInv'
<1>1. /\ scopes \in Seq(Nat) /\ Len(scopes) \in 0 .. MaxScopes /\ pos \in Nat
      /\ \A i \in 1 .. Len(scopes) : scopes[i] \in Nat
  BY LenProperties, ElementOfSeq, MaxScopesAssumption DEF StringsInv, IInv, TypeOK
<1>2. CASE PopStrings
  <2> DEFINE n == Len(scopes)
  <2>1. /\ Pop /\ held' = {h \in held : h.depth < n}
        /\ UNCHANGED <<mem, laittOnly, crashed>>
    BY <1>2 DEF PopStrings
  <2>2. IInv' /\ live' = {b \in live : b.depth < n}
    BY <2>1, PopKeepsInv DEF StringsInv, Pop
  <2>3. Len(scopes') <= MaxScopes
    <3>1. scopes' = SubSeq(scopes, 1, n - 1) /\ n \in Nat /\ n - 1 \in Int
      BY <1>1, <2>1 DEF Pop
    <3>2. \A i \in 1 .. n - 1 : scopes[i] \in Nat
      BY <1>1, <3>1
    <3>3. Len(scopes') = IF 1 <= n - 1 THEN (n - 1) - 1 + 1 ELSE 0
      BY <3>1, <3>2, SubSeqProperties
    <3> QED  BY <1>1, <3>1, <3>3, MaxScopesAssumption
  <2>4. HeldInv'
    BY <2>1, <2>2 DEF StringsInv, HeldInv
  <2>5. StringsKeepTheirText'
    BY <2>1 DEF StringsInv, StringsKeepTheirText, Bytes
  <2> QED  BY <2>1, <2>2, <2>3, <2>4, <2>5 DEF StringsInv
<1>3. CASE ClearStrings
  <2>1. Clear /\ UNCHANGED <<mem, crashed>>
    BY <1>3 DEF ClearStrings
  <2>2. IInv' /\ Len(scopes') <= MaxScopes
    <3>1. [Next]_vars
      BY <2>1 DEF Next
    <3> QED  BY <1>1, <2>1, <3>1, NextInv DEF StringsInv, Clear
  <2>3. CASE held' = {} /\ UNCHANGED laittOnly
    BY <2>1, <2>2, <2>3 DEF StringsInv, HeldInv, StringsKeepTheirText
  <2>4. CASE laittOnly' = TRUE /\ UNCHANGED held
    BY <2>1, <2>2, <2>4 DEF StringsInv, HeldInv, StringsKeepTheirText, Bytes
  <2> QED  BY <1>3, <2>3, <2>4 DEF ClearStrings
<1>4. CASE MarkStrings
  <2>1. Mark /\ UNCHANGED <<mem, held, laittOnly, crashed, live>>
    BY <1>4 DEF MarkStrings, Mark
  <2>2. IInv'
    BY <2>1, MarkKeepsInv DEF StringsInv
  <2>3. Len(scopes') <= MaxScopes
    <3>1. Len(scopes') = Len(scopes) + 1 /\ Len(scopes) < MaxScopes
      BY <1>1, <2>1, AppendProperties DEF Mark
    <3> QED  BY <1>1, <3>1, MaxScopesAssumption
  <2> QED
    BY <2>1, <2>2, <2>3 DEF StringsInv, HeldInv, StringsKeepTheirText, Bytes
<1> QED  BY <1>2, <1>3, <1>4

LEMMA NextStringsInv == StringsInv /\ [StringsNext]_stringVars => StringsInv'
<1> SUFFICES ASSUME StringsInv, [StringsNext]_stringVars PROVE StringsInv'
  OBVIOUS
<1>1. CASE UNCHANGED stringVars
  <2>1. UNCHANGED <<pos, scopes, live, mem, held, laittOnly, crashed>>
    BY <1>1 DEF stringVars, vars
  <2>2. IInv'
    BY <2>1, NextInv DEF StringsInv, vars
  <2> QED
    BY <2>1, <2>2 DEF StringsInv, HeldInv, StringsKeepTheirText, Bytes
<1>2. ASSUME NEW s \in Slices,
             \/ Copy(s) \/ ServiceString(s, TheLiteral)
             \/ \E t \in Strings : Concat(s, t)
      PROVE  StringsInv'
  BY <1>2, AllocatingIsMaking, MakeKeepsStrings
<1> QED  BY <1>1, <1>2, ScopesKeepStrings DEF StringsNext

LEMMA StringsInvariance == StringsSpec => []StringsInv
<1> QED  BY InitStringsInv, NextStringsInv, PTL DEF StringsSpec

\* Under the strings the arena keeps its blocks apart as it does by itself.
THEOREM BlocksUnderStrings == StringsSpec => [](TypeOK /\ BlocksAreApart)
<1>1. StringsInv => TypeOK /\ BlocksAreApart
  BY InvIsEnough DEF StringsInv, IInv
<1> QED  BY <1>1, StringsInvariance, PTL

\* A string keeps the text it was made with as long as it is held, through
\* every push, pop and clear and whatever is copied into other blocks.
THEOREM StringsKeepTheirTextTheorem == StringsSpec => []StringsKeepTheirText
<1>1. StringsInv => StringsKeepTheirText
  BY DEF StringsInv
<1> QED  BY <1>1, StringsInvariance, PTL

\* The strings callers hold lie inside the allocation, and every byte of it is
\* one.
THEOREM StringsTypeCorrect == StringsSpec => []StringsTypeOK
<1>1. StringsInv => StringsTypeOK
  <2> SUFFICES ASSUME StringsInv PROVE StringsTypeOK
    OBVIOUS
  <2>1. ASSUME NEW h \in held PROVE Len(h.text) = h.length
    <3>1. h.length \in Nat /\ h.text = Bytes(mem, h)
      BY DEF StringsInv, HeldInv, StringsKeepTheirText
    <3>3. h.text \in [1 .. h.length -> {mem[h.at + i - 1] : i \in 1 .. h.length}]
      BY <3>1 DEF Bytes
    <3>4. h.text \in UNION {[1 .. n -> {mem[h.at + i - 1] : i \in 1 .. h.length}] : n \in Nat}
      BY <3>1, <3>3
    <3>5. h.text \in Seq({mem[h.at + i - 1] : i \in 1 .. h.length})
      BY <3>4, SeqDef, Zenon
    <3> QED  BY <3>1, <3>3, <3>5, LenProperties
  <2>2. \A h \in held : h.at \in 0 .. Allocated /\ h.at + h.length <= Allocated
                        /\ h.depth \in 0 .. MaxScopes
    BY Limits DEF StringsInv, HeldInv
  <2> QED  BY <2>1, <2>2 DEF StringsInv, StringsTypeOK
<1> QED  BY <1>1, StringsInvariance, PTL

-----------------------------------------------------------------------------
(* str8_contains *)

\* The substring of the right length at place i, if it fits, is SubSeq of the
\* text; a place too near the end has a shorter one.
LEMMA SubstringIsSubSeq ==
  ASSUME NEW s, s.at \in Nat, s.length \in Nat, NEW n \in Nat, NEW i \in Nat,
         i + n <= s.length
  PROVE  Bytes(mem, Substring(s, i, i + n)) = SubSeq(Bytes(mem, s), i + 1, i + n)
<1> DEFINE part == SubSeq(Bytes(mem, s), i + 1, i + n)
           R == {mem[a] : a \in Nat}
<1>1. Substring(s, i, i + n) = [at |-> s.at + i, length |-> n]
  <2>1. i + n \in Nat
    OBVIOUS
  <2> QED  BY <2>1, SubstringInside
<1>2. \A k \in i + 1 .. i + n : Bytes(mem, s)[k] = mem[s.at + k - 1] /\ s.at + k - 1 \in Nat
  BY DEF Bytes
<1>3. \A k \in i + 1 .. i + n : Bytes(mem, s)[k] \in R
  BY <1>2
<1>4. /\ part \in Seq(R)
      /\ Len(part) = IF i + 1 <= i + n THEN (i + n) - (i + 1) + 1 ELSE 0
      /\ \A k \in 1 .. (i + n) - (i + 1) + 1 : part[k] = Bytes(mem, s)[i + 1 + k - 1]
  <2>1. i + 1 \in Int /\ i + n \in Int
    OBVIOUS
  <2> HIDE DEF R
  <2> QED  BY <1>3, <2>1, SubSeqProperties
<1> HIDE DEF part
<1>5. Len(part) = n /\ \A k \in 1 .. n : part[k] = mem[(s.at + i) + k - 1]
  <2>1. /\ (i + n) - (i + 1) + 1 = n
        /\ (IF i + 1 <= i + n THEN (i + n) - (i + 1) + 1 ELSE 0) = n
    OBVIOUS
  <2>2. \A k \in 1 .. n : /\ i + 1 + k - 1 \in i + 1 .. i + n
                          /\ s.at + (i + 1 + k - 1) - 1 = (s.at + i) + k - 1
    OBVIOUS
  <2> QED  BY <1>2, <1>4, <2>1, <2>2
<1>6. part \in [1 .. n -> R]
  BY <1>4, <1>5, LenProperties
<1>7. Bytes(mem, Substring(s, i, i + n)) = [k \in 1 .. n |-> mem[(s.at + i) + k - 1]]
  BY <1>1 DEF Bytes
<1> QED  BY <1>5, <1>6, <1>7 DEF part

LEMMA ShortSubstring ==
  ASSUME NEW s, s.at \in Nat, s.length \in Nat, NEW t, t.length \in Nat,
         NEW i \in 0 .. s.length - 1, i + t.length > s.length
  PROVE  ~Compare(Substring(s, i, i + t.length), t)
<1>1. Substring(s, i, i + t.length) = [at |-> s.at + i, length |-> s.length - i]
  <2>1. i \in Nat /\ i + t.length \in Nat
    OBVIOUS
  <2> QED  BY <2>1, SubstringInside
<1>2. DOMAIN Bytes(mem, Substring(s, i, i + t.length)) = 1 .. s.length - i
  BY <1>1 DEF Bytes
<1>3. DOMAIN Bytes(mem, t) = 1 .. t.length
  BY DEF Bytes
<1>4. t.length \in 1 .. t.length /\ t.length \notin 1 .. s.length - i
  OBVIOUS
<1> QED  BY <1>2, <1>3, <1>4 DEF Compare

\* str8_contains is right whatever the memory holds.
THEOREM FindsWhatIsThereTheorem == StringsSpec => []FindsWhatIsThere
<1>1. ASSUME NEW s, s.at \in Nat, s.length \in Nat, s.length > 0,
             NEW t, t.length \in Nat
      PROVE  Contains(s, t) <=>
               \E i \in 0 .. s.length - t.length :
                 SubSeq(Bytes(mem, s), i + 1, i + t.length) = Bytes(mem, t)
  <2>1. ASSUME NEW i \in 0 .. s.length - t.length
        PROVE  SubSeq(Bytes(mem, s), i + 1, i + t.length)
                 = Bytes(mem, Substring(s, i, i + t.length))
    <3>1. i \in Nat /\ i + t.length <= s.length
      BY <1>1
    <3> QED  BY <1>1, <3>1, SubstringIsSubSeq
  <2>2. ASSUME Contains(s, t)
        PROVE  \E i \in 0 .. s.length - t.length :
                 SubSeq(Bytes(mem, s), i + 1, i + t.length) = Bytes(mem, t)
    <3>1. PICK i \in 0 .. s.length - 1 : Compare(Substring(s, i, i + t.length), t)
      BY <2>2 DEF Contains, Places
    <3>2. ~(i + t.length > s.length)
      BY <1>1, <3>1, ShortSubstring
    <3>3. i \in 0 .. s.length - t.length
      BY <1>1, <3>2
    <3> QED  BY <2>1, <3>1, <3>3 DEF Compare
  <2>3. ASSUME NEW i \in 0 .. s.length - t.length,
               SubSeq(Bytes(mem, s), i + 1, i + t.length) = Bytes(mem, t)
        PROVE  Contains(s, t)
    <3>1. t.length <= s.length /\ (i \in 0 .. s.length - 1 \/ (i = s.length /\ t.length = 0))
      BY <1>1
    <3>2. CASE i \in 0 .. s.length - 1
      BY <2>1, <2>3, <3>1, <3>2 DEF Contains, Compare, Places
    \* The empty string at the very end is also at the beginning.
    <3>3. CASE t.length = 0
      <4>1. 0 \in 0 .. s.length - 1 /\ 0 \in Nat /\ 0 + t.length \in Nat
        BY <1>1, <3>3
      <4>2. Substring(s, 0, 0 + t.length).length = 0
        BY <1>1, <3>3, <4>1, SubstringInside
      <4>3. Compare(Substring(s, 0, 0 + t.length), t)
        BY <3>3, <4>2 DEF Compare, Bytes
      <4> QED  BY <3>1, <4>1, <4>3 DEF Contains, Places
    <3> QED  BY <3>1, <3>2, <3>3
  <2> QED  BY <2>2, <2>3
<1>2. StringsInv => FindsWhatIsThere
  <2> SUFFICES ASSUME StringsInv PROVE FindsWhatIsThere
    OBVIOUS
  <2>1. \A s \in Strings : s.at \in Nat /\ s.length \in Nat
    BY Limits DEF Strings, StringsInv, HeldInv, TheLiteral
  <2>2. ASSUME NEW t \in Slices PROVE t.length \in Nat
    <3>1. PICK r \in Strings, i \in 0 .. 1, j \in 0 .. Len(Literal) + 1 :
            t = Substring(r, i, j)
      BY DEF Slices
    <3>2. i \in Nat /\ j \in Nat
      BY Limits
    <3> QED  BY <2>1, <3>1, <3>2, SubstringInside
  <2> QED  BY <1>1, <2>1, <2>2 DEF FindsWhatIsThere
<1> QED  BY <1>2, StringsInvariance, PTL

-----------------------------------------------------------------------------
(***************************************************************************)
(* SpaceIsNotLost is not inductive: the end of a scope lets go of blocks,  *)
(* and the blocks that stay must still fill the arena up to the mark the   *)
(* position goes back to.  FilledInv says so of every mark.                *)
(***************************************************************************)

\* The blocks pushed in fewer than d scopes leave no gap below p.
Filled(p, d) ==
  \A a \in Header .. p - 1 :
    \E b \in live : b.depth < d /\ b.at <= a /\ a < b.at + Rounded(b.size)

FilledInv ==
  /\ Filled(pos, Len(scopes) + 1)
  /\ \A i \in 1 .. Len(scopes) : Filled(scopes[i], i)

\* A size is rounded up, to a multiple of a word.
LEMMA RoundedSize ==
  ASSUME NEW n \in Nat
  PROVE  Rounded(n) \in Nat /\ Rounded(n) % Word = 0 /\ n <= Rounded(n)
BY DEF Rounded, Word

\* The padding before a push belongs to the block below it.
LEMMA PaddingIsFilled ==
  ASSUME IInv, FilledInv
  PROVE  Filled(AlignForward(pos), Len(scopes) + 1)
<1>1. pos \in Nat /\ pos >= Header /\ Header % Word = 0 /\ Header \in Nat
  BY DEF IInv, TypeOK, Header, Word
<1>2. AlignForward(pos) \in Nat
  BY <1>1, AlignForwardRoundsUp
<1> SUFFICES ASSUME NEW a \in Header .. AlignForward(pos) - 1
             PROVE  \E b \in live : /\ b.depth < Len(scopes) + 1
                                    /\ b.at <= a /\ a < b.at + Rounded(b.size)
  BY DEF Filled
<1>3. CASE a < pos
  <2>1. a \in Header .. pos - 1
    BY <1>1, <1>2, <1>3
  <2> QED  BY <2>1 DEF FilledInv, Filled
<1>4. CASE a >= pos
  <2>1. pos > Header
    BY <1>1, <1>2, <1>4 DEF AlignForward, Header, Word
  <2>2. pos - 1 \in Header .. pos - 1
    BY <1>1, <2>1
  <2>3. PICK b \in live : /\ b.depth < Len(scopes) + 1
                          /\ b.at <= pos - 1 /\ pos - 1 < b.at + Rounded(b.size)
    BY <2>2 DEF FilledInv, Filled
  <2>4. b.at \in Nat /\ b.at % Word = 0 /\ b.size \in Nat
    BY DEF IInv, TypeOK, Placed, Block
  <2>5. Rounded(b.size) \in Nat /\ Rounded(b.size) % Word = 0
    BY <2>4, RoundedSize
  <2>6. AlignForward(pos) <= b.at + Rounded(b.size)
    BY <1>1, <2>3, <2>4, <2>5 DEF AlignForward, Word
  <2>7. b.at <= a /\ a < b.at + Rounded(b.size)
    BY <1>1, <1>2, <1>4, <2>3, <2>4, <2>5, <2>6
  <2> QED  BY <2>3, <2>7
<1> QED  BY <1>1, <1>2, <1>3, <1>4

LEMMA PushKeepsFilled ==
  ASSUME IInv, FilledInv, NEW size \in Nat, Push(size)
  PROVE  FilledInv'
<1> DEFINE b == NewBlock(size)
<1>1. /\ pos \in Nat /\ Len(scopes) \in Nat
      /\ AlignForward(pos) \in Nat /\ AlignForward(pos) % Word = 0
  BY LenProperties, AlignForwardRoundsUp DEF IInv, TypeOK
<1>2. /\ b.at = AlignForward(pos) /\ b.size = size /\ b.depth = Len(scopes)
      /\ pos' = AlignForward(pos) + size /\ scopes' = scopes
      /\ live' = live \cup {b}
  BY DEF Push, After, NewBlock
<1> HIDE DEF b
<1>3. Filled(AlignForward(pos), Len(scopes) + 1)
  BY PaddingIsFilled
<1>4. size <= Rounded(size) /\ Rounded(size) \in Nat
  BY RoundedSize
<1>5. ASSUME NEW a \in Header .. pos' - 1
      PROVE  \E c \in live' : /\ c.depth < Len(scopes) + 1
                              /\ c.at <= a /\ a < c.at + Rounded(c.size)
  <2>1. CASE a < AlignForward(pos)
    <3>1. a \in Header .. AlignForward(pos) - 1
      BY <1>1, <2>1
    <3> QED  BY <1>2, <1>3, <3>1 DEF Filled
  <2>2. CASE a >= AlignForward(pos)
    <3>1. b.depth < Len(scopes) + 1 /\ b.at <= a
      BY <1>1, <1>2, <2>2
    <3>2. a < b.at + Rounded(b.size)
      BY <1>1, <1>2, <1>4 DEF Header
    <3> QED  BY <1>2, <3>1, <3>2
  <2> QED  BY <1>1, <2>1, <2>2 DEF Header
<1>6. \A i \in 1 .. Len(scopes) : Filled(scopes[i], i)'
  BY <1>2 DEF FilledInv, Filled
<1> QED  BY <1>2, <1>5, <1>6 DEF FilledInv, Filled

LEMMA MarkKeepsFilled ==
  ASSUME IInv, FilledInv, Mark
  PROVE  FilledInv'
<1>1. /\ scopes \in Seq(Nat) /\ pos \in Nat /\ Len(scopes) \in Nat
  BY LenProperties DEF IInv, TypeOK
<1>2. /\ scopes' \in Seq(Nat) /\ Len(scopes') = Len(scopes) + 1
      /\ \A i \in 1 .. Len(scopes) : scopes'[i] = scopes[i]
      /\ scopes'[Len(scopes) + 1] = pos
      /\ pos' = pos /\ live' = live
  BY <1>1, AppendProperties DEF Mark
<1>3. \A b \in live : b.depth \in Nat
  BY DEF IInv, TypeOK, Block
<1>4. Filled(pos, Len(scopes) + 1)'
  <2>1. \A b \in live : b.depth < Len(scopes) + 1 => b.depth < Len(scopes) + 1 + 1
    BY <1>1, <1>3
  <2> QED  BY <1>2, <2>1 DEF FilledInv, Filled
<1>5. ASSUME NEW i \in 1 .. Len(scopes')
      PROVE  Filled(scopes[i], i)'
  <2>1. CASE i \in 1 .. Len(scopes)
    BY <1>2, <2>1 DEF FilledInv, Filled
  <2>2. CASE i = Len(scopes) + 1
    BY <1>2, <2>2 DEF FilledInv, Filled
  <2> QED  BY <1>1, <1>2, <2>1, <2>2
<1> QED  BY <1>4, <1>5 DEF FilledInv

LEMMA PopKeepsFilled ==
  ASSUME IInv, FilledInv, Pop
  PROVE  FilledInv'
<1> DEFINE n == Len(scopes)
<1>1. /\ scopes \in Seq(Nat) /\ n \in Nat /\ n >= 1
  BY EmptySeq, LenProperties DEF IInv, TypeOK, Pop
<1>2. /\ scopes[n] \in Nat /\ scopes[n] >= Header
      /\ \A i \in 1 .. n : scopes[i] \in Nat
  BY <1>1 DEF IInv, Marks
<1>3. pos' = scopes[n] /\ live' = {b \in live : b.depth < n}
  BY <1>2 DEF Pop, Header
<1>4. Len(scopes') = n - 1 /\ \A i \in 1 .. n - 1 : scopes'[i] = scopes[i]
  <2>1. \A i \in 1 .. n - 1 : scopes[i] \in Nat
    BY <1>1, <1>2
  <2> DEFINE rest == SubSeq(scopes, 1, n - 1)
  <2>2. /\ Len(rest) = IF 1 <= n - 1 THEN (n - 1) - 1 + 1 ELSE 0
        /\ \A i \in 1 .. (n - 1) - 1 + 1 : rest[i] = scopes[1 + i - 1]
    BY <1>1, <2>1, SubSeqProperties
  <2>3. scopes' = rest
    BY DEF Pop
  <2> HIDE DEF rest, n
  <2>4. (IF 1 <= n - 1 THEN (n - 1) - 1 + 1 ELSE 0) = n - 1
        /\ (n - 1) - 1 + 1 = n - 1 /\ \A i \in 1 .. n - 1 : 1 + i - 1 = i
    BY <1>1
  <2> QED  BY <2>2, <2>3, <2>4
<1>5. \A b \in live : b.depth \in Nat
  BY DEF IInv, TypeOK, Block
<1>6. Filled(scopes[n], n) /\ \A i \in 1 .. n - 1 : Filled(scopes[i], i)
  BY <1>1 DEF FilledInv
<1> HIDE DEF n
<1>7. Filled(pos, Len(scopes) + 1)'
  <2>1. Len(scopes') + 1 = n
    BY <1>1, <1>4
  <2> QED  BY <1>3, <1>6, <2>1 DEF Filled
<1>8. ASSUME NEW i \in 1 .. n - 1
      PROVE  Filled(scopes[i], i)'
  <2>1. \A b \in live : b.depth < i => b \in live'
    BY <1>1, <1>3, <1>5
  <2> QED  BY <1>4, <1>6, <2>1 DEF Filled
<1> QED  BY <1>4, <1>7, <1>8 DEF FilledInv

LEMMA ClearKeepsFilled ==
  ASSUME Clear
  PROVE  FilledInv'
<1>1. pos' = Header /\ Len(scopes') = 0
  BY EmptySeq DEF Clear
<1> QED  BY <1>1 DEF FilledInv, Filled, Header

LEMMA NextFilled == StringsInv /\ FilledInv /\ [StringsNext]_stringVars => FilledInv'
<1> SUFFICES ASSUME StringsInv, FilledInv, [StringsNext]_stringVars PROVE FilledInv'
  OBVIOUS
<1>1. IInv
  BY DEF StringsInv
<1>2. CASE UNCHANGED vars
  BY <1>2 DEF vars, FilledInv, Filled
<1>3. ASSUME NEW s \in Slices,
             \/ Copy(s) \/ ServiceString(s, TheLiteral)
             \/ \E t \in Strings : Concat(s, t)
      PROVE  FilledInv'
  <2>1. PICK size \in Nat : Push(size) \/ PushFails(size)
    BY <1>3, AllocatingIsMaking DEF Make
  <2> QED  BY <1>1, <1>2, <2>1, PushKeepsFilled DEF PushFails
<1>4. CASE PopStrings \/ MarkStrings \/ ClearStrings
  BY <1>1, <1>4, PopKeepsFilled, MarkKeepsFilled, ClearKeepsFilled
  DEF PopStrings, MarkStrings, ClearStrings
<1>5. CASE UNCHANGED stringVars
  BY <1>2, <1>5 DEF stringVars
<1> QED  BY <1>3, <1>4, <1>5 DEF StringsNext

\* The blocks that are held fill the arena, whatever the capacity, the lengths
\* and the scopes.
THEOREM SpaceIsNotLostTheorem == StringsSpec => []SpaceIsNotLost
<1>1. StringsInit => FilledInv
  <2> SUFFICES ASSUME StringsInit PROVE FilledInv
    OBVIOUS
  <2>1. pos = Header /\ Len(scopes) = 0
    BY EmptySeq DEF StringsInit, Init
  <2> QED  BY <2>1 DEF FilledInv, Filled, Header
<1>2. FilledInv => SpaceIsNotLost
  BY DEF FilledInv, Filled, SpaceIsNotLost
<1> QED  BY <1>1, <1>2, InitStringsInv, NextStringsInv, NextFilled, PTL DEF StringsSpec
=============================================================================
