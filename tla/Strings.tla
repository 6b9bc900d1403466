------------------------------- MODULE Strings -------------------------------
(***************************************************************************)
(* The counted strings of lib/c/lt_string.c on the arena of lt_arena.c,    *)
(* and the service string of lib/c/liblmp.c.  A string is a pointer and a  *)
(* length: a substring shares the bytes of its string, a copy and a        *)
(* concatenation are blocks of the arena.  A pointer is an offset from the *)
(* arena; the literals lie behind the arena.                               *)
(*                                                                         *)
(* laitt clears its arena after every connection and goes on to print its  *)
(* service string, which is in it (laitt.c:126); it pushes nothing else.   *)
(***************************************************************************)
EXTENDS Arena, FiniteSets, FiniteSetsExt

CONSTANTS Literal,     \* the bytes of a literal
          MaxStrings,  \* bound on the strings that are held
          MaxLength    \* bound on the length of a string

ASSUME LiteralAssumption == Literal \in Seq(1 .. 255)

VARIABLES mem,      \* the bytes of the arena and of the literal
          held,     \* the strings callers hold, each with the text it was made of
          laittOnly,\* an arena was cleared under a string: only laitt does so
          crashed   \* a string function has written to NULL

stringVars == <<vars, mem, held, laittOnly, crashed>>

Memory == 0 .. Allocated + Len(Literal) - 1
TheLiteral == [at |-> Allocated, length |-> Len(Literal)]

Bytes(m, s) == [i \in 1 .. s.length |-> m[s.at + i - 1]]

\* What malloc returns is not initialized: any value will do here, 0 would hide
\* a missing write.
StringsInit ==
  /\ Init
  /\ mem = [a \in Memory |-> IF a < Allocated THEN 255
                             ELSE Literal[a - Allocated + 1]]
  /\ held = {} /\ laittOnly = FALSE /\ crashed = FALSE

StringsTypeOK ==
  /\ mem \in [Memory -> 0 .. 255]
  /\ \A h \in held : /\ h.at \in 0 .. Allocated /\ h.at + h.length <= Allocated
                     /\ Len(h.text) = h.length /\ h.depth \in 0 .. MaxScopes
  /\ laittOnly \in BOOLEAN /\ crashed \in BOOLEAN

-----------------------------------------------------------------------------
(* The functions that only read *)

\* str8_substring: end is cut at the length, start at end.
Substring(s, start, end) ==
  LET to == Min({end, s.length})
      from == Min({start, to})
  IN [at |-> s.at + from, length |-> to - from]

\* str8_compare
Compare(s, t) == Bytes(mem, s) = Bytes(mem, t)

\* Mutant of Places: the last place is not looked at.
PlacesButLast(s, t) == 0 .. s.length - t.length - 1

\* The places str8_contains looks at: all, those too near the end included,
\* where the substring is cut and compares unequal.
Places(s, t) == 0 .. s.length - 1

Contains(s, t) ==
  /\ t.length <= s.length
  /\ \E i \in Places(s, t) : Compare(Substring(s, i, i + t.length), t)

-----------------------------------------------------------------------------
(* The functions that allocate *)

\* memcpy, and memset(p, 0, n)
Written(m, at, bytes) ==
  [a \in Memory |-> IF a \in at .. at + Len(bytes) - 1 THEN bytes[a - at + 1]
                    ELSE m[a]]
Zeros(n) == [i \in 1 .. n |-> 0]

\* Where the second string of a concatenation is written.
JoinedAt(at, s) == at + s.length

\* Mutant of Length: the NUL is counted.
LengthWithNul(s, t) == s.length + t.length + 1

\* The length of what is made of two strings.
Length(s, t) == s.length + t.length

\* Mutant of MayPush: laitt's loop pushes another string after the clear.
MayPushAlways == TRUE

\* Nothing is pushed on an arena that was cleared under a string: laitt's loop
\* makes all its strings before its first turn.
MayPush == ~laittOnly

\* arena_push of `size` bytes, which zeroes them; then s and t are copied, t
\* behind s.  The result is looked at by nobody: without a block the first byte
\* is written to NULL.
Make(size, s, t) ==
  LET at == AlignForward(pos)
      zeroed == Written(mem, at, Zeros(size))
      first == Written(zeroed, at, Bytes(zeroed, s))
  IN /\ MayPush /\ ~crashed
     /\ Cardinality(held) < MaxStrings /\ Length(s, t) <= MaxLength
     /\ \/ /\ Push(size)
           /\ mem' = Written(first, JoinedAt(at, s), Bytes(first, t))
           /\ held' = held \cup {[at |-> at, length |-> Length(s, t),
                                  depth |-> Len(scopes),
                                  text |-> Bytes(mem, s) \o Bytes(mem, t)]}
           /\ UNCHANGED crashed
        \/ PushFails(size) /\ crashed' = (size > 0) /\ UNCHANGED <<mem, held>>
     /\ UNCHANGED laittOnly

Empty(s) == Substring(s, 0, 0)

\* str8_concat, str8_copy, and lmp_log_build_service_string, whose snprintf ends
\* the text with a NUL that is not counted.
Concat(s, t) == Make(Length(s, t), s, t)
Copy(s) == Make(s.length, s, Empty(s))
ServiceString(s, t) == Make(Length(s, t) + 1, s, t)

-----------------------------------------------------------------------------
(* The arena under the strings *)

\* A scope ends: the caller lets go of what it pushed in it.
PopStrings ==
  /\ ~laittOnly /\ ~crashed /\ Pop
  /\ held' = {h \in held : h.depth < Len(scopes)}
  /\ UNCHANGED <<mem, laittOnly, crashed>>

\* arena_clear: the caller lets go of all its strings; or it is laitt.
ClearStrings ==
  /\ ~crashed /\ Clear
  /\ \/ held' = {} /\ ~laittOnly /\ UNCHANGED laittOnly
     \/ held # {} /\ laittOnly' = TRUE /\ UNCHANGED held
  /\ UNCHANGED <<mem, crashed>>

MarkStrings ==
  ~laittOnly /\ ~crashed /\ Mark /\ UNCHANGED <<mem, held, laittOnly, crashed>>

Strings == {TheLiteral} \cup {[at |-> h.at, length |-> h.length] : h \in held}
Slices ==
  {Substring(s, i, j) : s \in Strings, i \in 0 .. 1, j \in 0 .. Len(Literal) + 1}

StringsNext ==
  \/ \E s \in Slices : Copy(s) \/ ServiceString(s, TheLiteral)
  \/ \E s \in Slices, t \in Strings : Concat(s, t)
  \/ PopStrings \/ MarkStrings \/ ClearStrings

StringsSpec == StringsInit /\ [][StringsNext]_stringVars

-----------------------------------------------------------------------------

\* A string keeps its text as long as it is held, through every push, pop and
\* clear of its arena and whatever is copied into other blocks: a copy is the
\* string, a concatenation is the two strings one behind the other.  laitt's
\* service string keeps it although its arena is cleared under it.
StringsKeepTheirText == \A h \in held : Bytes(mem, h) = h.text

\* str8_contains finds a string exactly where there is one, also at the very
\* end, and never by bytes behind the end of the string it looks in.  (In an
\* empty string it does not even find the empty one.)
FindsWhatIsThere ==
  \A s \in Strings : \A t \in Slices :
    LET text == Bytes(mem, s)
        wanted == Bytes(mem, t)
    IN s.length > 0 =>
         (Contains(s, t) <=>
            \E i \in 0 .. s.length - t.length :
              SubSeq(text, i + 1, i + t.length) = wanted)

\* No space of the arena is lost to what nobody holds any more: every byte
\* below the position is one of a block that is held, rounded up to a word.  So
\* a string function gets NULL, and writes to it, only when the blocks that are
\* held leave no room for one more.
Rounded(size) == Word * ((size + Word - 1) \div Word)
SpaceIsNotLost ==
  \A a \in Header .. pos - 1 :
    \E b \in live : b.at <= a /\ a < b.at + Rounded(b.size)
=============================================================================
