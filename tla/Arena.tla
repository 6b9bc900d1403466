-------------------------------- MODULE Arena --------------------------------
(***************************************************************************)
(* The arena allocator of lib/c/lt_arena.c: one allocation, in which a     *)
(* position moves up with every push and down again at the end of a scope. *)
(* Nothing is freed by itself, so two callers' blocks stay apart only if   *)
(* every position the arena goes back to is one that no block lies across. *)
(*                                                                         *)
(* Positions are offsets from the pointer malloc returned, where the arena *)
(* structure itself is.  Callers take a mark, or begin a temporary scope,  *)
(* and go back to it in the opposite order; they clear the arena when no   *)
(* scope is open, as laitt does after each connection.  Sizes are lengths  *)
(* of strings in memory, so no sum of two wraps around 2^64.               *)
(***************************************************************************)
EXTENDS Naturals, Sequences

CONSTANTS Capacity,    \* the argument of arena_create
          Sizes,       \* the sizes callers push
          MaxScopes    \* bound on the scopes that are open at once

ASSUME CapacityAssumption == Capacity \in Nat
ASSUME SizesAssumption == Sizes \subseteq Nat
ASSUME MaxScopesAssumption == MaxScopes \in Nat

VARIABLES pos,      \* arena->pos
          scopes,   \* the marks callers hold, oldest first
          live      \* the blocks callers hold

vars == <<pos, scopes, live>>

Header == 16     \* sizeof(arena)
Word == 8        \* sizeof(void*)

\* The bytes malloc returned are 0 .. Allocated - 1.
Allocated == Header + Capacity

\* A block: its offset, its size and the number of scopes it was pushed in.
Block == [at : Nat, size : Nat, depth : Nat]
End(b) == b.at + b.size

\* The capacity is compared with an offset, so the header counts against it;
\* an arena smaller than its header only has its first position.
TypeOK ==
  /\ pos \in Nat /\ pos >= Header /\ (pos <= Capacity \/ pos = Header)
  /\ scopes \in Seq(Nat)
  /\ live \subseteq Block

Init == pos = Header /\ scopes = <<>> /\ live = {}

\* Mutant of AlignForward: a position that is aligned already moves on.
AlignForwardAlways(p) == (p + Word) - ((p + Word) % Word)

\* arena_align_forward: (pos + 7) & ~7.
AlignForward(p) == (p + (Word - 1)) - ((p + (Word - 1)) % Word)

\* Mutant of Fits: the padding is forgotten.
FitsUnaligned(size) == pos + size <= Capacity

Fits(size) == AlignForward(pos) + size <= Capacity

\* Mutant of After: the position does not move over the padding.
AfterUnaligned(size) == pos + size

\* new_pos
After(size) == AlignForward(pos) + size

\* arena_push; when it returns NULL the caller has no block and the position
\* stays.
Push(size) ==
  /\ Fits(size)
  /\ pos' = After(size)
  /\ live' = live \cup {[at |-> AlignForward(pos), size |-> size,
                         depth |-> Len(scopes)]}
  /\ UNCHANGED scopes

PushFails(size) == ~Fits(size) /\ UNCHANGED vars

\* arena_mark, arena_temp_begin
Mark ==
  /\ Len(scopes) < MaxScopes
  /\ scopes' = Append(scopes, pos)
  /\ UNCHANGED <<pos, live>>

\* arena_pop of the last mark, arena_temp_end: the caller lets go of what it
\* pushed since.
Pop ==
  /\ scopes # <<>>
  /\ LET mark == scopes[Len(scopes)]
     IN pos' = IF mark < Header THEN Header ELSE mark
  /\ scopes' = SubSeq(scopes, 1, Len(scopes) - 1)
  /\ live' = {b \in live : b.depth < Len(scopes)}

\* arena_clear
Clear ==
  /\ scopes = <<>>
  /\ pos' = Header /\ live' = {}
  /\ UNCHANGED scopes

Next == (\E size \in Sizes : Push(size) \/ PushFails(size)) \/ Mark \/ Pop \/ Clear

Spec == Init /\ [][Next]_vars

-----------------------------------------------------------------------------

\* The blocks callers hold are pointer-aligned, lie between the header and the
\* end of what malloc returned, and no two have a byte in common: neither a
\* push, which also zeroes its block, nor what a caller writes to its own block
\* ever changes another.
Apart(b, c) == End(b) <= c.at \/ End(c) <= b.at

BlocksAreApart ==
  /\ \A b \in live : b.at % Word = 0 /\ b.at >= Header /\ End(b) <= Allocated
  /\ \A b, c \in live : b # c => Apart(b, c)
=============================================================================
