--------------------------- MODULE RTPHashFunction ---------------------------
(***************************************************************************)
(* What a hash table is made for: its keys, its memory and its hash         *)
(* function.                                                                *)
(***************************************************************************)
EXTENDS Naturals, FiniteSets

CONSTANTS
  Keys,
  Cells,           \* the memory for elements; their number is a bound
  Null,            \* the pointer 0
  HashSize,
  GetIndex         \* the hash function

ASSUME HashAssumption ==
  /\ Null \notin Cells /\ IsFiniteSet(Cells)
  /\ HashSize \in Nat \ {0}
  /\ GetIndex \in [Keys -> Nat]

=============================================================================
