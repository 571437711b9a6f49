------------------------------ MODULE RTPTable ------------------------------
(***************************************************************************)
(* What the hash tables promise: the keys are distinct and in the order in  *)
(* which they were added, a cursor is at one of them or at none, and the    *)
(* table owns one element per key.                                          *)
(***************************************************************************)
EXTENDS Naturals, SequencesExt

CONSTANTS
  Keys,
  None,        \* the cursor has no current element
  Unset        \* the cursor may not be used before it is moved to an element

VARIABLES keys, cursor, elements

Position(k) == CHOOSE i \in DOMAIN keys : keys[i] = k

\* The key at a position, if there is one.
KeyAt(i) == IF i \in DOMAIN keys THEN keys[i] ELSE None

Init == keys = <<>> /\ cursor = Unset /\ elements = 0

Add(k) ==
  /\ k \notin ToSet(keys)
  /\ keys' = Append(keys, k)
  /\ UNCHANGED cursor

\* A key goes, and the next one becomes current.
RemoveKey(k) ==
  /\ keys' = RemoveAt(keys, Position(k))
  /\ cursor' = KeyAt(Position(k) + 1)

Delete ==
  /\ cursor \in ToSet(keys)
  /\ RemoveKey(cursor)

DeleteKey(k) ==
  IF k \in ToSet(keys) THEN RemoveKey(k)
                       ELSE cursor' = None /\ UNCHANGED keys

Goto(k) ==
  /\ cursor' = IF k \in ToSet(keys) THEN k ELSE None
  /\ UNCHANGED keys

GotoEnd(i) == cursor' = KeyAt(i) /\ UNCHANGED keys

Move(distance) ==
  /\ cursor \in ToSet(keys)
  /\ cursor' = KeyAt(Position(cursor) + distance)
  /\ UNCHANGED keys

Clear == keys' = <<>> /\ cursor' = Unset

Next ==
  /\ \/ \E k \in Keys : Add(k) \/ DeleteKey(k) \/ Goto(k)
     \/ Delete \/ GotoEnd(1) \/ GotoEnd(Len(keys)) \/ Move(1) \/ Move(-1)
     \/ Clear
  /\ elements' = Len(keys')

Spec == Init /\ [][Next]_<<keys, cursor, elements>>

=============================================================================
