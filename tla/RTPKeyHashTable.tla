--------------------------- MODULE RTPKeyHashTable ---------------------------
(***************************************************************************)
(* The hash tables: every element is in the list of its bucket and in one   *)
(* list of all elements, both doubly linked by hand, and a cursor points to *)
(* the current one.  RTPHashTable is the same code with the element as its  *)
(* own key.  The tables hold the transmitters' destinations, multicast      *)
(* groups and lists of addresses, and the sources of a session.             *)
(*                                                                          *)
(* Running out of memory is left out.                                       *)
(***************************************************************************)
EXTENDS RTPHashFunction

CONSTANTS None, Unset      \* of RTPTable

VARIABLES
  table,                             \* the first element of each bucket
  allocated,                         \* the cells that hold an element
  key, hashprev, hashnext, listprev, listnext,    \* what is in the cells
  firsthashelem, lasthashelem,
  curhashelem,
  positioned       \* history: the cursor was moved to an element, or to none,
                   \* since the table was made or cleared

listvars == <<table, allocated, key, hashprev, hashnext, listprev, listnext,
              firsthashelem, lasthashelem>>
vars == <<listvars, curhashelem, positioned>>

Pointer == Cells \cup {Null}
Indices == 0..HashSize - 1

\* p->field = value for the field f of the cells, where p may be 0.
Assign(f, p, value) == [c \in Cells |-> IF c = p THEN value ELSE f[c]]

\* What the deleted cells S had is not to be read any more.
Freed(f, S) == [c \in Cells |-> IF c \in S THEN Null ELSE f[c]]

\* The cells that can be reached from p over the field next.
Reached(p, next) ==
  {c \in Cells : \A S \in SUBSET Cells :
     /\ p \in S \cup {Null}
     /\ \A d \in S : next[d] \in S \cup {Null}
     => c \in S}

\* Where the search for a key in its bucket ends.
Found(k) ==
  LET Hits == {c \in Reached(table[GetIndex[k]], hashnext) : key[c] = k}
  IN  IF Hits = {} THEN Null ELSE CHOOSE c \in Hits : TRUE

HasElement(k) == GetIndex[k] < HashSize /\ Found(k) # Null

\* The constructor leaves the cursor uninitialized.
Init ==
  /\ table = [i \in Indices |-> Null]
  /\ allocated = {}
  /\ key = [c \in Cells |-> Null]
  /\ hashprev = key /\ hashnext = key /\ listprev = key /\ listnext = key
  /\ firsthashelem = Null /\ lasthashelem = Null
  /\ curhashelem \in Pointer
  /\ positioned = FALSE

-----------------------------------------------------------------------------
(* Adding and deleting *)

\* Into the first place of its bucket, and the last one of the list.
AddElement(k) ==
  LET i == GetIndex[k] IN
  /\ i < HashSize
  /\ ~HasElement(k)
  /\ \E e \in Cells \ allocated :
       /\ allocated' = allocated \cup {e}
       /\ key' = Assign(key, e, k)
       /\ hashprev' = Assign(Assign(hashprev, e, Null), table[i], e)
       /\ hashnext' = Assign(hashnext, e, table[i])
       /\ listprev' = Assign(listprev, e, lasthashelem)
       /\ listnext' = Assign(Assign(listnext, e, Null), lasthashelem, e)
       /\ table' = [table EXCEPT ![i] = e]
       /\ firsthashelem' = IF firsthashelem = Null THEN e ELSE firsthashelem
       /\ lasthashelem' = e
  /\ UNCHANGED <<curhashelem, positioned>>

\* Mutant: a deleted last element stays the last one.
UnlinkKeepingLast(e) ==
  /\ hashnext' = Freed(Assign(hashnext, hashprev[e], hashnext[e]), {e})
  /\ hashprev' = Freed(Assign(hashprev, hashnext[e], hashprev[e]), {e})
  /\ table' = IF hashprev[e] = Null
              THEN [table EXCEPT ![GetIndex[key[e]]] = hashnext[e]] ELSE table
  /\ listnext' = Freed(Assign(listnext, listprev[e], listnext[e]), {e})
  /\ listprev' = Freed(Assign(listprev, listnext[e], listprev[e]), {e})
  /\ firsthashelem' = IF listprev[e] = Null THEN listnext[e] ELSE firsthashelem
  /\ allocated' = allocated \ {e}
  /\ curhashelem' = listnext[e]
  /\ key' = Freed(key, {e})
  /\ UNCHANGED lasthashelem

\* The element e is taken out of both lists; the cursor goes to the next one.
Unlink(e) ==
  /\ hashnext' = Freed(Assign(hashnext, hashprev[e], hashnext[e]), {e})
  /\ hashprev' = Freed(Assign(hashprev, hashnext[e], hashprev[e]), {e})
  /\ table' = IF hashprev[e] = Null
              THEN [table EXCEPT ![GetIndex[key[e]]] = hashnext[e]] ELSE table
  /\ listnext' = Freed(Assign(listnext, listprev[e], listnext[e]), {e})
  /\ listprev' = Freed(Assign(listprev, listnext[e], listprev[e]), {e})
  /\ firsthashelem' = IF listprev[e] = Null THEN listnext[e] ELSE firsthashelem
  /\ lasthashelem' = IF listnext[e] = Null THEN listprev[e] ELSE lasthashelem
  /\ allocated' = allocated \ {e}
  /\ curhashelem' = listnext[e]
  /\ key' = Freed(key, {e})

\* The users of a table ask for its current element only after they moved the
\* cursor: they call one of the Goto functions first.
DeleteCurrentElement ==
  /\ positioned
  /\ curhashelem # Null
  /\ Unlink(curhashelem)
  /\ UNCHANGED positioned

\* A key that is not found leaves the cursor at no element.
DeleteElement(k) ==
  /\ GetIndex[k] < HashSize
  /\ IF HasElement(k) THEN Unlink(Found(k))
                      ELSE curhashelem' = Null /\ UNCHANGED listvars
  /\ positioned' = TRUE

\* All elements of the list are deleted, and the cursor is left where it was.
Clear ==
  /\ table' = [i \in Indices |-> Null]
  /\ LET deleted == Reached(firsthashelem, listnext) IN
     /\ allocated' = allocated \ deleted
     /\ key' = Freed(key, deleted)
     /\ hashprev' = Freed(hashprev, deleted) /\ hashnext' = Freed(hashnext, deleted)
     /\ listprev' = Freed(listprev, deleted) /\ listnext' = Freed(listnext, deleted)
  /\ firsthashelem' = Null /\ lasthashelem' = Null
  /\ positioned' = FALSE
  /\ UNCHANGED curhashelem

-----------------------------------------------------------------------------
(* Moving the cursor *)

MoveTo(p) == curhashelem' = p /\ positioned' = TRUE /\ UNCHANGED listvars

GotoElement(k) == GetIndex[k] < HashSize /\ MoveTo(Found(k))

GotoFirstElement == MoveTo(firsthashelem)

GotoLastElement == MoveTo(lasthashelem)

GotoNextElement ==
  positioned /\ curhashelem # Null /\ MoveTo(listnext[curhashelem])

GotoPreviousElement ==
  positioned /\ curhashelem # Null /\ MoveTo(listprev[curhashelem])

Next ==
  \/ \E k \in Keys : AddElement(k) \/ DeleteElement(k) \/ GotoElement(k)
  \/ DeleteCurrentElement \/ Clear
  \/ GotoFirstElement \/ GotoLastElement
  \/ GotoNextElement \/ GotoPreviousElement

Spec == Init /\ [][Next]_vars

-----------------------------------------------------------------------------
(* Properties *)

\* The list of all elements from its first one, as far as it goes.
Place[n \in 0..Cardinality(Cells)] ==
  IF n = 0 THEN firsthashelem
  ELSE LET p == Place[n - 1] IN IF p = Null THEN Null ELSE listnext[p]

Length == Cardinality({n \in DOMAIN Place : Place[n] # Null})

\* The keys in the order of the list.
ListedKeys == [n \in 1..Length |-> key[Place[n - 1]]]

CurrentKey ==
  IF ~positioned THEN Unset
  ELSE IF curhashelem = Null THEN None ELSE key[curhashelem]

\* What the table stands for, and the elements that are in memory.
Abstract == INSTANCE RTPTable WITH
  keys <- ListedKeys, cursor <- CurrentKey, elements <- Cardinality(allocated)

\* The lists linked by hand are an ordered set of keys with a cursor: elements
\* come in the order they were added, a search finds exactly what is there,
\* the cursor moves to the next element when the current one is deleted, and
\* no element is leaked or deleted twice.
TableImplemented == Abstract!Spec

Linked(p) == p \in allocated \cup {Null}

\* No pointer that the code may follow leads to a deleted element: neither the
\* heads of the buckets, the ends of the list, the links nor the cursor.
NoDanglingPointer ==
  /\ \A i \in Indices : Linked(table[i])
  /\ Linked(firsthashelem) /\ Linked(lasthashelem)
  /\ \A c \in allocated :
       /\ Linked(hashprev[c]) /\ Linked(hashnext[c])
       /\ Linked(listprev[c]) /\ Linked(listnext[c])
  /\ positioned => Linked(curhashelem)

=============================================================================
