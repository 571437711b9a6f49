------------------------ MODULE RTPKeyHashTableProofs ------------------------
(***************************************************************************)
(* No pointer of a hash table leads to a deleted element.  A deletion       *)
(* repairs only the two neighbours it finds in the element and the heads    *)
(* it compares with, so the invariant has to say that no other pointer      *)
(* leads to that element: next and previous are inverse to each other, and  *)
(* a head points to the elements that have none before or after them.  That *)
(* the cursor leaves a deleted element, and that Clear deletes them all,    *)
(* needs a list that leads to every element.                                *)
(***************************************************************************)
EXTENDS RTPKeyHashTable, FiniteSetTheorems, SequenceTheorems,
        WellFoundedInduction, TLAPS

Field == [Cells -> Pointer]

Types ==
  /\ table \in [Indices -> Pointer]
  /\ allocated \in SUBSET Cells
  /\ key \in [Cells -> Keys \cup {Null}]
  /\ hashprev \in Field /\ hashnext \in Field
  /\ listprev \in Field /\ listnext \in Field
  /\ firsthashelem \in Pointer /\ lasthashelem \in Pointer
  /\ curhashelem \in Pointer
  /\ positioned \in BOOLEAN

Bucket(c) == GetIndex[key[c]]

\* An element has its key's bucket.
Keyed == \A c \in allocated : key[c] \in Keys /\ Bucket(c) \in Indices

\* The list of all elements.
ListLinked ==
  /\ Linked(firsthashelem) /\ Linked(lasthashelem)
  /\ firsthashelem = Null <=> lasthashelem = Null
  /\ \A c \in allocated :
       /\ Linked(listprev[c]) /\ Linked(listnext[c])
       /\ listprev[c] = Null <=> c = firsthashelem
       /\ listnext[c] = Null <=> c = lasthashelem
       /\ listprev[c] # Null => listnext[listprev[c]] = c
       /\ listnext[c] # Null => listprev[listnext[c]] = c

\* The list leads to every element: a set that has the first one, and with
\* each element the next, has them all.
Closed(S) ==
  /\ firsthashelem \in S \cup {Null}
  /\ \A d \in S : listnext[d] \in S \cup {Null}

ListComplete == \A S \in SUBSET Cells : Closed(S) => allocated \subseteq S

\* The lists of the buckets.
HashLinked ==
  /\ \A i \in Indices :
       Linked(table[i]) /\ (table[i] # Null => Bucket(table[i]) = i)
  /\ \A c \in allocated :
       /\ Linked(hashprev[c]) /\ Linked(hashnext[c])
       /\ hashprev[c] = Null <=> c = table[Bucket(c)]
       /\ hashprev[c] # Null =>
            hashnext[hashprev[c]] = c /\ Bucket(hashprev[c]) = Bucket(c)
       /\ hashnext[c] # Null =>
            hashprev[hashnext[c]] = c /\ Bucket(hashnext[c]) = Bucket(c)

CursorLinked == positioned => Linked(curhashelem)

LinkInv ==
  Types /\ Keyed /\ ListLinked /\ ListComplete /\ HashLinked /\ CursorLinked

-----------------------------------------------------------------------------

\* A search ends at an element or at none.
LEMMA FoundLinked ==
  ASSUME LinkInv, NEW k \in Keys, GetIndex[k] < HashSize
  PROVE  Linked(Found(k))
PROOF
<1> DEFINE i == GetIndex[k]
           Hits == {c \in Reached(table[i], hashnext) : key[c] = k}
<1>1. i \in Indices
  BY HashAssumption DEF Indices
<1>2. Reached(table[i], hashnext) \subseteq allocated
  <2>1. /\ allocated \in SUBSET Cells
        /\ table[i] \in allocated \cup {Null}
        /\ \A d \in allocated : hashnext[d] \in allocated \cup {Null}
    BY <1>1 DEF LinkInv, Types, HashLinked, Linked
  <2> QED BY <2>1 DEF Reached
<1>3. CASE Hits = {}
  BY <1>3 DEF Found, Linked
<1>4. CASE Hits # {}
  <2>1. Found(k) \in Hits
    BY <1>4 DEF Found
  <2> QED BY <2>1, <1>2 DEF Linked
<1> QED BY <1>3, <1>4

\* Taking an element out of its lists leaves no pointer to it behind.
LEMMA UnlinkSafe ==
  ASSUME LinkInv, NEW e \in allocated, Unlink(e), positioned' \in BOOLEAN
  PROVE  LinkInv'
PROOF
<1> USE HashAssumption
<1>t. /\ allocated \subseteq Cells /\ e \in Cells /\ Bucket(e) \in Indices
      /\ Null \notin Cells
      /\ hashprev[e] \in Pointer /\ hashnext[e] \in Pointer
      /\ listprev[e] \in Pointer /\ listnext[e] \in Pointer
  BY DEF LinkInv, Types, Keyed, Field
<1>1. Types'
  <2>1. table' \in [Indices -> Pointer]
    BY <1>t DEF LinkInv, Types, Unlink, Bucket
  <2>2. /\ hashnext' \in Field /\ hashprev' \in Field
        /\ listnext' \in Field /\ listprev' \in Field
    BY <1>t DEF LinkInv, Types, Unlink, Assign, Freed, Field, Pointer
  <2> QED BY <2>1, <2>2, <1>t DEF LinkInv, Types, Unlink, Freed, Pointer
<1>2. Keyed'
  BY DEF LinkInv, Keyed, Unlink, Bucket, Freed, Types
<1>3. ListLinked'
  <2>1. ListLinked
    BY DEF LinkInv
  <2>2. /\ Linked(listprev[e]) /\ Linked(listnext[e])
        /\ listprev[e] = Null <=> e = firsthashelem
        /\ listnext[e] = Null <=> e = lasthashelem
        /\ listprev[e] # Null => listnext[listprev[e]] = e
        /\ listnext[e] # Null => listprev[listnext[e]] = e
    BY <2>1 DEF ListLinked
  <2>3. /\ \A c \in Cells \ {e} : listnext'[c] = IF c = listprev[e] THEN listnext[e] ELSE listnext[c]
        /\ \A c \in Cells \ {e} : listprev'[c] = IF c = listnext[e] THEN listprev[e] ELSE listprev[c]
    BY DEF Unlink, Assign, Freed
  <2>4. /\ firsthashelem' = IF listprev[e] = Null THEN listnext[e] ELSE firsthashelem
        /\ lasthashelem' = IF listnext[e] = Null THEN listprev[e] ELSE lasthashelem
        /\ allocated' = allocated \ {e}
    BY DEF Unlink
  <2> HIDE DEF Linked
  <2> QED
    BY <2>1, <2>2, <2>3, <2>4, <1>t DEF ListLinked, Linked
<1>4. HashLinked'
  <2>1. HashLinked /\ Keyed /\ table \in [Indices -> Pointer]
    BY DEF LinkInv, Types
  <2>2. /\ Linked(hashprev[e]) /\ Linked(hashnext[e])
        /\ hashprev[e] = Null <=> e = table[Bucket(e)]
        /\ hashprev[e] # Null => hashnext[hashprev[e]] = e /\ Bucket(hashprev[e]) = Bucket(e)
        /\ hashnext[e] # Null => hashprev[hashnext[e]] = e /\ Bucket(hashnext[e]) = Bucket(e)
    BY <2>1 DEF HashLinked
  <2>3. /\ \A c \in Cells \ {e} : hashnext'[c] = IF c = hashprev[e] THEN hashnext[e] ELSE hashnext[c]
        /\ \A c \in Cells \ {e} : hashprev'[c] = IF c = hashnext[e] THEN hashprev[e] ELSE hashprev[c]
    BY DEF Unlink, Assign, Freed
  <2>4. /\ allocated' = allocated \ {e}
        /\ \A c \in allocated \ {e} : key'[c] = key[c]
    BY <1>t DEF Unlink, Freed
  <2>5. \A i \in Indices : table'[i] = IF hashprev[e] = Null /\ i = Bucket(e)
                                       THEN hashnext[e] ELSE table[i]
    BY <2>1, <1>t DEF Unlink, Bucket
  <2>6. ASSUME NEW i \in Indices
        PROVE  Linked(table[i])' /\ (table'[i] # Null => Bucket(table[i])' = i)
    <3>1. Linked(table[i]) /\ (table[i] # Null => Bucket(table[i]) = i)
      BY <2>1 DEF HashLinked
    <3>2. CASE hashprev[e] = Null /\ i = Bucket(e)
      <4>1. table'[i] = hashnext[e]
        BY <3>2, <2>5
      <4>2. hashnext[e] # e
        BY <3>2, <2>2, <1>t
      <4>3. table'[i] \in (allocated \ {e}) \cup {Null}
        BY <4>1, <4>2, <2>2 DEF Linked
      <4>4. table'[i] # Null => key'[table'[i]] = key[hashnext[e]] /\ Bucket(hashnext[e]) = i
        BY <4>1, <4>3, <3>2, <2>2, <2>4
      <4> QED
        BY <4>3, <4>4, <2>4 DEF Linked, Bucket
    <3>3. CASE ~(hashprev[e] = Null /\ i = Bucket(e))
      <4>1. table'[i] = table[i] /\ table[i] # e
        BY <3>1, <3>3, <2>2, <2>5, <1>t
      <4>2. table[i] \in (allocated \ {e}) \cup {Null}
        BY <4>1, <3>1 DEF Linked
      <4>3. table'[i] # Null => key'[table'[i]] = key[table[i]] /\ Bucket(table[i]) = i
        BY <4>1, <4>2, <3>1, <2>4
      <4> QED
        BY <4>1, <4>2, <4>3, <2>4 DEF Linked, Bucket
    <3> QED
      BY <3>2, <3>3
  <2>7. ASSUME NEW c \in allocated \ {e}
        PROVE  /\ Linked(hashprev[c])' /\ Linked(hashnext[c])'
               /\ hashprev'[c] = Null <=> c = table'[Bucket(c)']
               /\ hashprev'[c] # Null =>
                    /\ hashnext'[hashprev'[c]] = c
                    /\ Bucket(hashprev[c])' = Bucket(c)'
               /\ hashnext'[c] # Null =>
                    /\ hashprev'[hashnext'[c]] = c
                    /\ Bucket(hashnext[c])' = Bucket(c)'
    <3>1. /\ Linked(hashprev[c]) /\ Linked(hashnext[c]) /\ c \in Cells \ {e} /\ Bucket(c) \in Indices
          /\ hashprev[c] = Null <=> c = table[Bucket(c)]
          /\ hashprev[c] # Null => hashnext[hashprev[c]] = c /\ Bucket(hashprev[c]) = Bucket(c)
          /\ hashnext[c] # Null => hashprev[hashnext[c]] = c /\ Bucket(hashnext[c]) = Bucket(c)
      BY <2>1, <1>t DEF HashLinked, Keyed
    <3>2. /\ hashnext'[c] = IF c = hashprev[e] THEN hashnext[e] ELSE hashnext[c]
          /\ hashprev'[c] = IF c = hashnext[e] THEN hashprev[e] ELSE hashprev[c]
          /\ Bucket(c)' = Bucket(c)
      BY <3>1, <2>3, <2>4 DEF Bucket
    <3>3. /\ hashnext'[c] \in (allocated \ {e}) \cup {Null}
          /\ hashprev'[c] \in (allocated \ {e}) \cup {Null}
      BY <3>1, <3>2, <2>2, <1>t DEF Linked
    <3>4. Linked(hashprev[c])' /\ Linked(hashnext[c])'
      BY <3>3, <2>4 DEF Linked
    <3>5. hashprev'[c] = Null <=> c = table'[Bucket(c)']
      <4>1. CASE c = hashnext[e]
        <5>1. Bucket(e) = Bucket(c) /\ hashprev[c] = e
          BY <4>1, <3>1, <2>2, <1>t
        <5>2. c # table[Bucket(c)]
          BY <5>1, <3>1, <1>t
        <5> QED
          BY <4>1, <5>1, <5>2, <3>1, <3>2, <2>5
      <4>2. CASE c # hashnext[e]
        <5>1. hashprev[e] = Null /\ Bucket(c) = Bucket(e) => c # table[Bucket(c)]
          BY <3>1, <2>2
        <5> QED
          BY <4>2, <5>1, <3>1, <3>2, <2>5
      <4> QED
        BY <4>1, <4>2
    <3>6. ASSUME hashprev'[c] # Null
          PROVE  hashnext'[hashprev'[c]] = c /\ Bucket(hashprev[c])' = Bucket(c)'
      <4>1. hashprev'[c] \in Cells \ {e} /\ key'[hashprev'[c]] = key[hashprev'[c]]
        BY <3>3, <3>6, <2>4, <1>t
      <4>2. hashnext'[hashprev'[c]] = c
        BY <4>1, <3>1, <3>2, <3>6, <2>2, <2>3
      <4>3. GetIndex[key[hashprev'[c]]] = Bucket(c)
        BY <4>1, <3>1, <3>2, <3>6, <2>2 DEF Bucket
      <4> QED
        BY <4>1, <4>2, <4>3, <3>2 DEF Bucket
    <3>7. ASSUME hashnext'[c] # Null
          PROVE  hashprev'[hashnext'[c]] = c /\ Bucket(hashnext[c])' = Bucket(c)'
      <4>1. hashnext'[c] \in Cells \ {e} /\ key'[hashnext'[c]] = key[hashnext'[c]]
        BY <3>3, <3>7, <2>4, <1>t
      <4>2. hashprev'[hashnext'[c]] = c
        BY <4>1, <3>1, <3>2, <3>7, <2>2, <2>3
      <4>3. GetIndex[key[hashnext'[c]]] = Bucket(c)
        BY <4>1, <3>1, <3>2, <3>7, <2>2 DEF Bucket
      <4> QED
        BY <4>1, <4>2, <4>3, <3>2 DEF Bucket
    <3> QED
      BY <3>4, <3>5, <3>6, <3>7
  <2> QED
    BY <2>4, <2>6, <2>7 DEF HashLinked
<1>5. ListComplete'
  <2> SUFFICES ASSUME NEW S \in SUBSET Cells, Closed(S)'
               PROVE  allocated \ {e} \subseteq S
    BY DEF ListComplete, Unlink
  <2> DEFINE p == listprev[e]
             Old == IF e = firsthashelem \/ p \in S
                    THEN (S \cup {e}) \cap allocated ELSE (S \ {e}) \cap allocated
  <2>1. ListLinked /\ ListComplete /\ Old \in SUBSET Cells
    BY <1>t DEF LinkInv
  <2>2. /\ firsthashelem' \in S \cup {Null}
        /\ \A d \in S : listnext'[d] \in S \cup {Null}
    BY DEF Closed
  <2>3. firsthashelem \in Old \cup {Null}
    BY <2>1, <2>2, <1>t DEF ListLinked, Linked, Unlink
  <2>4. ASSUME NEW d \in Old
        PROVE  listnext[d] \in Old \cup {Null}
    <3>1. d \in allocated /\ listnext[d] \in allocated \cup {Null}
      BY <2>1 DEF ListLinked, Linked
    <3>2. CASE d = e
      <4>1. e = firsthashelem \/ p \in S
        BY <3>2
      <4>2. listnext[e] \in S \cup {Null, e}
        BY <4>1, <2>1, <2>2, <1>t DEF ListLinked, Linked, Unlink, Assign, Freed
      <4> QED BY <4>1, <4>2, <3>1, <3>2
    <3>3. CASE d # e /\ listnext[d] = e
      BY <3>1, <3>3, <2>1, <1>t DEF ListLinked
    <3>4. CASE d # e /\ listnext[d] # e
      <4>1. d \in S /\ (listnext[d] = Null \/ d # p)
        BY <3>1, <3>4, <2>1, <1>t DEF ListLinked
      <4>2. listnext[d] = Null \/ listnext'[d] = listnext[d]
        BY <4>1, <3>1, <3>4, <1>t DEF Unlink, Assign, Freed
      <4> QED BY <4>1, <4>2, <3>1, <3>4, <2>2
    <3> QED BY <3>2, <3>3, <3>4
  <2>5. allocated \subseteq Old
    BY <2>1, <2>3, <2>4 DEF ListComplete, Closed
  <2> QED BY <2>5
<1>6. CursorLinked'
  <2>1. listnext[e] # e
    <3> SUFFICES ASSUME listnext[e] = e PROVE FALSE
      OBVIOUS
    <3>1. listprev[e] = e
      BY <1>t DEF LinkInv, ListLinked
    <3>2. firsthashelem \in (allocated \ {e}) \cup {Null}
      BY <3>1, <1>t DEF LinkInv, ListLinked, Linked
    <3>3. \A d \in allocated \ {e} : listnext[d] \in (allocated \ {e}) \cup {Null}
      BY <3>1, <1>t DEF LinkInv, ListLinked, Linked
    <3>4. allocated \subseteq allocated \ {e}
      BY <3>2, <3>3, <1>t DEF LinkInv, ListComplete, Closed
    <3> QED BY <3>4
  <2> QED BY <2>1 DEF CursorLinked, LinkInv, ListLinked, Linked, Unlink
<1> QED BY <1>1, <1>2, <1>3, <1>4, <1>5, <1>6 DEF LinkInv

\* A new element is the first of its bucket and the last of the list.
LEMMA AddSafe ==
  ASSUME LinkInv, NEW k \in Keys, AddElement(k)
  PROVE  LinkInv'
PROOF
<1> USE HashAssumption
<1> DEFINE i == GetIndex[k]
<1>i. i \in Indices
  BY DEF AddElement, Indices
<1>e. PICK e \in Cells \ allocated :
        /\ allocated' = allocated \cup {e}
        /\ key' = Assign(key, e, k)
        /\ hashprev' = Assign(Assign(hashprev, e, Null), table[i], e)
        /\ hashnext' = Assign(hashnext, e, table[i])
        /\ listprev' = Assign(listprev, e, lasthashelem)
        /\ listnext' = Assign(Assign(listnext, e, Null), lasthashelem, e)
        /\ table' = [table EXCEPT ![i] = e]
        /\ firsthashelem' = IF firsthashelem = Null THEN e ELSE firsthashelem
        /\ lasthashelem' = e
  BY DEF AddElement
<1>u. curhashelem' = curhashelem /\ positioned' = positioned
  BY DEF AddElement
<1>t. allocated \subseteq Cells /\ Null \notin Cells
  BY DEF LinkInv, Types
<1>1. Types'
  BY <1>e, <1>u, <1>i DEF LinkInv, Types, Assign, Field, Pointer
<1>2. Keyed'
  BY <1>e, <1>i, <1>t DEF LinkInv, Keyed, Bucket, Assign
<1>3. ListLinked'
  BY <1>e, <1>t DEF LinkInv, ListLinked, Linked, Assign
<1>4. HashLinked'
  <2>1. /\ HashLinked /\ Keyed /\ table \in [Indices -> Pointer]
        /\ table[i] # Null => table[i] \in allocated /\ Bucket(table[i]) = i
    BY <1>i DEF LinkInv, Types, HashLinked, Linked
  <2>2. \A c \in allocated : Bucket(c)' = Bucket(c) /\ c # e
    BY <1>e, <1>t DEF Bucket, Assign
  <2>3. Bucket(e)' = i
    BY <1>e DEF Bucket, Assign
  <2>4. ASSUME NEW j \in Indices
        PROVE  Linked(table[j])' /\ (table'[j] # Null => Bucket(table[j])' = j)
    <3>1. CASE j = i
      BY <3>1, <2>1, <2>3, <1>e DEF Linked
    <3>2. CASE j # i
      BY <3>2, <2>1, <2>2, <1>e DEF Linked, HashLinked, Bucket
    <3> QED BY <3>1, <3>2
  <2>5. ASSUME NEW c \in allocated'
        PROVE  /\ Linked(hashprev[c])' /\ Linked(hashnext[c])'
               /\ hashprev'[c] = Null <=> c = table'[Bucket(c)']
               /\ hashprev'[c] # Null =>
                    /\ hashnext'[hashprev'[c]] = c
                    /\ Bucket(hashprev[c])' = Bucket(c)'
               /\ hashnext'[c] # Null =>
                    /\ hashprev'[hashnext'[c]] = c
                    /\ Bucket(hashnext[c])' = Bucket(c)'
    <3>1. CASE c = e
      BY <3>1, <2>1, <2>2, <2>3, <1>e, <1>i, <1>t DEF Linked, Assign, Bucket
    <3>2. CASE c \in allocated
      <4>1. /\ Linked(hashprev[c]) /\ Linked(hashnext[c]) /\ c # e /\ c \in Cells
            /\ hashprev[c] = Null <=> c = table[Bucket(c)]
            /\ hashprev[c] # Null =>
                 hashnext[hashprev[c]] = c /\ Bucket(hashprev[c]) = Bucket(c)
            /\ hashnext[c] # Null =>
                 hashprev[hashnext[c]] = c /\ Bucket(hashnext[c]) = Bucket(c)
            /\ Bucket(c) \in Indices
        BY <3>2, <2>1, <1>t DEF HashLinked, Keyed
      <4>2. /\ hashnext'[c] = hashnext[c]
            /\ hashprev'[c] = IF c = table[i] THEN e ELSE hashprev[c]
            /\ hashprev[c] # e /\ hashnext[c] # e
        BY <4>1, <1>e DEF Assign, Linked
      <4>3. Linked(hashprev[c])' /\ Linked(hashnext[c])'
        BY <4>1, <4>2, <1>e DEF Linked
      <4>4. hashprev'[c] = Null <=> c = table'[Bucket(c)']
        BY <4>1, <4>2, <3>2, <2>1, <2>2, <1>e, <1>t
      <4>5. CASE c = table[i]
        BY ZenonT(60), <4>1, <4>2, <4>3, <4>4, <4>5, <3>2, <2>1, <2>2, <2>3, <1>e, <1>i, <1>t
        DEF Assign, Linked, Bucket, HashLinked
      <4>6. CASE c # table[i]
        <5>1. /\ hashprev'[c] # Null => hashnext'[hashprev'[c]] = c
              /\ hashprev'[c] # Null => Bucket(hashprev[c])' = Bucket(c)'
          BY <4>1, <4>2, <4>6, <3>2, <2>2, <1>e, <1>t DEF Assign, Linked, Bucket
        <5>2. /\ hashnext'[c] # Null => hashprev'[hashnext'[c]] = c
              /\ hashnext'[c] # Null => Bucket(hashnext[c])' = Bucket(c)'
          BY <4>1, <4>2, <4>6, <3>2, <2>1, <2>2, <1>e, <1>i, <1>t
          DEF Assign, Linked, Bucket, HashLinked
        <5> QED BY <4>3, <4>4, <5>1, <5>2
      <4> QED BY <4>5, <4>6
    <3> QED BY <3>1, <3>2, <1>e
  <2> QED BY <2>4, <2>5 DEF HashLinked
<1>5. ListComplete'
  <2> SUFFICES ASSUME NEW S \in SUBSET Cells, Closed(S)'
               PROVE  allocated \cup {e} \subseteq S
    BY <1>e DEF ListComplete
  <2>1. ListLinked /\ ListComplete
    BY DEF LinkInv
  <2>2. /\ firsthashelem' \in S \cup {Null}
        /\ \A d \in S : listnext'[d] \in S \cup {Null}
    BY DEF Closed
  <2>3. CASE firsthashelem = Null
    <3>1. allocated \subseteq {}
      <4>1. Closed({})
        BY <2>3 DEF Closed
      <4> QED BY <4>1, <2>1 DEF ListComplete
    <3> QED BY <3>1, <2>3, <2>2, <1>e, <1>t
  <2>4. CASE firsthashelem # Null
    <3>1. firsthashelem \in S \cap allocated
      BY <2>4, <2>1, <2>2, <1>e, <1>t DEF ListLinked, Linked
    <3>2. ASSUME NEW d \in S \cap allocated
          PROVE  listnext[d] \in (S \cap allocated) \cup {Null}
      <4>1. listnext[d] \in allocated \cup {Null}
        BY <2>1 DEF ListLinked, Linked
      <4>2. CASE d = lasthashelem
        BY <4>2, <2>1 DEF ListLinked
      <4>3. CASE d # lasthashelem
        <5>1. listnext'[d] = listnext[d]
          BY <4>3, <1>e, <1>t DEF Assign
        <5> QED BY <5>1, <4>1, <2>2
      <4> QED BY <4>2, <4>3
    <3>3. allocated \subseteq S \cap allocated
      BY <3>1, <3>2, <2>1, <1>t DEF ListComplete, Closed
    <3>4. lasthashelem \in allocated /\ listnext'[lasthashelem] = e
      BY <2>4, <2>1, <1>e, <1>t DEF ListLinked, Linked, Assign
    <3>5. e \in S \cup {Null}
      BY <3>3, <3>4, <2>2
    <3> QED BY <3>3, <3>5, <1>e, <1>t
  <2> QED BY <2>3, <2>4
<1>6. CursorLinked'
  BY <1>e, <1>u DEF LinkInv, CursorLinked, Linked
<1> QED BY <1>1, <1>2, <1>3, <1>4, <1>5, <1>6 DEF LinkInv

\* The loop of Clear deletes every element.
LEMMA ClearSafe ==
  ASSUME LinkInv, Clear
  PROVE  LinkInv' /\ allocated' = {}
PROOF
<1> USE HashAssumption
<1>1. allocated \subseteq Reached(firsthashelem, listnext)
  BY DEF LinkInv, Types, ListComplete, Closed, Reached
<1>2. allocated' = {}
  BY <1>1 DEF Clear
<1>3. Types'
  BY <1>2 DEF LinkInv, Types, Clear, Freed, Field, Pointer
<1>4. Keyed' /\ ListComplete' /\ CursorLinked'
  BY <1>2 DEF Keyed, ListComplete, CursorLinked, Clear
<1>5. ListLinked' /\ HashLinked'
  BY <1>2 DEF ListLinked, HashLinked, Linked, Clear
<1> QED BY <1>2, <1>3, <1>4, <1>5 DEF LinkInv

\* Moving the cursor to an element, or to none.
LEMMA MoveSafe ==
  ASSUME LinkInv, NEW p, Linked(p), MoveTo(p)
  PROVE  LinkInv'
PROOF
<1> USE HashAssumption
<1>1. UNCHANGED listvars /\ curhashelem' = p /\ positioned' = TRUE
  BY DEF MoveTo
<1>2. Types' /\ CursorLinked'
  BY <1>1 DEF LinkInv, Types, listvars, CursorLinked, Linked, Pointer
<1>3. Keyed' /\ ListLinked' /\ ListComplete' /\ HashLinked'
  BY <1>1 DEF LinkInv, listvars, Keyed, ListLinked, ListComplete, Closed,
              HashLinked, Linked, Bucket
<1> QED BY <1>2, <1>3 DEF LinkInv

LEMMA StepSafe ==
  ASSUME LinkInv, [Next]_vars
  PROVE  LinkInv'
PROOF
<1>1. ASSUME NEW k \in Keys, AddElement(k) PROVE LinkInv'
  BY <1>1, AddSafe
<1>2. ASSUME NEW k \in Keys, GetIndex[k] < HashSize PROVE Linked(Found(k))
  BY <1>2, FoundLinked
<1>3. ASSUME NEW k \in Keys, DeleteElement(k) PROVE LinkInv'
  <2>1. CASE HasElement(k)
    <3>1. Found(k) \in allocated
      BY <1>2, <1>3, <2>1 DEF DeleteElement, HasElement, Linked
    <3> QED BY <3>1, <1>3, <2>1, UnlinkSafe DEF DeleteElement
  <2>2. CASE ~HasElement(k)
    <3>1. MoveTo(Null) /\ Linked(Null)
      BY <1>3, <2>2 DEF DeleteElement, MoveTo, Linked
    <3> QED BY <3>1, MoveSafe
  <2> QED BY <2>1, <2>2
<1>4. ASSUME NEW k \in Keys, GotoElement(k) PROVE LinkInv'
  BY <1>2, <1>4, MoveSafe DEF GotoElement
<1>5. CASE DeleteCurrentElement
  <2>1. curhashelem \in allocated /\ Unlink(curhashelem) /\ positioned' \in BOOLEAN
    BY <1>5 DEF DeleteCurrentElement, LinkInv, Types, CursorLinked, Linked
  <2> QED BY <2>1, UnlinkSafe
<1>6. CASE Clear
  BY <1>6, ClearSafe
<1>7. CASE GotoFirstElement
  BY <1>7, MoveSafe DEF GotoFirstElement, LinkInv, ListLinked
<1>8. CASE GotoLastElement
  BY <1>8, MoveSafe DEF GotoLastElement, LinkInv, ListLinked
<1>9. CASE GotoNextElement
  <2>1. MoveTo(listnext[curhashelem]) /\ Linked(listnext[curhashelem])
    BY <1>9 DEF GotoNextElement, LinkInv, CursorLinked, ListLinked, Linked
  <2> QED BY <2>1, MoveSafe
<1>10. CASE GotoPreviousElement
  <2>1. MoveTo(listprev[curhashelem]) /\ Linked(listprev[curhashelem])
    BY <1>10 DEF GotoPreviousElement, LinkInv, CursorLinked, ListLinked, Linked
  <2> QED BY <2>1, MoveSafe
<1>11. CASE UNCHANGED vars
  BY <1>11 DEF LinkInv, vars, listvars, Types, Keyed, ListLinked, ListComplete,
               Closed, HashLinked, CursorLinked, Linked, Bucket
<1> QED BY <1>1, <1>3, <1>4, <1>5, <1>6, <1>7, <1>8, <1>9, <1>10, <1>11 DEF Next

LEMMA InitSafe == Init => LinkInv
PROOF
<1> SUFFICES ASSUME Init PROVE LinkInv
  OBVIOUS
<1>1. Types
  BY HashAssumption DEF Init, Types, Field, Pointer
<1>2. Keyed /\ ListComplete /\ CursorLinked
  BY DEF Init, Keyed, ListComplete, CursorLinked
<1>3. ListLinked /\ HashLinked
  BY DEF Init, ListLinked, HashLinked, Linked
<1> QED BY <1>1, <1>2, <1>3 DEF LinkInv

LEMMA LinksSafe == Spec => []LinkInv
PROOF
<1> QED BY InitSafe, StepSafe, PTL DEF Spec

\* No pointer leads to a deleted element, whatever elements are added, found
\* and deleted and wherever the cursor is moved (RTPKeyHashTable).
THEOREM PointersSafe == Spec => []NoDanglingPointer
PROOF
<1>1. LinkInv => NoDanglingPointer
  BY DEF LinkInv, ListLinked, HashLinked, CursorLinked, NoDanglingPointer
<1> QED BY <1>1, LinksSafe, PTL

\* Clear deletes every element, wherever the cursor was: none is leaked.
THEOREM ClearDeletesAll == Spec => [][Clear => allocated' = {}]_vars
PROOF
<1>1. LinkInv /\ Clear => allocated' = {}
  BY ClearSafe
<1> QED BY <1>1, LinksSafe, PTL DEF Spec

-----------------------------------------------------------------------------
(* The lists are what the abstract table promises *)

\* A set of natural numbers has a smallest one.
LEMMA Smallest ==
  ASSUME NEW T \in SUBSET Nat, T # {}
  PROVE  \E x \in T : \A y \in T : x <= y
PROOF
<1> DEFINE R == {ss \in Nat \X Nat : ss[1] < ss[2]}
<1>1. IsWellFoundedOn(R, Nat)
  BY NatLessThanWellFounded DEF OpToRel
<1> HIDE DEF R
<1>2. PICK x \in T : \A y \in T : ~(<<y, x>> \in R)
  BY <1>1, WFMin
<1>3. ASSUME NEW y \in T
      PROVE  x <= y
  <2>1. x \in Nat /\ y \in Nat /\ ~(<<y, x>> \in R)
    BY <1>2
  <2> QED
    BY <2>1 DEF R
<1> QED
  BY <1>3

\* s lists the L elements as the links lead from one to the next.
Chain(s, L) ==
  /\ L \in Nat /\ s \in [1..L -> Cells]
  /\ \A i, j \in 1..L : s[i] = s[j] => i = j
  /\ allocated = {s[i] : i \in 1..L}
  /\ firsthashelem = IF L = 0 THEN Null ELSE s[1]
  /\ lasthashelem = IF L = 0 THEN Null ELSE s[L]
  /\ \A i \in 1..L :
       /\ listnext[s[i]] = IF i = L THEN Null ELSE s[i + 1]
       /\ listprev[s[i]] = IF i = 1 THEN Null ELSE s[i - 1]

\* There is one element in memory for each in the list.
LEMMA ChainLength ==
  ASSUME NEW s, NEW L, Chain(s, L)
  PROVE  /\ L = Cardinality(allocated)
         /\ L <= Cardinality(Cells) /\ Cardinality(Cells) \in Nat
PROOF
<1> DEFINE D == 1..L
<1>1. /\ L \in Nat /\ s \in [D -> Cells] /\ \A i \in D : s[i] \in Cells
      /\ \A i, j \in D : s[i] = s[j] => i = j
      /\ allocated = {s[i] : i \in D}
  BY DEF Chain
<1>2. IsFiniteSet(D) /\ Cardinality(D) = L
  <2>1. 1 \in Int /\ L \in Int
    BY <1>1
  <2>2. IsFiniteSet(1..L) /\ Cardinality(1..L) = IF 1 > L THEN 0 ELSE L - 1 + 1
    BY <2>1, FS_Interval
  <2> QED
    BY <1>1, <2>2
<1> HIDE DEF D
<1>3. s \in Bijection(D, allocated)
  <2>1. \A i \in D : s[i] \in allocated
    BY <1>1
  <2>2. s \in [D -> allocated] /\ \A t \in allocated : \E i \in D : s[i] = t
    BY <1>1, <2>1
  <2>3. s \in Injection(D, allocated)
    BY <1>1, <2>2 DEF Injection, IsInjective
  <2>4. s \in Surjection(D, allocated)
    BY <2>2 DEF Surjection
  <2> QED
    BY <2>3, <2>4 DEF Bijection
<1>4. IsFiniteSet(allocated) /\ Cardinality(allocated) = Cardinality(D)
  BY <1>2, <1>3, FS_Bijection DEF ExistsBijection
<1>5. allocated \subseteq Cells /\ IsFiniteSet(Cells)
  BY <1>1, HashAssumption
<1>6. Cardinality(allocated) <= Cardinality(Cells) /\ Cardinality(Cells) \in Nat
  BY <1>5, FS_Subset, FS_CardinalityType
<1> QED
  BY <1>2, <1>4, <1>6

\* The walk from the first element meets the elements of the list.
LEMMA ChainPlace ==
  ASSUME NEW s, NEW L, Chain(s, L)
  PROVE  Place = [n \in 0..Cardinality(Cells) |-> IF n < L THEN s[n + 1] ELSE Null]
PROOF
<1> DEFINE D == 0..Cardinality(Cells)
           At(g, n) ==
             IF n = 0 THEN firsthashelem
             ELSE LET p == g[n - 1] IN IF p = Null THEN Null ELSE listnext[p]
           G == [n \in D |-> IF n < L THEN s[n + 1] ELSE Null]
<1>1. /\ L \in Nat /\ Cardinality(Cells) \in Nat /\ Null \notin Cells
      /\ \A i \in 1..L : s[i] \in Cells
  BY ChainLength, HashAssumption DEF Chain
<1>2. \A n \in D : G[n] = At(G, n)
  <2> SUFFICES ASSUME NEW n \in D PROVE G[n] = At(G, n)
    OBVIOUS
  <2>1. CASE n = 0
    BY <1>1, <2>1 DEF Chain
  <2>2. CASE n > 0 /\ n - 1 < L
    <3>1. n - 1 \in D /\ n \in 1..L /\ G[n - 1] = s[n] /\ s[n] # Null
      BY <1>1, <2>2
    <3>2. listnext[s[n]] = IF n = L THEN Null ELSE s[n + 1]
      BY <3>1 DEF Chain
    <3> QED
      BY <1>1, <2>2, <3>1, <3>2
  <2>3. CASE n > 0 /\ ~(n - 1 < L)
    <3>1. n - 1 \in D /\ G[n - 1] = Null
      BY <1>1, <2>3
    <3> QED
      BY <1>1, <2>3, <3>1
  <2> QED
    BY <1>1, <2>1, <2>2, <2>3
<1> HIDE DEF At
<1>3. G = [n \in D |-> At(G, n)]
  BY <1>2
<1>4. Place = CHOOSE g : g = [n \in D |-> At(g, n)]
  BY DEF Place, At
<1>5. Place = [n \in D |-> At(Place, n)]
  BY <1>3, <1>4
<1> HIDE DEF G
<1>6. ASSUME NEW n \in D, \A m \in D : m < n => Place[m] = G[m]
      PROVE  Place[n] = G[n]
  <2>1. Place[n] = At(Place, n) /\ G[n] = At(G, n)
    BY <1>2, <1>5
  <2>2. n > 0 => Place[n - 1] = G[n - 1]
    BY <1>1, <1>6
  <2> QED
    BY <1>1, <2>1, <2>2 DEF At
<1>7. \A n \in D : Place[n] = G[n]
  <2> DEFINE T == {n \in D : Place[n] # G[n]}
  <2> SUFFICES T = {}
    OBVIOUS
  <2>1. SUFFICES ASSUME T # {} PROVE FALSE
    OBVIOUS
  <2>2. PICK x \in T : \A y \in T : x <= y
    <3>1. T \in SUBSET Nat
      BY <1>1
    <3> HIDE DEF T
    <3> QED
      BY <2>1, <3>1, Smallest
  <2>3. \A m \in D : m < x => Place[m] = G[m]
    BY <1>1, <2>2
  <2> QED
    BY <1>6, <2>2, <2>3
<1> QED
  BY <1>5, <1>7 DEF G

\* What the abstract table is when s lists the elements.
ChainAbstract(s, L) ==
  /\ ListedKeys = [i \in 1..L |-> key[s[i]]]
  /\ Cardinality(allocated) = L

Abstracts == \A s, L : Chain(s, L) => ChainAbstract(s, L)

LEMMA ChainAbstracts == Abstracts
PROOF
<1> SUFFICES ASSUME NEW s, NEW L, Chain(s, L) PROVE ChainAbstract(s, L)
  BY DEF Abstracts
<1> DEFINE C == Cardinality(Cells)
<1>1. /\ L \in Nat /\ C \in Nat /\ Cardinality(allocated) = L /\ L <= C
      /\ Place = [n \in 0..C |-> IF n < L THEN s[n + 1] ELSE Null]
      /\ \A i \in 1..L : s[i] \in Cells /\ Null \notin Cells
  <2>1. Place = [n \in 0..C |-> IF n < L THEN s[n + 1] ELSE Null]
    BY ChainPlace
  <2>2. C \in Nat /\ Cardinality(allocated) = L /\ L <= C
    BY ChainLength
  <2>3. L \in Nat /\ \A i \in 1..L : s[i] \in Cells
    BY DEF Chain
  <2> QED
    BY <2>1, <2>2, <2>3, HashAssumption
<1> HIDE DEF C
<1>2. {n \in DOMAIN Place : Place[n] # Null} = 0..(L - 1)
  BY <1>1
<1>3. Cardinality(0..(L - 1)) = L
  <2>1. 0 \in Int /\ L - 1 \in Int
    BY <1>1
  <2>2. Cardinality(0..(L - 1)) = IF 0 > L - 1 THEN 0 ELSE (L - 1) - 0 + 1
    BY <2>1, FS_Interval
  <2> QED
    BY <1>1, <2>2
<1>4. Length = L
  BY <1>2, <1>3 DEF Length
<1>5. \A n \in 1..L : Place[n - 1] = s[n]
  BY <1>1
<1> QED
  BY <1>1, <1>4, <1>5 DEF ListedKeys, ChainAbstract

-----------------------------------------------------------------------------

\* A search in a bucket meets every element of it.
BucketClosed(i, S) ==
  /\ table[i] \in S \cup {Null}
  /\ \A d \in S : hashnext[d] \in S \cup {Null}

HashComplete ==
  \A i \in Indices : \A S \in SUBSET Cells :
    BucketClosed(i, S) => \A c \in allocated : Bucket(c) = i => c \in S

Distinct == \A c, d \in allocated : key[c] = key[d] => c = d

LEMMA FoundExactly ==
  ASSUME LinkInv, HashComplete, NEW k \in Keys, GetIndex[k] < HashSize
  PROVE  /\ HasElement(k) <=> \E c \in allocated : key[c] = k
         /\ Found(k) # Null => Found(k) \in allocated /\ key[Found(k)] = k
PROOF
<1> DEFINE i == GetIndex[k]
           Hits == {c \in Reached(table[i], hashnext) : key[c] = k}
<1>1. i \in Indices /\ Null \notin Cells
  BY HashAssumption DEF Indices
<1>2. ASSUME NEW c \in allocated, key[c] = k
      PROVE  c \in Hits
  <2>1. c \in Cells /\ Bucket(c) = i
    BY <1>2 DEF LinkInv, Types, Bucket
  <2> QED
    BY <1>1, <1>2, <2>1 DEF HashComplete, BucketClosed, Reached
<1>3. Hits \subseteq Cells /\ \A c \in Hits : key[c] = k
  BY DEF Reached
<1>4. Found(k) = IF Hits = {} THEN Null ELSE CHOOSE c \in Hits : TRUE
  BY DEF Found
<1> HIDE DEF Hits
<1>5. CASE Hits = {}
  BY <1>2, <1>4, <1>5 DEF HasElement
<1>6. CASE Hits # {}
  <2>1. Found(k) \in Hits
    BY <1>4, <1>6
  <2>2. Linked(Found(k)) /\ Found(k) # Null
    BY <1>1, <1>3, <2>1, FoundLinked
  <2> QED
    BY <1>3, <2>1, <2>2 DEF HasElement, Linked
<1> QED
  BY <1>5, <1>6

LEMMA UnlinkComplete ==
  ASSUME LinkInv, HashComplete, NEW e \in allocated, Unlink(e)
  PROVE  HashComplete'
PROOF
<1> USE HashAssumption
<1>t. /\ allocated \subseteq Cells /\ e \in Cells /\ Bucket(e) \in Indices
      /\ Null \notin Cells /\ table \in [Indices -> Pointer]
  BY DEF LinkInv, Types, Keyed
<1> SUFFICES ASSUME NEW j \in Indices, NEW S \in SUBSET Cells, BucketClosed(j, S)'
             PROVE  \A c \in allocated' : Bucket(c)' = j => c \in S
  BY DEF HashComplete
<1> DEFINE p == hashprev[e]
           B == {c \in allocated : Bucket(c) = j}
           Old == IF e = table[j] \/ p \in S
                  THEN (S \cup {e}) \cap B ELSE (S \ {e}) \cap B
<1>1. /\ HashLinked /\ Old \in SUBSET Cells
      /\ \A c \in B : c \in allocated /\ c \in Cells /\ Bucket(c) = j
  BY <1>t DEF LinkInv
<1>2. table'[j] \in S \cup {Null} /\ \A d \in S : hashnext'[d] \in S \cup {Null}
  BY DEF BucketClosed
<1>3. table[j] \in Old \cup {Null}
  <2>1. table[j] \in B \cup {Null}
    BY <1>1 DEF HashLinked, Linked
  <2>2. CASE table[j] = e
    BY <2>1, <2>2, <1>t
  <2>3. CASE table[j] # e
    <3>1. hashprev[e] = Null => Bucket(e) # j
      BY <1>1, <2>3 DEF HashLinked
    <3>2. table'[j] = table[j]
      BY <3>1, <1>t DEF Unlink, Bucket
    <3> QED
      BY <1>2, <2>1, <2>3, <3>2
  <2> QED
    BY <2>2, <2>3
<1>4. ASSUME NEW d \in Old
      PROVE  hashnext[d] \in Old \cup {Null}
  <2>1. d \in B /\ hashnext[d] \in B \cup {Null}
    BY <1>1 DEF HashLinked, Linked
  <2>2. CASE d = e
    <3>1. hashnext[e] # e \/ e \in Old
      BY <2>2
    <3>2. hashnext[e] \in S \cup {Null, e}
      <4>1. CASE e = table[j]
        <5>1. hashprev[e] = Null /\ Bucket(e) = j
          BY <4>1, <2>1, <2>2, <1>1 DEF HashLinked
        <5>2. table'[j] = hashnext[e]
          BY <5>1, <1>t DEF Unlink, Bucket
        <5> QED
          BY <5>2, <1>2
      <4>2. CASE e # table[j]
        <5>1. p \in S
          BY <4>2, <2>2
        <5>2. p # e => hashnext'[p] = hashnext[e]
          BY <5>1, <1>t DEF Unlink, Assign, Freed
        <5>3. p = e => hashnext[e] = e
          BY <2>1, <2>2, <1>1, <1>t DEF HashLinked
        <5> QED
          BY <5>1, <5>2, <5>3, <1>2
      <4> QED
        BY <4>1, <4>2
    <3> QED
      BY <3>1, <3>2, <2>1, <2>2
  <2>3. CASE d # e /\ hashnext[d] = e
    BY <2>1, <2>3, <1>1, <1>t DEF HashLinked
  <2>4. CASE d # e /\ hashnext[d] # e
    <3>1. d \in S /\ (hashnext[d] = Null \/ d # p)
      BY <2>1, <2>4, <1>1, <1>t DEF HashLinked
    <3>2. hashnext[d] = Null \/ hashnext'[d] = hashnext[d]
      BY <3>1, <2>1, <2>4, <1>t DEF Unlink, Assign, Freed
    <3> QED
      BY <3>1, <3>2, <2>1, <2>4, <1>2
  <2> QED
    BY <2>2, <2>3, <2>4
<1>5. \A c \in allocated : Bucket(c) = j => c \in Old
  <2> HIDE DEF Old
  <2>1. BucketClosed(j, Old)
    BY <1>3, <1>4 DEF BucketClosed
  <2> QED
    BY <1>1, <2>1 DEF HashComplete
<1>6. ASSUME NEW c \in allocated', Bucket(c)' = j
      PROVE  c \in S
  <2>1. c \in allocated /\ c # e /\ Bucket(c) = j
    BY <1>6, <1>t DEF Unlink, Freed, Bucket
  <2> QED
    BY <1>5, <2>1
<1> QED
  BY <1>6

\* The element the new key gets.
Added(e, k) ==
  /\ e \in Cells \ allocated
  /\ GetIndex[k] \in Indices
  /\ allocated' = allocated \cup {e}
  /\ key' = Assign(key, e, k)
  /\ hashnext' = Assign(hashnext, e, table[GetIndex[k]])
  /\ listprev' = Assign(listprev, e, lasthashelem)
  /\ listnext' = Assign(Assign(listnext, e, Null), lasthashelem, e)
  /\ table' = [table EXCEPT ![GetIndex[k]] = e]
  /\ firsthashelem' = IF firsthashelem = Null THEN e ELSE firsthashelem
  /\ lasthashelem' = e
  /\ UNCHANGED <<curhashelem, positioned>>

LEMMA SomeAdded ==
  ASSUME NEW k \in Keys, AddElement(k)
  PROVE  \E e : Added(e, k)
PROOF
<1> DEFINE i == GetIndex[k]
<1>1. i \in Indices /\ UNCHANGED <<curhashelem, positioned>>
  BY HashAssumption DEF AddElement, Indices
<1>2. PICK e \in Cells \ allocated :
        /\ allocated' = allocated \cup {e}
        /\ key' = Assign(key, e, k)
        /\ hashnext' = Assign(hashnext, e, table[i])
        /\ listprev' = Assign(listprev, e, lasthashelem)
        /\ listnext' = Assign(Assign(listnext, e, Null), lasthashelem, e)
        /\ table' = [table EXCEPT ![i] = e]
        /\ firsthashelem' = IF firsthashelem = Null THEN e ELSE firsthashelem
        /\ lasthashelem' = e
  BY DEF AddElement
<1>3. Added(e, k)
  BY <1>1, <1>2 DEF Added
<1> QED
  BY <1>3

LEMMA AddComplete ==
  ASSUME LinkInv, HashComplete, NEW k \in Keys, NEW e, Added(e, k)
  PROVE  HashComplete'
PROOF
<1> USE HashAssumption
<1> DEFINE i == GetIndex[k]
<1>t. /\ allocated \subseteq Cells /\ Null \notin Cells /\ i \in Indices
      /\ e \in Cells \ allocated /\ table \in [Indices -> Pointer]
      /\ HashLinked
  BY DEF LinkInv, Types, Added
<1>e. /\ allocated' = allocated \cup {e}
      /\ table' = [table EXCEPT ![i] = e]
      /\ \A c \in Cells : /\ key'[c] = IF c = e THEN k ELSE key[c]
                          /\ hashnext'[c] = IF c = e THEN table[i] ELSE hashnext[c]
  BY DEF Added, Assign
<1> SUFFICES ASSUME NEW j \in Indices, NEW S \in SUBSET Cells, BucketClosed(j, S)'
             PROVE  \A c \in allocated' : Bucket(c)' = j => c \in S
  BY DEF HashComplete
<1>1. table'[j] \in S \cup {Null} /\ \A d \in S : hashnext'[d] \in S \cup {Null}
  BY DEF BucketClosed
<1>2. table[j] \in (S \cap allocated) \cup {Null}
  <2>1. Linked(table[j])
    BY <1>t DEF HashLinked
  <2>2. CASE j = i
    <3>1. e \in S /\ hashnext'[e] = table[j]
      BY <2>2, <1>1, <1>e, <1>t
    <3> QED
      BY <3>1, <2>1, <1>1 DEF Linked
  <2>3. CASE j # i
    BY <2>1, <2>3, <1>1, <1>e, <1>t DEF Linked
  <2> QED
    BY <2>2, <2>3
<1>3. ASSUME NEW d \in S \cap allocated
      PROVE  hashnext[d] \in (S \cap allocated) \cup {Null}
  <2>1. Linked(hashnext[d]) /\ hashnext'[d] = hashnext[d]
    BY <1>t, <1>e DEF HashLinked
  <2> QED
    BY <2>1, <1>1 DEF Linked
<1>4. \A c \in allocated : Bucket(c) = j => c \in S \cap allocated
  BY <1>2, <1>3, <1>t DEF HashComplete, BucketClosed
<1>5. ASSUME NEW c \in allocated', Bucket(c)' = j
      PROVE  c \in S
  <2>1. CASE c = e
    <3>1. i = j
      BY <1>5, <2>1, <1>e, <1>t DEF Bucket
    <3> QED
      BY <2>1, <3>1, <1>1, <1>e, <1>t
  <2>2. CASE c \in allocated
    <3>1. Bucket(c) = j
      BY <1>5, <2>2, <1>e, <1>t DEF Bucket
    <3> QED
      BY <2>2, <3>1, <1>4
  <2> QED
    BY <2>1, <2>2, <1>e
<1> QED
  BY <1>5

-----------------------------------------------------------------------------

\* A new element is appended to the list.
With(s, L, e) == [i \in 1..(L + 1) |-> IF i = L + 1 THEN e ELSE s[i]]

LEMMA AddChain ==
  ASSUME LinkInv, NEW k \in Keys, NEW e, Added(e, k), NEW s, NEW L, Chain(s, L)
  PROVE  Chain(With(s, L, e), L + 1)'
PROOF
<1> DEFINE t == With(s, L, e)
<1>1. /\ L \in Nat /\ t \in [1..(L + 1) -> Cells]
      /\ \A i \in 1..L : t[i] = s[i] /\ s[i] \in allocated /\ s[i] \in Cells /\ s[i] # e
      /\ t[L + 1] = e
      /\ e \in Cells \ allocated /\ Null \notin Cells
  BY HashAssumption DEF Added, Chain, With
<1>2. /\ \A i, j \in 1..L : s[i] = s[j] => i = j
      /\ allocated = {s[i] : i \in 1..L}
      /\ firsthashelem = IF L = 0 THEN Null ELSE s[1]
      /\ lasthashelem = IF L = 0 THEN Null ELSE s[L]
      /\ \A i \in 1..L :
           /\ listnext[s[i]] = IF i = L THEN Null ELSE s[i + 1]
           /\ listprev[s[i]] = IF i = 1 THEN Null ELSE s[i - 1]
  BY DEF Chain
<1> HIDE DEF t
<1>3. /\ allocated' = allocated \cup {e}
      /\ \A c \in Cells : listprev'[c] = IF c = e THEN lasthashelem ELSE listprev[c]
      /\ \A c \in Cells : listnext'[c] = IF c = lasthashelem THEN e
                                         ELSE IF c = e THEN Null ELSE listnext[c]
      /\ firsthashelem' = IF firsthashelem = Null THEN e ELSE firsthashelem
      /\ lasthashelem' = e
  BY DEF Added, Assign
<1>4. \A i, j \in 1..(L + 1) : t[i] = t[j] => i = j
  BY <1>1, <1>2
<1>5. allocated' = {t[i] : i \in 1..(L + 1)}
  BY <1>1, <1>2, <1>3
<1>6. firsthashelem' = t[1] /\ lasthashelem' = t[L + 1]
  BY <1>1, <1>2, <1>3
<1>7. ASSUME NEW i \in 1..(L + 1)
      PROVE  /\ listnext'[t[i]] = IF i = L + 1 THEN Null ELSE t[i + 1]
             /\ listprev'[t[i]] = IF i = 1 THEN Null ELSE t[i - 1]
  <2>1. CASE i = L + 1
    <3>1. t[i] = e /\ e # lasthashelem
      BY <2>1, <1>1, <1>2
    <3> QED
      BY <2>1, <3>1, <1>1, <1>2, <1>3
  <2>2. CASE i = L
    <3>1. t[i] = s[i] /\ s[i] = lasthashelem /\ i \in 1..L
      BY <2>2, <1>1, <1>2, <1>7
    <3>2. listnext'[t[i]] = e /\ listprev'[t[i]] = listprev[s[i]]
      BY <3>1, <1>1, <1>3
    <3>3. i # 1 => t[i - 1] = s[i - 1]
      BY <3>1, <1>1
    <3> QED
      BY <2>2, <3>1, <3>2, <3>3, <1>1, <1>2
  <2>3. CASE i \in 1..(L - 1)
    <3>1. i \in 1..L /\ t[i] = s[i] /\ t[i + 1] = s[i + 1] /\ s[i] # lasthashelem
      BY <2>3, <1>1, <1>2
    <3>2. listnext'[t[i]] = listnext[s[i]] /\ listprev'[t[i]] = listprev[s[i]]
      BY <3>1, <1>1, <1>3
    <3>3. i # 1 => t[i - 1] = s[i - 1]
      BY <3>1, <1>1
    <3> QED
      BY <2>3, <3>1, <3>2, <3>3, <1>1, <1>2
  <2>4. i = L + 1 \/ i = L \/ i \in 1..(L - 1)
    BY <1>1
  <2> QED
    BY <2>1, <2>2, <2>3, <2>4
<1>8. Chain(t, L + 1)'
  BY <1>1, <1>4, <1>5, <1>6, <1>7 DEF Chain
<1> QED
  BY <1>8 DEF t

\* An element is taken out of the list.
Without(s, L, m) == [i \in 1..(L - 1) |-> IF i < m THEN s[i] ELSE s[i + 1]]

LEMMA UnlinkChain ==
  ASSUME LinkInv, NEW s, NEW L, Chain(s, L), NEW m \in 1..L, Unlink(s[m])
  PROVE  Chain(Without(s, L, m), L - 1)'
PROOF
<1> DEFINE t == Without(s, L, m)
           e == s[m]
<1>1. /\ L \in Nat /\ L - 1 \in Nat /\ m \in 1..L /\ e = s[m]
      /\ \A i \in 1..L : s[i] \in allocated /\ s[i] \in Cells /\ s[i] # Null
      /\ Null \notin Cells
  <2>1. L \in Nat /\ m \in 1..L /\ \A i \in 1..L : s[i] \in allocated /\ s[i] \in Cells
    BY DEF Chain
  <2> QED
    BY <2>1, HashAssumption
<1>2. /\ \A i, j \in 1..L : s[i] = s[j] => i = j
      /\ allocated = {s[i] : i \in 1..L}
      /\ firsthashelem = s[1] /\ lasthashelem = s[L]
      /\ \A i \in 1..L :
           /\ listnext[s[i]] = IF i = L THEN Null ELSE s[i + 1]
           /\ listprev[s[i]] = IF i = 1 THEN Null ELSE s[i - 1]
  BY <1>1 DEF Chain
<1>3. /\ allocated' = allocated \ {e}
      /\ \A c \in Cells \ {e} :
           /\ listnext'[c] = IF c = listprev[e] THEN listnext[e] ELSE listnext[c]
           /\ listprev'[c] = IF c = listnext[e] THEN listprev[e] ELSE listprev[c]
      /\ firsthashelem' = IF listprev[e] = Null THEN listnext[e] ELSE firsthashelem
      /\ lasthashelem' = IF listnext[e] = Null THEN listprev[e] ELSE lasthashelem
  BY DEF Unlink, Assign, Freed
<1>4. /\ \A i \in 1..(L - 1) : i < m => t[i] = s[i] /\ i \in 1..L /\ i # m
      /\ \A i \in 1..(L - 1) : i >= m => t[i] = s[i + 1] /\ i + 1 \in 1..L /\ i + 1 # m
      /\ t \in [1..(L - 1) -> Cells]
  <2>1. \A i \in 1..(L - 1) : t[i] = IF i < m THEN s[i] ELSE s[i + 1]
    BY DEF Without
  <2>2. \A i \in 1..(L - 1) : i \in 1..L /\ i + 1 \in 1..L /\ t[i] \in Cells
    BY <1>1, <2>1
  <2>3. t \in [1..(L - 1) -> Cells]
    BY <2>2 DEF Without
  <2> QED
    BY <1>1, <2>1, <2>2, <2>3
<1> HIDE DEF t, e
\* The neighbours of the element, and what they are linked to now.
<1>5. /\ listnext[e] = IF m = L THEN Null ELSE s[m + 1]
      /\ listprev[e] = IF m = 1 THEN Null ELSE s[m - 1]
  BY <1>1, <1>2
<1>6. ASSUME NEW i \in 1..L, i # m
      PROVE  /\ s[i] \in Cells \ {e}
             /\ s[i] = listprev[e] <=> i = m - 1
             /\ s[i] = listnext[e] <=> i = m + 1
  <2>1. s[i] \in Cells \ {e} /\ s[i] # Null
    BY <1>1, <1>2, <1>6
  <2>2. s[i] = listprev[e] <=> i = m - 1
    <3>1. CASE m = 1
      BY <2>1, <3>1, <1>1, <1>5
    <3>2. CASE m # 1
      <4>1. m - 1 \in 1..L /\ listprev[e] = s[m - 1]
        BY <3>2, <1>1, <1>5
      <4> QED
        BY <4>1, <1>2
    <3> QED
      BY <3>1, <3>2
  <2>3. s[i] = listnext[e] <=> i = m + 1
    <3>1. CASE m = L
      BY <2>1, <3>1, <1>1, <1>5
    <3>2. CASE m # L
      <4>1. m + 1 \in 1..L /\ listnext[e] = s[m + 1]
        BY <3>2, <1>1, <1>5
      <4> QED
        BY <4>1, <1>2
    <3> QED
      BY <3>1, <3>2
  <2> QED
    BY <2>1, <2>2, <2>3
<1>7. ASSUME NEW i \in 1..L, i # m
      PROVE  /\ listnext'[s[i]] = IF i = m - 1 THEN listnext[e]
                                  ELSE IF i = L THEN Null ELSE s[i + 1]
             /\ listprev'[s[i]] = IF i = m + 1 THEN listprev[e]
                                  ELSE IF i = 1 THEN Null ELSE s[i - 1]
  BY <1>2, <1>3, <1>6, <1>7
<1>8. ASSUME NEW i \in 1..(L - 1), NEW j \in 1..(L - 1), t[i] = t[j]
      PROVE  i = j
  <2>1. CASE i < m /\ j < m
    BY <2>1, <1>2, <1>4, <1>8
  <2>2. CASE i >= m /\ j >= m
    <3>1. i + 1 = j + 1
      BY <2>2, <1>2, <1>4, <1>8
    <3> QED
      BY <3>1
  <2>3. CASE i < m /\ j >= m
    <3>1. i = j + 1
      BY <2>3, <1>2, <1>4, <1>8
    <3> QED
      BY <2>3, <3>1, <1>1
  <2>4. CASE i >= m /\ j < m
    <3>1. i + 1 = j
      BY <2>4, <1>2, <1>4, <1>8
    <3> QED
      BY <2>4, <3>1, <1>1
  <2> QED
    BY <2>1, <2>2, <2>3, <2>4, <1>1
<1>9. allocated' = {t[i] : i \in 1..(L - 1)}
  <2>1. ASSUME NEW c \in allocated' PROVE \E i \in 1..(L - 1) : c = t[i]
    <3>1. PICK i \in 1..L : c = s[i] /\ i # m
      BY <1>1, <1>2, <1>3
    <3>2. CASE i < m
      <4>1. i \in 1..(L - 1)
        BY <3>2, <1>1
      <4> QED
        BY <3>1, <3>2, <4>1, <1>4
    <3>3. CASE i > m
      <4>1. i - 1 \in 1..(L - 1) /\ i - 1 >= m /\ i - 1 + 1 = i
        BY <3>1, <3>3, <1>1
      <4>2. t[i - 1] = s[i]
        BY <4>1, <1>4
      <4> QED
        BY <3>1, <4>1, <4>2
    <3> QED
      BY <3>1, <3>2, <3>3, <1>1
  <2>2. ASSUME NEW i \in 1..(L - 1) PROVE t[i] \in allocated'
    <3>1. PICK j \in 1..L : t[i] = s[j] /\ j # m
      BY <1>1, <1>4
    <3> QED
      BY <3>1, <1>1, <1>2, <1>3
  <2> QED
    BY <2>1, <2>2
<1>10. /\ firsthashelem' = IF L - 1 = 0 THEN Null ELSE t[1]
       /\ lasthashelem' = IF L - 1 = 0 THEN Null ELSE t[L - 1]
  <2>1. 1 \in 1..L /\ L \in 1..L
    BY <1>1
  <2>2. CASE L = 1
    BY <2>2, <1>1, <1>3, <1>5
  <2>3. CASE L # 1
    <3>1. 1 \in 1..(L - 1) /\ L - 1 \in 1..(L - 1) /\ 1 + 1 = 2 /\ L - 1 + 1 = L
      BY <2>3, <1>1
    <3>2. firsthashelem' = t[1]
      <4>1. CASE m = 1
        BY <2>3, <3>1, <4>1, <1>1, <1>3, <1>4, <1>5
      <4>2. CASE m # 1
        <5>1. m - 1 \in 1..L /\ listprev[e] = s[m - 1] /\ 1 < m
          BY <4>2, <1>1, <1>5
        <5>2. t[1] = s[1] /\ listprev[e] # Null
          BY <3>1, <5>1, <1>1, <1>4
        <5> QED
          BY <5>2, <1>2, <1>3
      <4> QED
        BY <4>1, <4>2
    <3>3. lasthashelem' = t[L - 1]
      <4>1. CASE m = L
        BY <2>3, <3>1, <4>1, <1>1, <1>3, <1>4, <1>5
      <4>2. CASE m # L
        <5>1. m + 1 \in 1..L /\ listnext[e] = s[m + 1] /\ L - 1 >= m
          BY <4>2, <1>1, <1>5
        <5>2. t[L - 1] = s[L] /\ listnext[e] # Null
          BY <3>1, <5>1, <1>1, <1>4
        <5> QED
          BY <5>2, <1>2, <1>3
      <4> QED
        BY <4>1, <4>2
    <3> QED
      BY <2>3, <3>2, <3>3, <1>1
  <2> QED
    BY <2>2, <2>3
<1>11. ASSUME NEW i \in 1..(L - 1)
       PROVE  /\ listnext'[t[i]] = IF i = L - 1 THEN Null ELSE t[i + 1]
              /\ listprev'[t[i]] = IF i = 1 THEN Null ELSE t[i - 1]
  <2>1. CASE i < m
    <3>1. t[i] = s[i] /\ i \in 1..L /\ i # m /\ i # m + 1 /\ i # L
      BY <2>1, <1>1, <1>4
    <3>2. listprev'[t[i]] = IF i = 1 THEN Null ELSE s[i - 1]
      BY <3>1, <1>7
    <3>3. i # 1 => t[i - 1] = s[i - 1]
      <4>1. i # 1 => i - 1 \in 1..(L - 1) /\ i - 1 < m
        BY <2>1, <1>1
      <4> QED
        BY <4>1, <1>4
    <3>4. CASE i = m - 1
      <4>1. listnext'[t[i]] = IF m = L THEN Null ELSE s[m + 1]
        BY <3>1, <3>4, <1>5, <1>7
      <4>2. m # L => m \in 1..(L - 1) /\ m >= m
        BY <1>1
      <4>3. i + 1 = m /\ (i = L - 1 <=> m = L) /\ (m # L => t[m] = s[m + 1])
        BY <3>4, <4>2, <1>1, <1>4
      <4> QED
        BY <3>2, <3>3, <4>1, <4>3
    <3>5. CASE i # m - 1
      <4>1. i + 1 \in 1..(L - 1) /\ i + 1 < m /\ i # L - 1
        BY <2>1, <3>5, <1>1
      <4>2. listnext'[t[i]] = s[i + 1] /\ t[i + 1] = s[i + 1]
        BY <3>1, <3>5, <4>1, <1>4, <1>7
      <4> QED
        BY <3>2, <3>3, <4>1, <4>2
    <3> QED
      BY <3>4, <3>5
  <2>2. CASE i >= m
    <3>1. t[i] = s[i + 1] /\ i + 1 \in 1..L /\ i + 1 # m /\ i + 1 # m - 1 /\ i + 1 # 1
      BY <2>2, <1>1, <1>4
    <3>2. listnext'[t[i]] = IF i + 1 = L THEN Null ELSE s[i + 1 + 1]
      BY <3>1, <1>7
    <3>3. i # L - 1 => t[i + 1] = s[i + 1 + 1]
      <4>1. i # L - 1 => i + 1 \in 1..(L - 1) /\ i + 1 >= m
        BY <2>2, <1>1
      <4> QED
        BY <4>1, <1>4
    <3>4. i + 1 = L <=> i = L - 1
      BY <1>1
    <3>5. CASE i = m
      <4>1. listprev'[t[i]] = IF m = 1 THEN Null ELSE s[m - 1]
        BY <3>1, <3>5, <1>5, <1>7
      <4>2. m # 1 => m - 1 \in 1..(L - 1) /\ m - 1 < m
        BY <1>1
      <4>3. m # 1 => t[m - 1] = s[m - 1]
        BY <4>2, <1>4
      <4> QED
        BY <3>2, <3>3, <3>4, <3>5, <4>1, <4>3
    <3>6. CASE i # m
      <4>1. i - 1 \in 1..(L - 1) /\ i - 1 >= m /\ i - 1 + 1 = i /\ i + 1 - 1 = i /\ i # 1
        BY <2>2, <3>6, <1>1
      <4>2. listprev'[t[i]] = s[i]
        <5>1. i + 1 # m + 1
          BY <3>6, <1>1
        <5> QED
          BY <3>1, <4>1, <5>1, <1>7
      <4>3. t[i - 1] = s[i]
        BY <4>1, <1>4
      <4> QED
        BY <3>2, <3>3, <3>4, <4>1, <4>2, <4>3
    <3> QED
      BY <3>5, <3>6
  <2> QED
    BY <2>1, <2>2, <1>1
<1>12. Chain(t, L - 1)'
  BY <1>1, <1>4, <1>8, <1>9, <1>10, <1>11 DEF Chain
<1> QED
  BY <1>12 DEF t

-----------------------------------------------------------------------------

\* RemoveAt of the community modules, element by element.
LEMMA RemovedAt ==
  ASSUME NEW S, NEW L \in Nat, NEW f \in [1..L -> S], NEW m \in 1..L
  PROVE  Abstract!RemoveAt(f, m)
           = [i \in 1..(L - 1) |-> IF i < m THEN f[i] ELSE f[i + 1]]
PROOF
<1> DEFINE a == SubSeq(f, 1, m - 1)
           b == SubSeq(f, m + 1, L)
           g == [i \in 1..(L - 1) |-> IF i < m THEN f[i] ELSE f[i + 1]]
<1>1. f \in Seq(S) /\ Len(f) = L
  OBVIOUS
<1>2. Abstract!RemoveAt(f, m) = a \o b
  BY <1>1 DEF Abstract!RemoveAt
<1>3. a \in Seq(S) /\ Len(a) = m - 1 /\ \A i \in 1..(m - 1) : a[i] = f[i]
  BY <1>1
<1>4. b \in Seq(S) /\ Len(b) = L - m /\ \A i \in 1..(L - m) : b[i] = f[m + i]
  BY <1>1
<1> HIDE DEF a, b
<1>5. /\ a \o b \in Seq(S) /\ Len(a \o b) = L - 1
      /\ \A i \in 1..(L - 1) : (a \o b)[i] = IF i < m THEN a[i] ELSE b[i - (m - 1)]
  <2>1. /\ a \o b \in Seq(S) /\ Len(a \o b) = Len(a) + Len(b)
        /\ \A i \in 1..(Len(a) + Len(b)) :
             (a \o b)[i] = IF i <= Len(a) THEN a[i] ELSE b[i - Len(a)]
    BY <1>3, <1>4, ConcatProperties
  <2> QED
    BY <1>3, <1>4, <2>1
<1> DEFINE c == a \o b
<1>6. c \in Seq(S) /\ Len(c) = L - 1
  BY <1>5
<1> HIDE DEF c
<1>7. DOMAIN c = 1..(L - 1) /\ c = [i \in 1..(L - 1) |-> c[i]]
  <2>1. c \in [1..Len(c) -> S]
    BY <1>6
  <2> QED
    BY <1>6, <2>1
<1>8. \A i \in 1..(L - 1) : c[i] = IF i < m THEN f[i] ELSE f[i + 1]
  BY <1>3, <1>4, <1>5 DEF c
<1> QED
  BY <1>2, <1>8, <1>7 DEF c

TableInv ==
  /\ LinkInv /\ HashComplete /\ Distinct
  /\ \E s, L : Chain(s, L)

\* An element's key is where the element is.
LEMMA KeyPlace ==
  ASSUME LinkInv, Distinct, NEW s, NEW L, Chain(s, L), NEW m \in 1..L
  PROVE  Abstract!Position(key[s[m]]) = m
PROOF
<1>1. /\ L \in Nat /\ ListedKeys = [i \in 1..L |-> key[s[i]]]
      /\ \A i \in 1..L : s[i] \in allocated
      /\ \A i, j \in 1..L : s[i] = s[j] => i = j
  <2>1. ChainAbstract(s, L)
    BY ChainAbstracts DEF Abstracts
  <2> QED
    BY <2>1 DEF Chain, ChainAbstract
<1>2. \A i \in 1..L : key[s[i]] = key[s[m]] => i = m
  BY <1>1 DEF Distinct
<1>3. \A i \in DOMAIN ListedKeys : ListedKeys[i] = key[s[m]] <=> i = m
  BY <1>1, <1>2
<1>4. m \in DOMAIN ListedKeys
  BY <1>1
<1> HIDE DEF ListedKeys
<1> QED
  BY <1>3, <1>4 DEF Abstract!Position

\* Taking out an element is taking out its key.
LEMMA UnlinkImplements ==
  ASSUME TableInv, NEW e \in allocated, Unlink(e), positioned' = TRUE
  PROVE  TableInv' /\ Abstract!RemoveKey(key[e])
PROOF
<1>1. PICK s, L : Chain(s, L)
  BY DEF TableInv
<1>2. PICK m \in 1..L : e = s[m]
  BY <1>1 DEF Chain
<1> DEFINE t == Without(s, L, m)
<1>3. LinkInv' /\ HashComplete'
  BY UnlinkSafe, UnlinkComplete DEF TableInv
<1>4. Chain(t, L - 1)'
  BY <1>1, <1>2, UnlinkChain DEF TableInv
<1>5. /\ allocated' = allocated \ {e} /\ allocated \subseteq Cells /\ Null \notin Cells
      /\ key' = [c \in Cells |-> IF c = e THEN Null ELSE key[c]]
      /\ curhashelem' = listnext[e]
  BY HashAssumption DEF Unlink, Freed, TableInv, LinkInv, Types
<1>6. Distinct'
  BY <1>5 DEF Distinct, TableInv
<1>7. ListedKeys = [i \in 1..L |-> key[s[i]]] /\ Cardinality(allocated) = L
  BY <1>1, ChainAbstracts DEF Abstracts, ChainAbstract
<1>8. ListedKeys' = [i \in 1..(L - 1) |-> key'[t[i]]]
  <2>1. Abstracts'
    BY ChainAbstracts, PTL
  <2> QED
    BY <2>1, <1>4 DEF Abstracts, ChainAbstract
<1>9. /\ L \in Nat /\ L - 1 \in Nat
      /\ \A i \in 1..L : s[i] \in allocated /\ s[i] \in Cells
      /\ \A i, j \in 1..L : s[i] = s[j] => i = j
      /\ listnext[e] = IF m = L THEN Null ELSE s[m + 1]
  BY <1>1, <1>2 DEF Chain
<1>10. \A i \in 1..(L - 1) :
         key'[t[i]] = IF i < m THEN key[s[i]] ELSE key[s[i + 1]]
  <2> SUFFICES ASSUME NEW i \in 1..(L - 1)
               PROVE  key'[t[i]] = IF i < m THEN key[s[i]] ELSE key[s[i + 1]]
    OBVIOUS
  <2>1. t[i] = IF i < m THEN s[i] ELSE s[i + 1]
    BY DEF Without
  <2>2. t[i] \in Cells \ {e}
    BY <1>2, <1>9, <2>1
  <2> QED
    BY <1>5, <2>1, <2>2
<1>11. ListedKeys' = Abstract!RemoveAt(ListedKeys, m)
  <2>1. \A i \in 1..L : key[s[i]] \in {key[c] : c \in Cells}
    BY <1>9
  <2>2. ListedKeys \in [1..L -> {key[c] : c \in Cells}]
    BY <1>7, <2>1
  <2>3. Abstract!RemoveAt(ListedKeys, m)
          = [i \in 1..(L - 1) |-> IF i < m THEN ListedKeys[i] ELSE ListedKeys[i + 1]]
    <3> HIDE DEF ListedKeys
    <3>1. L \in Nat /\ m \in 1..L
      BY <1>9
    <3> QED
      BY <2>2, <3>1, RemovedAt
  <2>4. \A i \in 1..(L - 1) : /\ i < m => ListedKeys[i] = key[s[i]]
                              /\ i >= m => ListedKeys[i + 1] = key[s[i + 1]]
    BY <1>7, <1>9
  <2> QED
    BY <1>8, <1>9, <1>10, <2>3, <2>4
<1>12. CurrentKey' = Abstract!KeyAt(m + 1)
  <2>1. CASE m = L
    <3>1. CurrentKey' = None /\ m + 1 \notin DOMAIN ListedKeys
      BY <2>1, <1>5, <1>7, <1>9 DEF CurrentKey
    <3> QED
      BY <3>1 DEF Abstract!KeyAt
  <2>2. CASE m # L
    <3>1. m + 1 \in 1..L /\ listnext[e] = s[m + 1] /\ s[m + 1] \in Cells \ {e}
      BY <2>2, <1>2, <1>9
    <3>2. CurrentKey' = key[s[m + 1]]
      BY <3>1, <1>5 DEF CurrentKey
    <3>3. m + 1 \in DOMAIN ListedKeys /\ ListedKeys[m + 1] = key[s[m + 1]]
      BY <3>1, <1>7
    <3> QED
      BY <3>2, <3>3 DEF Abstract!KeyAt
  <2> QED
    BY <2>1, <2>2
<1>13. Abstract!Position(key[e]) = m
  BY <1>1, <1>2, KeyPlace DEF TableInv
<1>14. Abstract!RemoveKey(key[e])
  BY <1>11, <1>12, <1>13 DEF Abstract!RemoveKey
<1>15. TableInv'
  BY <1>3, <1>4, <1>6 DEF TableInv
<1> QED
  BY <1>14, <1>15

-----------------------------------------------------------------------------

LEMMA ChainKeys ==
  ASSUME NEW s, NEW L, Chain(s, L)
  PROVE  /\ L \in Nat /\ DOMAIN ListedKeys = 1..L /\ Len(ListedKeys) = L
         /\ \A i \in 1..L : ListedKeys[i] = key[s[i]] /\ s[i] \in allocated
         /\ \A c \in allocated : \E i \in 1..L : c = s[i]
PROOF
<1>1. ChainAbstract(s, L)
  BY ChainAbstracts DEF Abstracts
<1>2. L \in Nat /\ allocated = {s[i] : i \in 1..L}
  BY DEF Chain
<1>3. ListedKeys = [i \in 1..L |-> key[s[i]]]
  BY <1>1 DEF ChainAbstract
<1> HIDE DEF ListedKeys
<1>4. DOMAIN ListedKeys = 1..L /\ \A i \in 1..L : ListedKeys[i] = key[s[i]]
  BY <1>3
<1>5. Len(ListedKeys) = L
  BY <1>2, <1>3
<1> QED
  BY <1>2, <1>4, <1>5

\* The keys are those of the elements, and the elements are as many.
Counted == TableInv => Cardinality(allocated) = Len(ListedKeys)

LEMMA KeysCounted == Counted
PROOF
<1> SUFFICES ASSUME TableInv PROVE Cardinality(allocated) = Len(ListedKeys)
  BY DEF Counted
<1>1. PICK s, L : Chain(s, L)
  BY DEF TableInv
<1>2. Len(ListedKeys) = L
  BY <1>1, ChainKeys
<1>3. L = Cardinality(allocated)
  BY <1>1, ChainLength
<1> QED
  BY <1>2, <1>3

LEMMA KeysListed ==
  ASSUME TableInv, NEW k
  PROVE  k \in Abstract!ToSet(ListedKeys) <=> \E c \in allocated : key[c] = k
PROOF
<1>1. PICK s, L : Chain(s, L)
  BY DEF TableInv
<1>2. /\ DOMAIN ListedKeys = 1..L
      /\ \A i \in 1..L : ListedKeys[i] = key[s[i]] /\ s[i] \in allocated
      /\ \A c \in allocated : \E i \in 1..L : c = s[i]
  BY <1>1, ChainKeys
<1> HIDE DEF ListedKeys
<1> QED
  BY <1>2 DEF Abstract!ToSet

LEMMA Appended ==
  ASSUME NEW S, NEW L \in Nat, NEW f \in [1..L -> S], NEW x \in S
  PROVE  Append(f, x) = [i \in 1..(L + 1) |-> IF i = L + 1 THEN x ELSE f[i]]
PROOF
<1>1. f \in Seq(S) /\ Len(f) = L
  OBVIOUS
<1> DEFINE c == Append(f, x)
<1>2. /\ c \in Seq(S) /\ Len(c) = L + 1
      /\ \A i \in 1..(L + 1) : c[i] = IF i = L + 1 THEN x ELSE f[i]
  BY <1>1, AppendProperties
<1> HIDE DEF c
<1>3. c \in [1..(L + 1) -> S]
  BY <1>2
<1> QED
  BY <1>2, <1>3 DEF c

\* A new element's key is the last one.
LEMMA AddImplements ==
  ASSUME TableInv, NEW k \in Keys, AddElement(k)
  PROVE  TableInv' /\ Abstract!Add(k)
PROOF
<1>1. PICK e : Added(e, k)
  BY SomeAdded
<1>2. PICK s, L : Chain(s, L)
  BY DEF TableInv
<1> DEFINE t == With(s, L, e)
<1>3. LinkInv' /\ HashComplete'
  BY <1>1, AddSafe, AddComplete DEF TableInv
<1>4. Chain(t, L + 1)'
  BY <1>1, <1>2, AddChain DEF TableInv
<1>5. \A c \in allocated : key[c] # k
  BY FoundExactly DEF AddElement, TableInv
<1>6. /\ allocated' = allocated \cup {e} /\ allocated \subseteq Cells
      /\ e \in Cells \ allocated /\ Null \notin Cells
      /\ key'[e] = k /\ \A c \in allocated : key'[c] = key[c]
      /\ UNCHANGED <<curhashelem, positioned>>
      /\ positioned => curhashelem \in allocated \cup {Null}
  BY <1>1, HashAssumption
  DEF Added, Assign, TableInv, LinkInv, Types, CursorLinked, Linked
<1>7. Distinct'
  BY <1>5, <1>6 DEF Distinct, TableInv
<1>8. CurrentKey' = CurrentKey
  BY <1>6 DEF CurrentKey
<1>9. /\ L \in Nat /\ DOMAIN ListedKeys = 1..L /\ Len(ListedKeys) = L
      /\ \A i \in 1..L : ListedKeys[i] = key[s[i]] /\ s[i] \in allocated
  BY <1>2, ChainKeys
<1>10. ListedKeys' = [i \in 1..(L + 1) |-> key'[t[i]]]
  <2>1. Abstracts'
    BY ChainAbstracts, PTL
  <2> QED
    BY <2>1, <1>4 DEF Abstracts, ChainAbstract
<1>11. ListedKeys' = Append(ListedKeys, k)
  <2> HIDE DEF ListedKeys
  <2>1. \A i \in 1..(L + 1) : key'[t[i]] = IF i = L + 1 THEN k ELSE ListedKeys[i]
    <3> SUFFICES ASSUME NEW i \in 1..(L + 1)
                 PROVE  key'[t[i]] = IF i = L + 1 THEN k ELSE ListedKeys[i]
      OBVIOUS
    <3>1. t[i] = IF i = L + 1 THEN e ELSE s[i]
      BY DEF With
    <3>2. i # L + 1 => i \in 1..L
      BY <1>9
    <3> QED
      BY <3>1, <3>2, <1>6, <1>9
  <2>2. Append(ListedKeys, k)
          = [i \in 1..(L + 1) |-> IF i = L + 1 THEN k ELSE ListedKeys[i]]
    <3> DEFINE S == {ListedKeys[i] : i \in 1..L} \cup {k}
    <3>1. ListedKeys = [i \in 1..L |-> ListedKeys[i]]
      BY <1>9, <1>2, ChainAbstracts DEF Abstracts, ChainAbstract
    <3>2. ListedKeys \in [1..L -> S] /\ k \in S
      BY <3>1
    <3> HIDE DEF S
    <3> QED
      BY <1>9, <3>2, Appended
  <2> QED
    BY <2>1, <2>2, <1>10
<1>12. k \notin Abstract!ToSet(ListedKeys)
  BY <1>5, KeysListed
<1>13. TableInv'
  BY <1>3, <1>4, <1>7 DEF TableInv
<1> QED
  BY <1>8, <1>11, <1>12, <1>13 DEF Abstract!Add

\* A cleared table has no keys.
LEMMA ClearImplements ==
  ASSUME TableInv, Clear
  PROVE  TableInv' /\ Abstract!Clear
PROOF
<1>1. LinkInv' /\ allocated' = {}
  BY ClearSafe DEF TableInv
<1>2. HashComplete' /\ Distinct'
  BY <1>1 DEF HashComplete, Distinct
<1> DEFINE s == [i \in 1..0 |-> Null]
<1>3. Chain(s, 0)'
  BY <1>1 DEF Chain, Clear
<1>4. ListedKeys' = [i \in 1..0 |-> key'[s[i]]]
  <2>1. Abstracts'
    BY ChainAbstracts, PTL
  <2> QED
    BY <2>1, <1>3 DEF Abstracts, ChainAbstract
<1>5. ListedKeys' = <<>>
  BY <1>4
<1>6. CurrentKey' = Unset
  BY DEF Clear, CurrentKey
<1>7. TableInv'
  BY <1>1, <1>2, <1>3 DEF TableInv
<1> QED
  BY <1>5, <1>6, <1>7 DEF Abstract!Clear

\* Moving the cursor changes nothing else.
LEMMA MoveKeeps ==
  ASSUME TableInv, NEW p, Linked(p), MoveTo(p)
  PROVE  /\ TableInv' /\ ListedKeys' = ListedKeys
         /\ CurrentKey' = IF p = Null THEN None ELSE key[p]
PROOF
<1>1. UNCHANGED listvars /\ curhashelem' = p /\ positioned' = TRUE
  BY DEF MoveTo
<1>2. LinkInv'
  BY MoveSafe DEF TableInv
<1>3. HashComplete' /\ Distinct'
  BY <1>1 DEF TableInv, listvars, HashComplete, BucketClosed, Bucket, Distinct
<1>4. PICK s, L : Chain(s, L)
  BY DEF TableInv
<1>5. Chain(s, L)'
  BY <1>1, <1>4 DEF listvars, Chain
<1>6. ListedKeys' = ListedKeys
  <2>1. Abstracts'
    BY ChainAbstracts, PTL
  <2>2. ListedKeys' = [i \in 1..L |-> key'[s[i]]]
    BY <2>1, <1>5 DEF Abstracts, ChainAbstract
  <2>3. ListedKeys = [i \in 1..L |-> key[s[i]]]
    BY <1>4, ChainAbstracts DEF Abstracts, ChainAbstract
  <2>4. key' = key
    BY <1>1 DEF listvars
  <2> QED
    BY <2>2, <2>3, <2>4
<1>7. CurrentKey' = IF p = Null THEN None ELSE key[p]
  BY <1>1 DEF CurrentKey, listvars
<1>8. TableInv'
  BY <1>2, <1>3, <1>5 DEF TableInv
<1> QED
  BY <1>6, <1>7, <1>8

\* Where the cursor is.
LEMMA CursorPlace ==
  ASSUME TableInv, positioned, curhashelem # Null
  PROVE  /\ curhashelem \in allocated /\ CurrentKey = key[curhashelem]
         /\ CurrentKey \in Abstract!ToSet(ListedKeys)
PROOF
<1>1. curhashelem \in allocated /\ CurrentKey = key[curhashelem]
  BY DEF TableInv, LinkInv, CursorLinked, Linked, CurrentKey
<1>2. CurrentKey \in Abstract!ToSet(ListedKeys)
  BY <1>1, KeysListed
<1> QED
  BY <1>1, <1>2

LEMMA DeleteElementImplements ==
  ASSUME TableInv, NEW k \in Keys, DeleteElement(k)
  PROVE  TableInv' /\ Abstract!DeleteKey(k)
PROOF
<1>1. /\ HasElement(k) <=> \E c \in allocated : key[c] = k
      /\ Found(k) # Null => Found(k) \in allocated /\ key[Found(k)] = k
  BY FoundExactly DEF TableInv, DeleteElement
<1>2. k \in Abstract!ToSet(ListedKeys) <=> HasElement(k)
  BY <1>1, KeysListed
<1>3. CASE HasElement(k)
  <2>1. Found(k) \in allocated /\ key[Found(k)] = k
    BY <1>1, <1>3 DEF HasElement
  <2>2. Unlink(Found(k)) /\ positioned' = TRUE
    BY <1>3 DEF DeleteElement
  <2>3. TableInv' /\ Abstract!RemoveKey(key[Found(k)])
    BY <2>1, <2>2, UnlinkImplements
  <2> QED
    BY <1>2, <1>3, <2>1, <2>3 DEF Abstract!DeleteKey
<1>4. CASE ~HasElement(k)
  <2>1. MoveTo(Null) /\ Linked(Null)
    BY <1>4 DEF DeleteElement, MoveTo, Linked
  <2>2. TableInv' /\ ListedKeys' = ListedKeys /\ CurrentKey' = None
    BY <2>1, MoveKeeps
  <2> QED
    BY <1>2, <1>4, <2>2 DEF Abstract!DeleteKey
<1> QED
  BY <1>3, <1>4

LEMMA DeleteCurrentImplements ==
  ASSUME TableInv, DeleteCurrentElement
  PROVE  TableInv' /\ Abstract!Delete
PROOF
<1>1. positioned /\ curhashelem # Null /\ Unlink(curhashelem) /\ positioned' = TRUE
  BY DEF DeleteCurrentElement, TableInv, LinkInv, Types
<1>2. /\ curhashelem \in allocated /\ CurrentKey = key[curhashelem]
      /\ CurrentKey \in Abstract!ToSet(ListedKeys)
  BY <1>1, CursorPlace
<1>3. TableInv' /\ Abstract!RemoveKey(key[curhashelem])
  BY <1>1, <1>2, UnlinkImplements
<1> QED
  BY <1>2, <1>3 DEF Abstract!Delete

LEMMA GotoImplements ==
  ASSUME TableInv, NEW k \in Keys, GotoElement(k)
  PROVE  TableInv' /\ Abstract!Goto(k)
PROOF
<1>1. GetIndex[k] < HashSize /\ MoveTo(Found(k))
  BY DEF GotoElement
<1>2. /\ HasElement(k) <=> \E c \in allocated : key[c] = k
      /\ Found(k) # Null => key[Found(k)] = k
      /\ Linked(Found(k))
  BY <1>1, FoundExactly, FoundLinked DEF TableInv
<1>3. /\ TableInv' /\ ListedKeys' = ListedKeys
      /\ CurrentKey' = IF Found(k) = Null THEN None ELSE key[Found(k)]
  BY <1>1, <1>2, MoveKeeps
<1>4. k \in Abstract!ToSet(ListedKeys) <=> Found(k) # Null
  BY <1>1, <1>2, KeysListed DEF HasElement
<1> QED
  BY <1>2, <1>3, <1>4 DEF Abstract!Goto

LEMMA GotoEndsImplement ==
  ASSUME TableInv, GotoFirstElement \/ GotoLastElement
  PROVE  TableInv' /\ (Abstract!GotoEnd(1) \/ Abstract!GotoEnd(Len(ListedKeys)))
PROOF
<1>1. PICK s, L : Chain(s, L)
  BY DEF TableInv
<1>2. /\ L \in Nat /\ DOMAIN ListedKeys = 1..L /\ Len(ListedKeys) = L
      /\ \A i \in 1..L : ListedKeys[i] = key[s[i]] /\ s[i] \in allocated
  BY <1>1, ChainKeys
<1>3. /\ firsthashelem = IF L = 0 THEN Null ELSE s[1]
      /\ lasthashelem = IF L = 0 THEN Null ELSE s[L]
  BY <1>1 DEF Chain
<1>4. /\ allocated \subseteq Cells /\ Null \notin Cells
      /\ Linked(firsthashelem) /\ Linked(lasthashelem)
  BY HashAssumption DEF TableInv, LinkInv, Types, ListLinked
<1>5. CASE GotoFirstElement
  <2>1. /\ TableInv' /\ ListedKeys' = ListedKeys
        /\ CurrentKey' = IF firsthashelem = Null THEN None ELSE key[firsthashelem]
    BY <1>4, <1>5, MoveKeeps DEF GotoFirstElement
  <2> HIDE DEF ListedKeys
  <2>2. CurrentKey' = IF 1 \in DOMAIN ListedKeys THEN ListedKeys[1] ELSE None
    BY <2>1, <1>2, <1>3, <1>4
  <2> QED
    BY <2>1, <2>2 DEF Abstract!GotoEnd, Abstract!KeyAt
<1>6. CASE GotoLastElement
  <2>1. /\ TableInv' /\ ListedKeys' = ListedKeys
        /\ CurrentKey' = IF lasthashelem = Null THEN None ELSE key[lasthashelem]
    BY <1>4, <1>6, MoveKeeps DEF GotoLastElement
  <2> HIDE DEF ListedKeys
  <2>2. CurrentKey' = IF L \in DOMAIN ListedKeys THEN ListedKeys[L] ELSE None
    BY <2>1, <1>2, <1>3, <1>4
  <2> QED
    BY <2>1, <2>2, <1>2 DEF Abstract!GotoEnd, Abstract!KeyAt
<1> QED
  BY <1>5, <1>6

LEMMA MovesImplement ==
  ASSUME TableInv, GotoNextElement \/ GotoPreviousElement
  PROVE  TableInv' /\ (Abstract!Move(1) \/ Abstract!Move(-1))
PROOF
<1>1. PICK s, L : Chain(s, L)
  BY DEF TableInv
<1>2. /\ L \in Nat /\ DOMAIN ListedKeys = 1..L
      /\ \A i \in 1..L : ListedKeys[i] = key[s[i]] /\ s[i] \in allocated
      /\ \A c \in allocated : \E i \in 1..L : c = s[i]
  BY <1>1, ChainKeys
<1>3. /\ curhashelem \in allocated /\ CurrentKey = key[curhashelem]
      /\ CurrentKey \in Abstract!ToSet(ListedKeys)
  BY CursorPlace DEF GotoNextElement, GotoPreviousElement
<1>4. PICK m \in 1..L : curhashelem = s[m]
  BY <1>2, <1>3
<1>5. Abstract!Position(CurrentKey) = m
  BY <1>1, <1>3, <1>4, KeyPlace DEF TableInv
<1>6. /\ listnext[s[m]] = IF m = L THEN Null ELSE s[m + 1]
      /\ listprev[s[m]] = IF m = 1 THEN Null ELSE s[m - 1]
  BY <1>1 DEF Chain
<1>7. /\ allocated \subseteq Cells /\ Null \notin Cells
      /\ Linked(listnext[s[m]]) /\ Linked(listprev[s[m]])
  BY <1>3, <1>4, HashAssumption DEF TableInv, LinkInv, Types, ListLinked
<1>8. CASE GotoNextElement
  <2>1. /\ TableInv' /\ ListedKeys' = ListedKeys
        /\ CurrentKey' = IF listnext[s[m]] = Null THEN None ELSE key[listnext[s[m]]]
    BY <1>4, <1>7, <1>8, MoveKeeps DEF GotoNextElement
  <2> HIDE DEF ListedKeys
  <2>2. m # L => m + 1 \in 1..L
    BY <1>2
  <2>3. m = L => m + 1 \notin 1..L
    BY <1>2
  <2>4. CurrentKey' = IF m + 1 \in DOMAIN ListedKeys THEN ListedKeys[m + 1] ELSE None
    BY <2>1, <2>2, <2>3, <1>2, <1>6, <1>7
  <2> QED
    BY <2>1, <2>4, <1>3, <1>5 DEF Abstract!Move, Abstract!KeyAt
<1>9. CASE GotoPreviousElement
  <2>1. /\ TableInv' /\ ListedKeys' = ListedKeys
        /\ CurrentKey' = IF listprev[s[m]] = Null THEN None ELSE key[listprev[s[m]]]
    BY <1>4, <1>7, <1>9, MoveKeeps DEF GotoPreviousElement
  <2> HIDE DEF ListedKeys
  <2>2. m # 1 => m - 1 \in 1..L
    BY <1>2
  <2>3. m = 1 => m - 1 \notin 1..L
    BY <1>2
  <2>4. CurrentKey' = IF m - 1 \in DOMAIN ListedKeys THEN ListedKeys[m - 1] ELSE None
    BY <2>1, <2>2, <2>3, <1>2, <1>6, <1>7
  <2>5. m + (-1) = m - 1
    BY <1>2
  <2> QED
    BY <2>1, <2>4, <2>5, <1>3, <1>5 DEF Abstract!Move, Abstract!KeyAt
<1> QED
  BY <1>8, <1>9

AbstractVars == <<ListedKeys, CurrentKey, Cardinality(allocated)>>

LEMMA StutterImplements ==
  ASSUME TableInv, UNCHANGED vars
  PROVE  TableInv' /\ UNCHANGED AbstractVars
PROOF
<1>1. UNCHANGED listvars /\ UNCHANGED <<curhashelem, positioned>>
  BY DEF vars
<1>2. LinkInv'
  BY StepSafe DEF TableInv
<1>3. HashComplete' /\ Distinct'
  BY <1>1 DEF TableInv, listvars, HashComplete, BucketClosed, Bucket, Distinct
<1>4. PICK s, L : Chain(s, L)
  BY DEF TableInv
<1>5. Chain(s, L)'
  BY <1>1, <1>4 DEF listvars, Chain
<1>6. ListedKeys' = ListedKeys
  <2>1. Abstracts'
    BY ChainAbstracts, PTL
  <2>2. ListedKeys' = [i \in 1..L |-> key'[s[i]]]
    BY <2>1, <1>5 DEF Abstracts, ChainAbstract
  <2>3. ListedKeys = [i \in 1..L |-> key[s[i]]]
    BY <1>4, ChainAbstracts DEF Abstracts, ChainAbstract
  <2>4. key' = key
    BY <1>1 DEF listvars
  <2> QED
    BY <2>2, <2>3, <2>4
<1>7. CurrentKey' = CurrentKey /\ Cardinality(allocated)' = Cardinality(allocated)
  BY <1>1 DEF CurrentKey, listvars
<1>8. TableInv'
  BY <1>2, <1>3, <1>5 DEF TableInv
<1> QED
  BY <1>6, <1>7, <1>8 DEF AbstractVars

LEMMA StepImplements ==
  ASSUME TableInv, [Next]_vars
  PROVE  TableInv' /\ [Abstract!Next]_AbstractVars
PROOF
<1> DEFINE Moved ==
      \/ \E k \in Keys : Abstract!Add(k) \/ Abstract!DeleteKey(k) \/ Abstract!Goto(k)
      \/ Abstract!Delete \/ Abstract!GotoEnd(1) \/ Abstract!GotoEnd(Len(ListedKeys))
      \/ Abstract!Move(1) \/ Abstract!Move(-1) \/ Abstract!Clear
<1>1. ASSUME Next PROVE TableInv' /\ Moved
  <2>1. ASSUME NEW k \in Keys, AddElement(k) PROVE TableInv' /\ Moved
    BY <2>1, AddImplements
  <2>2. ASSUME NEW k \in Keys, DeleteElement(k) PROVE TableInv' /\ Moved
    BY <2>2, DeleteElementImplements
  <2>3. ASSUME NEW k \in Keys, GotoElement(k) PROVE TableInv' /\ Moved
    BY <2>3, GotoImplements
  <2>4. CASE DeleteCurrentElement
    BY <2>4, DeleteCurrentImplements
  <2>5. CASE Clear
    BY <2>5, ClearImplements
  <2>6. CASE GotoFirstElement \/ GotoLastElement
    BY <2>6, GotoEndsImplement
  <2>7. CASE GotoNextElement \/ GotoPreviousElement
    BY <2>7, MovesImplement
  <2> HIDE DEF Moved
  <2> QED
    BY <1>1, <2>1, <2>2, <2>3, <2>4, <2>5, <2>6, <2>7 DEF Next
<1>2. ASSUME Next PROVE Abstract!Next
  <2>1. Counted'
    BY KeysCounted, PTL
  <2>2. Cardinality(allocated)' = Len(ListedKeys')
    BY <1>1, <1>2, <2>1 DEF Counted
  <2> QED
    BY <1>1, <1>2, <2>2 DEF Abstract!Next
<1>3. CASE UNCHANGED vars
  BY <1>3, StutterImplements
<1> QED
  BY <1>1, <1>2, <1>3

LEMMA InitImplements ==
  ASSUME Init
  PROVE  TableInv /\ Abstract!Init
PROOF
<1>1. LinkInv /\ allocated = {} /\ positioned = FALSE
  BY InitSafe DEF Init
<1>2. HashComplete /\ Distinct
  BY <1>1 DEF HashComplete, Distinct
<1> DEFINE s == [i \in 1..0 |-> Null]
<1>3. Chain(s, 0)
  BY <1>1 DEF Chain, Init
<1>4. TableInv
  BY <1>1, <1>2, <1>3 DEF TableInv
<1>5. ListedKeys = [i \in 1..0 |-> key[s[i]]] /\ Cardinality(allocated) = 0
  BY <1>3, ChainAbstracts DEF Abstracts, ChainAbstract
<1>6. ListedKeys = <<>>
  BY <1>5
<1>7. CurrentKey = Unset
  BY <1>1 DEF CurrentKey
<1> QED
  BY <1>4, <1>5, <1>6, <1>7 DEF Abstract!Init

\* The lists linked by hand are an ordered set of keys with a cursor
\* (RTPTable): whatever elements are added, found and deleted, a search finds
\* exactly what was added and not deleted, the list has it in the order it was
\* added, the cursor moves along it, and as many elements are in memory.
THEOREM TableSafe == Spec => TableImplemented
PROOF
<1>1. Init => TableInv /\ Abstract!Init
  BY InitImplements
<1>2. TableInv /\ [Next]_vars => TableInv' /\ [Abstract!Next]_AbstractVars
  BY StepImplements
<1> QED
  BY <1>1, <1>2, PTL DEF Spec, TableImplemented, Abstract!Spec, AbstractVars

=============================================================================
