----------------------------- MODULE RTCPProofs -----------------------------
(***************************************************************************)
(* RTCP packets keep the size they may have, fill the buffer that is        *)
(* allocated for them and can be parsed again; RTCPPacketBuilder always     *)
(* finds space for something that is to be sent, sends every SDES item once *)
(* in a round and leaves no source out for long; and RTCPScheduler keeps    *)
(* packets apart.                                                           *)
(*                                                                          *)
(* All but the last are about what loops over sequences compute: the sizes  *)
(* of a packet's parts added up, the sources of the table and the SDES items*)
(* visited one after the other.  These are folds, and the facts about them  *)
(* are proved for the first k elements, from k = 0 to the end.              *)
(***************************************************************************)
EXTENDS RTCPScheduler, RTCPCompoundPacketBuilder, RTCPPacketBuilder,
        SequenceTheorems, FiniteSetTheorems, WellFoundedInduction, TLAPS

-----------------------------------------------------------------------------
(* Sums and other folds.  The recursive function behind them is the one     *)
(* that exists, by a smallest counterexample for lack of an induction rule. *)

\* A set of natural numbers has a smallest one.
LEMMA Smallest ==
  ASSUME NEW T \in SUBSET Nat, T # {}
  PROVE  \E x \in T : \A y \in T : x <= y
<1> DEFINE R == {ss \in Nat \X Nat : ss[1] < ss[2]}
<1>1. IsWellFoundedOn(R, Nat)
  BY NatLessThanWellFounded DEF OpToRel
<1> HIDE DEF R
<1>2. PICK x \in T : \A y \in T : ~(<<y, x>> \in R)
  BY <1>1, WFMin
<1>3. ASSUME NEW y \in T
      PROVE  x <= y
  <2>1. x \in Nat /\ y \in Nat /\ ~(<<y, x>> \in R)
    BY <1>2
  <2> QED
    BY <2>1 DEF R
<1> QED
  BY <1>3

\* Induction up to n, for a set.
LEMMA Climb ==
  ASSUME NEW n \in Nat, NEW A, 0 \in A, \A k \in 0..n : k < n /\ k \in A => k + 1 \in A
  PROVE  0..n \subseteq A
<1> DEFINE T == (0..n) \ A
<1> SUFFICES ASSUME T # {} PROVE FALSE
  OBVIOUS
<1>1. PICK k \in T : \A m \in T : k <= m
  <2>1. T \in SUBSET Nat
    OBVIOUS
  <2> HIDE DEF T
  <2> QED
    BY <2>1, Smallest
<1>2. k - 1 \in 0..n /\ ~(k <= k - 1) /\ k - 1 < n /\ k - 1 + 1 = k
  OBVIOUS
<1>3. k - 1 \in A
  BY <1>1, <1>2
<1> QED
  BY <1>2, <1>3

\* The largest number.
LEMMA MaxOf ==
  ASSUME NEW k \in Nat, NEW S \in SUBSET (1..(k + 1)), k + 1 \in S
  PROVE  Max(S) = k + 1
<1>1. \A y \in S : k + 1 >= y
  OBVIOUS
<1>2. \A x \in S : (\A y \in S : x >= y) => x = k + 1
  <2> TAKE x \in S
  <2> HAVE \A y \in S : x >= y
  <2>1. x >= k + 1 /\ x \in 1..(k + 1)
    OBVIOUS
  <2> QED
    BY <2>1
<1> QED
  BY <1>1, <1>2 DEF Max

\* A set of places has a last one.
LEMMA MaxIn ==
  ASSUME NEW n \in Nat, NEW S \in SUBSET (1..n), S # {}
  PROVE  Max(S) \in S
<1> DEFINE T == {n - x : x \in S}
<1>1. T \in SUBSET Nat /\ T # {}
  <2>1. \A x \in S : x \in 1..n /\ n - x \in Nat
    OBVIOUS
  <2>2. PICK x \in S : TRUE
    OBVIOUS
  <2>3. n - x \in T
    OBVIOUS
  <2> QED
    BY <2>1, <2>3
<1>2. PICK d \in T : \A y \in T : d <= y
  <2> HIDE DEF T
  <2> QED
    BY <1>1, Smallest
<1>3. PICK x \in S : d = n - x
  BY <1>2
<1>4. ASSUME NEW y \in S PROVE x >= y
  <2>1. n - y \in T
    OBVIOUS
  <2>2. n - x <= n - y
    BY <1>2, <1>3, <2>1
  <2> QED
    BY <2>2
<1>5. \E z \in S : \A y \in S : z >= y
  BY <1>4
<1> QED
  BY <1>5 DEF Max

\* A function on the sets of places that folds g over the sequence s.
Folds(G, g, base, s, n) ==
  \A S \in SUBSET (1..n) :
    G[S] = IF S = {} THEN base ELSE g[<<G[S \ {Max(S)}], s[Max(S)]>>]

\* A fold over k elements goes on with one more.
LEMMA FoldStep ==
  ASSUME NEW X, NEW E, NEW g \in [X \X E -> X], NEW base \in X, NEW k \in Nat,
         NEW s, s[k + 1] \in E, NEW G \in [SUBSET (1..k) -> X], Folds(G, g, base, s, k)
  PROVE  \E H \in [SUBSET (1..(k + 1)) -> X] : Folds(H, g, base, s, k + 1)
<1> DEFINE H == [S \in SUBSET (1..(k + 1)) |->
                   IF k + 1 \in S THEN g[<<G[S \ {k + 1}], s[k + 1]>>] ELSE G[S]]
<1>1. ASSUME NEW S \in SUBSET (1..(k + 1))
      PROVE  S \ {k + 1} \in SUBSET (1..k) /\ (k + 1 \notin S => S \in SUBSET (1..k))
  <2>1. \A i \in S : i # k + 1 => i \in 1..k
    OBVIOUS
  <2> QED
    BY <2>1, Zenon
<1>2. H \in [SUBSET (1..(k + 1)) -> X]
  BY <1>1
<1>3. ASSUME NEW S \in SUBSET (1..(k + 1))
      PROVE  H[S] = IF S = {} THEN base ELSE g[<<H[S \ {Max(S)}], s[Max(S)]>>]
  <2>1. CASE k + 1 \in S
    <3>1. Max(S) = k + 1
      BY <2>1, MaxOf
    <3>2. H[S \ {k + 1}] = G[S \ {k + 1}]
      OBVIOUS
    <3> QED
      BY <2>1, <3>1, <3>2
  <2>2. CASE k + 1 \notin S
    <3>1. S \in SUBSET (1..k) /\ H[S] = G[S]
      BY <2>2, <1>1
    <3>2. G[S] = IF S = {} THEN base ELSE g[<<G[S \ {Max(S)}], s[Max(S)]>>]
      BY <3>1 DEF Folds
    <3>3. H[S \ {Max(S)}] = G[S \ {Max(S)}]
      BY <2>2, <3>1
    <3> QED
      BY <3>1, <3>2, <3>3
  <2> QED
    BY <2>1, <2>2
<1> HIDE DEF H
<1> QED
  BY <1>2, <1>3 DEF Folds

\* There is a fold over every sequence.
LEMMA FoldExists ==
  ASSUME NEW X, NEW E, NEW g \in [X \X E -> X], NEW base \in X, NEW n \in Nat,
         NEW s \in [1..n -> E]
  PROVE  \E G \in [SUBSET (1..n) -> X] : Folds(G, g, base, s, n)
<1> DEFINE P(k) == \E G \in [SUBSET (1..k) -> X] : Folds(G, g, base, s, k)
           A == {k \in 0..n : P(k)}
<1>1. P(0)
  <2> DEFINE G == [S \in SUBSET (1..0) |-> base]
  <2>1. G \in [SUBSET (1..0) -> X]
    OBVIOUS
  <2>2. Folds(G, g, base, s, 0)
    BY DEF Folds
  <2> QED
    BY <2>1, <2>2
<1>2. ASSUME NEW k \in Nat, k < n, P(k) PROVE P(k + 1)
  <2>1. PICK G \in [SUBSET (1..k) -> X] : Folds(G, g, base, s, k)
    BY <1>2
  <2>2. s[k + 1] \in E
    BY <1>2
  <2> QED
    BY <2>1, <2>2, FoldStep
<1> HIDE DEF P
<1>3. 0..n \subseteq A
  <2>1. 0 \in A
    BY <1>1
  <2>2. \A k \in 0..n : k < n /\ k \in A => k + 1 \in A
    BY <1>2
  <2> HIDE DEF A
  <2> QED
    BY <2>1, <2>2, Climb
<1>4. n \in 0..n
  OBVIOUS
<1>5. P(n)
  BY <1>3, <1>4
<1> QED
  BY <1>5 DEF P

\* The first elements of a sequence.
LEMMA Upto ==
  ASSUME NEW n \in Nat, NEW k \in 1..n
  PROVE  /\ 1..k \in SUBSET (1..n) /\ 1..k # {} /\ k \in 1..k /\ Max(1..k) = k
         /\ (1..k) \ {k} = 1..(k - 1)
<1>1. k - 1 \in Nat /\ k - 1 + 1 = k /\ k \in 1..k
  OBVIOUS
<1>2. 1..k \in SUBSET (1..(k - 1 + 1)) /\ k - 1 + 1 \in 1..k
  BY <1>1
<1>3. Max(1..k) = k - 1 + 1
  BY <1>1, <1>2, MaxOf
<1> QED
  BY <1>1, <1>3

\* A sum is the last of the sums of the first elements.
LEMMA SumRuns ==
  ASSUME NEW n \in Nat, NEW s \in [1..n -> Nat]
  PROVE  \E h \in [0..n -> Nat] :
           /\ h[0] = 0 /\ h[n] = SumOf(s)
           /\ \A k \in 1..n : h[k] = h[k - 1] + s[k]
<1> DEFINE g == [p \in Nat \X Nat |-> p[1] + p[2]]
           Iter(it) == [S \in SUBSET (1..n) |->
                          IF S = {} THEN 0 ELSE it[S \ {Max(S)}] + s[Max(S)]]
           It == CHOOSE it : it = Iter(it)
           h == [k \in 0..n |-> It[1..k]]
<1>1. SumOf(s) = It[1..n]
  BY DEF SumOf, FoldLeft, MapThenFoldSet
<1>2. g \in [Nat \X Nat -> Nat] /\ \A a, b \in Nat : g[<<a, b>>] = a + b
  OBVIOUS
<1> HIDE DEF g
<1>3. PICK G \in [SUBSET (1..n) -> Nat] : Folds(G, g, 0, s, n)
  BY <1>2, FoldExists
<1>4. G = Iter(G)
  <2>1. ASSUME NEW S \in SUBSET (1..n)
        PROVE  G[S] = IF S = {} THEN 0 ELSE G[S \ {Max(S)}] + s[Max(S)]
    <3>1. S # {} => s[Max(S)] \in Nat
      BY MaxIn
    <3>2. G[S \ {Max(S)}] \in Nat
      OBVIOUS
    <3>3. G[S] = IF S = {} THEN 0 ELSE g[<<G[S \ {Max(S)}], s[Max(S)]>>]
      BY <1>3 DEF Folds
    <3> QED
      BY <1>2, <3>1, <3>2, <3>3
  <2> QED
    BY <2>1
<1> HIDE DEF Iter
<1>5. It = Iter(It)
  BY <1>4
<1> HIDE DEF It
<1>6. \A S \in SUBSET (1..n) :
        It[S] = IF S = {} THEN 0 ELSE It[S \ {Max(S)}] + s[Max(S)]
  BY <1>5 DEF Iter
<1>7. h[0] = 0
  <2>1. 1..0 = {} /\ {} \in SUBSET (1..n) /\ 0 \in 0..n
    OBVIOUS
  <2> QED
    BY <2>1, <1>6
<1>8. ASSUME NEW k \in 1..n PROVE h[k] = h[k - 1] + s[k]
  <2>1. It[1..k] = It[1..(k - 1)] + s[k]
    <3>1. /\ 1..k \in SUBSET (1..n) /\ 1..k # {} /\ Max(1..k) = k
          /\ (1..k) \ {k} = 1..(k - 1)
      BY Upto
    <3> QED
      BY <1>6, <3>1, Zenon
  <2> QED
    BY <2>1
<1>9. h[n] = It[1..n] /\ h = [k \in 0..n |-> h[k]]
  OBVIOUS
<1> HIDE DEF h
<1>10. h \in [0..n -> Nat]
  <2> DEFINE A == {k \in 0..n : h[k] \in Nat}
  <2>1. 0 \in A
    BY <1>7
  <2>2. \A k \in 0..n : k < n /\ k \in A => k + 1 \in A
    <3> TAKE k \in 0..n
    <3> HAVE k < n /\ k \in A
    <3>1. k + 1 \in 1..n /\ k + 1 - 1 = k
      OBVIOUS
    <3>2. h[k + 1] = h[k] + s[k + 1]
      BY <1>8, <3>1
    <3> QED
      BY <3>1, <3>2
  <2> HIDE DEF A
  <2>3. 0..n \subseteq A
    BY <2>1, <2>2, Climb
  <2> QED
    BY <2>3, <1>9 DEF A
<1> QED
  BY <1>1, <1>7, <1>8, <1>9, <1>10

\* Sums of sequences that grow.
LEMMA SumEmpty ==
  /\ SumOf(<<>>) = 0
  /\ \A s \in Seq(Nat) : SumOf(s) \in Nat
<1>1. ASSUME NEW s \in Seq(Nat)
      PROVE  SumOf(s) \in Nat /\ (Len(s) = 0 => SumOf(s) = 0)
  <2>1. Len(s) \in Nat /\ s \in [1..Len(s) -> Nat] /\ Len(s) \in 0..Len(s)
    OBVIOUS
  <2> QED
    BY <2>1, SumRuns
<1>2. <<>> \in Seq(Nat) /\ Len(<<>>) = 0
  OBVIOUS
<1> QED
  BY <1>1, <1>2

\* An element more is added to the sum.
LEMMA SumAppend ==
  ASSUME NEW s \in Seq(Nat), NEW x \in Nat
  PROVE  SumOf(Append(s, x)) = SumOf(s) + x
<1> DEFINE n == Len(s)
           t == Append(s, x)
<1>1. /\ n \in Nat /\ s \in [1..n -> Nat] /\ t \in [1..(n + 1) -> Nat]
      /\ t[n + 1] = x /\ \A k \in 1..n : t[k] = s[k]
  <2>1. t \in Seq(Nat) /\ Len(t) = n + 1 /\ t[n + 1] = x /\ \A k \in 1..n : t[k] = s[k]
    BY AppendProperties
  <2>2. n \in Nat /\ s \in [1..n -> Nat]
    OBVIOUS
  <2> HIDE DEF t
  <2>3. t \in [1..Len(t) -> Nat]
    BY <2>1
  <2> QED
    BY <2>1, <2>2, <2>3
<1> HIDE DEF n, t
<1>2. PICK h \in [0..n -> Nat] :
        /\ h[0] = 0 /\ h[n] = SumOf(s)
        /\ \A k \in 1..n : h[k] = h[k - 1] + s[k]
  BY <1>1, SumRuns
<1>3. PICK f \in [0..(n + 1) -> Nat] :
        /\ f[0] = 0 /\ f[n + 1] = SumOf(t)
        /\ \A k \in 1..(n + 1) : f[k] = f[k - 1] + t[k]
  <2>1. n + 1 \in Nat
    BY <1>1
  <2> QED
    BY <2>1, <1>1, SumRuns
<1>4. f[n] = h[n]
  <2> DEFINE B == {k \in 0..n : f[k] = h[k]}
  <2>1. 0 \in B
    BY <1>1, <1>2, <1>3
  <2>2. \A k \in 0..n : k < n /\ k \in B => k + 1 \in B
    <3> TAKE k \in 0..n
    <3> HAVE k < n /\ k \in B
    <3>1. k + 1 \in 1..n /\ k + 1 \in 1..(n + 1) /\ k + 1 - 1 = k
      BY <1>1
    <3>2. h[k + 1] = h[k] + s[k + 1]
      BY <1>2, <3>1
    <3>3. f[k + 1] = f[k] + t[k + 1]
      BY <1>3, <3>1
    <3> QED
      BY <3>1, <3>2, <3>3, <1>1
  <2> HIDE DEF B
  <2>3. 0..n \subseteq B
    BY <2>1, <2>2, <1>1, Climb
  <2>4. n \in 0..n
    BY <1>1
  <2> QED
    BY <2>3, <2>4 DEF B
<1>5. \A k \in 1..(n + 1) : k = n + 1 => f[k] = f[n] + t[k]
  BY <1>1, <1>3
<1>6. f[n + 1] = f[n] + t[n + 1]
  <2>1. n + 1 \in 1..(n + 1)
    BY <1>1
  <2> QED
    BY <2>1, <1>5
<1> QED
  BY <1>1, <1>2, <1>3, <1>4, <1>6 DEF t

\* The weights of the elements, added up.
Weight(m, s) == SumOf([i \in DOMAIN s |-> m[s[i]]])

\* What the weights of a sequence add up to when it grows.
LEMMA WeightRules ==
  ASSUME NEW E, NEW m \in [E -> Nat]
  PROVE  /\ Weight(m, <<>>) = 0
         /\ \A s \in Seq(E) : Weight(m, s) \in Nat
         /\ \A s \in Seq(E), x \in E : Weight(m, Append(s, x)) = Weight(m, s) + m[x]
<1> DEFINE w(s) == [i \in DOMAIN s |-> m[s[i]]]
<1>1. ASSUME NEW s \in Seq(E)
      PROVE  w(s) \in Seq(Nat) /\ Len(w(s)) = Len(s)
  <2>1. DOMAIN s = 1..Len(s) /\ Len(s) \in Nat /\ \A i \in DOMAIN s : s[i] \in E
    OBVIOUS
  <2>2. w(s) \in [1..Len(s) -> Nat]
    BY <2>1
  <2> QED
    BY <2>1, <2>2, SeqDef
<1>2. ASSUME NEW s \in Seq(E), NEW x \in E
      PROVE  w(Append(s, x)) = Append(w(s), m[x])
  <2>1. /\ Append(s, x) \in Seq(E) /\ Len(Append(s, x)) = Len(s) + 1
        /\ Append(s, x)[Len(s) + 1] = x
        /\ \A i \in 1..Len(s) : Append(s, x)[i] = s[i]
    BY AppendProperties
  <2>2. /\ w(s) \in Seq(Nat) /\ Len(w(s)) = Len(s)
        /\ w(Append(s, x)) \in Seq(Nat) /\ Len(w(Append(s, x))) = Len(s) + 1
    BY <1>1, <2>1
  <2>3. /\ Append(w(s), m[x]) \in Seq(Nat) /\ Len(Append(w(s), m[x])) = Len(s) + 1
        /\ Append(w(s), m[x])[Len(s) + 1] = m[x]
        /\ \A i \in 1..Len(s) : Append(w(s), m[x])[i] = w(s)[i]
    BY <2>2, AppendProperties
  <2>4. ASSUME NEW i \in 1..(Len(s) + 1)
        PROVE  w(Append(s, x))[i] = Append(w(s), m[x])[i]
    <3>1. Len(s) \in Nat /\ DOMAIN s = 1..Len(s) /\ DOMAIN Append(s, x) = 1..(Len(s) + 1)
      BY <2>1
    <3>2. w(Append(s, x))[i] = m[Append(s, x)[i]]
      BY <3>1
    <3>3. CASE i = Len(s) + 1
      BY <3>2, <3>3, <2>1, <2>3
    <3>4. CASE i # Len(s) + 1
      <4>1. i \in 1..Len(s)
        BY <3>4, <3>1
      <4>2. w(s)[i] = m[s[i]]
        BY <4>1, <3>1
      <4> QED
        BY <4>1, <4>2, <3>2, <2>1, <2>3
    <3> QED
      BY <3>3, <3>4
  <2> HIDE DEF w
  <2> QED
    BY <2>2, <2>3, <2>4, SeqEqual
<1>3. w(<<>>) = <<>>
  OBVIOUS
<1>4. \A s \in Seq(E) : Weight(m, s) = SumOf(w(s))
  BY DEF Weight
<1>5. <<>> \in Seq(E) /\ \A x \in E : m[x] \in Nat
  OBVIOUS
<1>6. \A s \in Seq(E), x \in E : Append(s, x) \in Seq(E)
  OBVIOUS
<1> HIDE DEF w
<1>7. Weight(m, <<>>) = 0
  BY <1>3, <1>4, <1>5, SumEmpty
<1>8. \A s \in Seq(E) : Weight(m, s) \in Nat
  BY <1>1, <1>4, SumEmpty
<1>9. ASSUME NEW s \in Seq(E), NEW x \in E
      PROVE  Weight(m, Append(s, x)) = Weight(m, s) + m[x]
  <2>1. Weight(m, Append(s, x)) = SumOf(Append(w(s), m[x])) /\ Weight(m, s) = SumOf(w(s))
    BY <1>2, <1>4, <1>6
  <2>2. SumOf(Append(w(s), m[x])) = SumOf(w(s)) + m[x]
    BY <1>1, <1>5, SumAppend
  <2> QED
    BY <2>1, <2>2
<1> QED
  BY <1>7, <1>8, <1>9

-----------------------------------------------------------------------------
(* The bytes that a pack needs, when something is added to it               *)

\* The packs with report blocks and chunks of the sources in S, and items in I.
ItemsOf(I) == [id : I, len : Nat]
Chunks(S, I) == [ssrc : S, items : Seq(ItemsOf(I))]
Leavings == [count : Nat, reason : Nat]
Packs(S, I) ==
  [max : Nat, report : {"none", "SR", "RR"}, blocks : Seq(S), sdes : Seq(Chunks(S, I)),
   app : Seq(Nat), unknown : Seq(Nat), bye : Seq(Leavings)]

\* The sums of a pack's sizes.
ItemSum(items) == SumOf(Map(ItemBytes, items))
ChunkSum(sdes) == SumOf(Map(SDESSource_NeededBytes, sdes))
BYESum(bye) == SumOf(Map(BYEBytes, bye))
APPSum(app) == SumOf(Map(APPBytes, app))
UnknownSum(unknown) == SumOf(Map(UnknownBytes, unknown))

\* The sizes in terms of the sums.
LEMMA Sums ==
  /\ \A p : OtherBytes(p) = BYESum(p.bye) + APPSum(p.app) + UnknownSum(p.unknown)
  /\ \A p : SDES_NeededBytes(p) = ChunkSum(p.sdes) + PacketsFor(Len(p.sdes)) * CommonHeader
  /\ \A p, len : SDES_NeededBytesWithExtraItem(p, len) =
       ChunkSum(Front(p.sdes)) + SDESSource_NeededBytesWithExtraItem(Last(p.sdes), len)
         + PacketsFor(Len(p.sdes)) * CommonHeader
  /\ \A p : SDES_NeededBytesWithExtraSource(p) =
       IF p.sdes = <<>> THEN 0
       ELSE ChunkSum(p.sdes) + 2 * Word + PacketsFor(Len(p.sdes) + 1) * CommonHeader
  /\ \A source : SDESSource_NeededBytes(source) = Aligned(ItemSum(source.items) + 1) + Word
  /\ \A source, len : SDESSource_NeededBytesWithExtraItem(source, len) =
       Aligned(ItemSum(source.items) + SDESHeader + len + 1) + Word
BY DEF OtherBytes, SDES_NeededBytes, SDES_NeededBytesWithExtraItem, ItemSum, ChunkSum, BYESum,
   APPSum, UnknownSum, SDES_NeededBytesWithExtraSource, SDESSource_NeededBytes,
   SDESSource_NeededBytesWithExtraItem

\* Nothing takes no packet.
LEMMA PacketsRules ==
  /\ \A n \in Nat : PacketsFor(n) \in Nat
  /\ PacketsFor(0) = 0
BY CompoundAssumption DEF PacketsFor

\* What is rounded up is a number.
LEMMA AlignedNat == \A n \in Nat : Aligned(n) \in Nat
BY DEF Aligned

\* The items of a source.
LEMMA ItemRules ==
  ASSUME NEW I
  PROVE  /\ ItemSum(<<>>) = 0
         /\ \A s \in Seq(ItemsOf(I)) : ItemSum(s) \in Nat
         /\ \A s \in Seq(ItemsOf(I)), x \in ItemsOf(I) :
              ItemSum(Append(s, x)) = ItemSum(s) + SDESHeader + x.len
<1> DEFINE m == [x \in ItemsOf(I) |-> ItemBytes(x)]
<1>1. m \in [ItemsOf(I) -> Nat] /\ \A x \in ItemsOf(I) : m[x] = SDESHeader + x.len /\ x.len \in Nat
  BY DEF ItemsOf, ItemBytes, SDESHeader
<1>2. ASSUME NEW s \in Seq(ItemsOf(I))
      PROVE  ItemSum(s) = Weight(m, s)
  <2>1. \A i \in DOMAIN s : s[i] \in ItemsOf(I)
    OBVIOUS
  <2>2. Map(ItemBytes, s) = [i \in DOMAIN s |-> m[s[i]]]
    BY <2>1 DEF Map
  <2> QED
    BY <2>2 DEF Weight, ItemSum
<1>3. <<>> \in Seq(ItemsOf(I)) /\ \A s \in Seq(ItemsOf(I)), x \in ItemsOf(I) : Append(s, x) \in Seq(ItemsOf(I))
  OBVIOUS
<1> HIDE DEF m
<1>4. /\ Weight(m, <<>>) = 0
      /\ \A s \in Seq(ItemsOf(I)) : Weight(m, s) \in Nat
      /\ \A s \in Seq(ItemsOf(I)), x \in ItemsOf(I) : Weight(m, Append(s, x)) = Weight(m, s) + m[x]
  BY <1>1, WeightRules
<1>5. SDESHeader \in Nat
  BY DEF SDESHeader
<1>6. ASSUME NEW s \in Seq(ItemsOf(I)), NEW x \in ItemsOf(I)
      PROVE  ItemSum(Append(s, x)) = ItemSum(s) + SDESHeader + x.len
  <2>1. Weight(m, Append(s, x)) = Weight(m, s) + (SDESHeader + x.len) /\ Weight(m, s) \in Nat /\ x.len \in Nat
    BY <1>1, <1>4
  <2>2. /\ ItemSum(Append(s, x)) = Weight(m, Append(s, x)) /\ ItemSum(s) = Weight(m, s)
    BY <1>2, <1>3
  <2> QED
    BY <2>1, <2>2, <1>5
<1> QED
  BY <1>2, <1>3, <1>4, <1>6

\* The chunks of a packet.
LEMMA ChunkRules ==
  ASSUME NEW S, NEW I
  PROVE  /\ ChunkSum(<<>>) = 0
         /\ \A s \in Seq(Chunks(S, I)) : ChunkSum(s) \in Nat
         /\ \A s \in Seq(Chunks(S, I)), x \in Chunks(S, I) :
              ChunkSum(Append(s, x))
                = ChunkSum(s) + SDESSource_NeededBytes(x)
         /\ \A x \in Chunks(S, I) : SDESSource_NeededBytes(x) \in Nat
<1> DEFINE m == [x \in Chunks(S, I) |-> SDESSource_NeededBytes(x)]
<1>1. ASSUME NEW x \in Chunks(S, I)
      PROVE  SDESSource_NeededBytes(x) \in Nat
  <2>1. x.items \in Seq(ItemsOf(I))
    BY DEF Chunks
  <2>2. ItemSum(x.items) \in Nat
    BY <2>1, ItemRules
  <2>3. SDESSource_NeededBytes(x) = Aligned(ItemSum(x.items) + 1) + Word
    BY Sums
  <2>4. Aligned(ItemSum(x.items) + 1) \in Nat
    BY <2>2, AlignedNat
  <2> QED
    BY <2>3, <2>4 DEF Word
<1>2. m \in [Chunks(S, I) -> Nat] /\ \A x \in Chunks(S, I) : m[x] = SDESSource_NeededBytes(x)
  BY <1>1
<1>3. ASSUME NEW s \in Seq(Chunks(S, I))
      PROVE  ChunkSum(s) = Weight(m, s)
  <2>1. \A i \in DOMAIN s : s[i] \in Chunks(S, I)
    OBVIOUS
  <2>2. Map(SDESSource_NeededBytes, s) = [i \in DOMAIN s |-> m[s[i]]]
    BY <2>1, <1>2 DEF Map
  <2> QED
    BY <2>2 DEF Weight, ChunkSum
<1>4. <<>> \in Seq(Chunks(S, I)) /\ \A s \in Seq(Chunks(S, I)), x \in Chunks(S, I) : Append(s, x) \in Seq(Chunks(S, I))
  OBVIOUS
<1> HIDE DEF m
<1>5. /\ Weight(m, <<>>) = 0
      /\ \A s \in Seq(Chunks(S, I)) : Weight(m, s) \in Nat
      /\ \A s \in Seq(Chunks(S, I)), x \in Chunks(S, I) : Weight(m, Append(s, x)) = Weight(m, s) + m[x]
  BY <1>2, WeightRules
<1> QED
  BY <1>1, <1>2, <1>3, <1>4, <1>5

\* The packets of other kinds.
LEMMA OtherRules ==
  /\ BYESum(<<>>) = 0 /\ APPSum(<<>>) = 0
  /\ UnknownSum(<<>>) = 0
  /\ \A s \in Seq(Nat) : APPSum(s) \in Nat /\ UnknownSum(s) \in Nat
  /\ \A s \in Seq(Leavings) : BYESum(s) \in Nat
  /\ \A s \in Seq(Nat), x \in Nat :
       /\ APPSum(Append(s, x)) = APPSum(s) + APPBytes(x)
       /\ UnknownSum(Append(s, x)) = UnknownSum(s) + UnknownBytes(x)
  /\ \A s \in Seq(Leavings), x \in Leavings :
       BYESum(Append(s, x)) = BYESum(s) + BYEBytes(x)
<1>1. /\ APPSum(<<>>) = 0
      /\ \A s \in Seq(Nat) : APPSum(s) \in Nat
      /\ \A s \in Seq(Nat), x \in Nat :
           APPSum(Append(s, x)) = APPSum(s) + APPBytes(x)
  <2> DEFINE m == [x \in Nat |-> APPBytes(x)]
  <2>1. m \in [Nat -> Nat] /\ \A x \in Nat : m[x] = APPBytes(x)
    BY DEF APPBytes, CommonHeader, Word
  <2>2. ASSUME NEW s \in Seq(Nat)
        PROVE  APPSum(s) = Weight(m, s)
    <3>1. \A i \in DOMAIN s : s[i] \in Nat
      OBVIOUS
    <3>2. Map(APPBytes, s) = [i \in DOMAIN s |-> m[s[i]]]
      BY <3>1, <2>1 DEF Map
    <3> QED
      BY <3>2 DEF Weight, APPSum
  <2>3. <<>> \in Seq(Nat) /\ \A s \in Seq(Nat), x \in Nat : Append(s, x) \in Seq(Nat)
    OBVIOUS
  <2> HIDE DEF m
  <2>4. /\ Weight(m, <<>>) = 0
        /\ \A s \in Seq(Nat) : Weight(m, s) \in Nat
        /\ \A s \in Seq(Nat), x \in Nat : Weight(m, Append(s, x)) = Weight(m, s) + m[x]
    BY <2>1, WeightRules
  <2> QED
    BY <2>1, <2>2, <2>3, <2>4
<1>2. /\ UnknownSum(<<>>) = 0
      /\ \A s \in Seq(Nat) : UnknownSum(s) \in Nat
      /\ \A s \in Seq(Nat), x \in Nat :
           UnknownSum(Append(s, x)) = UnknownSum(s) + UnknownBytes(x)
  <2> DEFINE m == [x \in Nat |-> UnknownBytes(x)]
  <2>1. m \in [Nat -> Nat] /\ \A x \in Nat : m[x] = UnknownBytes(x)
    BY DEF UnknownBytes, CommonHeader, Word
  <2>2. ASSUME NEW s \in Seq(Nat)
        PROVE  UnknownSum(s) = Weight(m, s)
    <3>1. \A i \in DOMAIN s : s[i] \in Nat
      OBVIOUS
    <3>2. Map(UnknownBytes, s) = [i \in DOMAIN s |-> m[s[i]]]
      BY <3>1, <2>1 DEF Map
    <3> QED
      BY <3>2 DEF Weight, UnknownSum
  <2>3. <<>> \in Seq(Nat) /\ \A s \in Seq(Nat), x \in Nat : Append(s, x) \in Seq(Nat)
    OBVIOUS
  <2> HIDE DEF m
  <2>4. /\ Weight(m, <<>>) = 0
        /\ \A s \in Seq(Nat) : Weight(m, s) \in Nat
        /\ \A s \in Seq(Nat), x \in Nat : Weight(m, Append(s, x)) = Weight(m, s) + m[x]
    BY <2>1, WeightRules
  <2> QED
    BY <2>1, <2>2, <2>3, <2>4
<1>3. /\ BYESum(<<>>) = 0
      /\ \A s \in Seq(Leavings) : BYESum(s) \in Nat
      /\ \A s \in Seq(Leavings), x \in Leavings :
           BYESum(Append(s, x)) = BYESum(s) + BYEBytes(x)
  <2> DEFINE m == [x \in Leavings |-> BYEBytes(x)]
  <2>1. m \in [Leavings -> Nat] /\ \A x \in Leavings : m[x] = BYEBytes(x)
    BY DEF Leavings, BYEBytes, CommonHeader, Word, Aligned
  <2>2. ASSUME NEW s \in Seq(Leavings)
        PROVE  BYESum(s) = Weight(m, s)
    <3>1. \A i \in DOMAIN s : s[i] \in Leavings
      OBVIOUS
    <3>2. Map(BYEBytes, s) = [i \in DOMAIN s |-> m[s[i]]]
      BY <3>1, <2>1 DEF Map
    <3> QED
      BY <3>2 DEF Weight, BYESum
  <2>3. <<>> \in Seq(Leavings) /\ \A s \in Seq(Leavings), x \in Leavings : Append(s, x) \in Seq(Leavings)
    OBVIOUS
  <2> HIDE DEF m
  <2>4. /\ Weight(m, <<>>) = 0
        /\ \A s \in Seq(Leavings) : Weight(m, s) \in Nat
        /\ \A s \in Seq(Leavings), x \in Leavings : Weight(m, Append(s, x)) = Weight(m, s) + m[x]
    BY <2>1, WeightRules
  <2> QED
    BY <2>1, <2>2, <2>3, <2>4
<1> QED
  BY <1>1, <1>2, <1>3

\* The reports.
LEMMA ReportRules ==
  /\ ReportHeader("SR") = 28 /\ ReportHeader("RR") = 8
  /\ \A kind \in {"none", "SR", "RR"}, n \in Nat : ReportNeeds(kind, n) \in Nat
  /\ ReportNeeds("none", 0) = 0
  /\ \A kind \in {"SR", "RR"} : ReportNeeds(kind, 0) = ReportHeader(kind)
<1>1. ReportHeader("SR") = 28 /\ ReportHeader("RR") = 8
  BY DEF ReportHeader, CommonHeader, Word, SenderReport
<1>2. ReportNeeds("none", 0) = 0
  BY DEF ReportNeeds
<1>3. \A kind \in {"SR", "RR"} : ReportNeeds(kind, 0) = ReportHeader(kind)
  BY DEF ReportNeeds
<1>4. ASSUME NEW kind \in {"none", "SR", "RR"}, NEW n \in Nat, n # 0
      PROVE  ReportNeeds(kind, n) \in Nat
  <2>1. ReportNeeds(kind, n) =
          n * ReportBlock + PacketsFor(n) * 8 + (IF kind = "SR" THEN 20 ELSE 0)
    BY <1>1, <1>4 DEF ReportNeeds, SenderReport
  <2>2. PacketsFor(n) \in Nat
    BY PacketsRules
  <2> QED
    BY <2>1, <2>2 DEF ReportBlock
<1> QED
  BY <1>1, <1>2, <1>3, <1>4

\* The parts of a pack have sizes.
LEMMA PartsNat ==
  ASSUME NEW S, NEW I, NEW p \in Packs(S, I)
  PROVE  /\ OtherBytes(p) \in Nat /\ Report_NeededBytes(p) \in Nat
         /\ SDES_NeededBytes(p) \in Nat /\ TotalBytes(p) \in Nat /\ p.max \in Nat
<1>1. /\ p.bye \in Seq(Leavings) /\ p.app \in Seq(Nat) /\ p.unknown \in Seq(Nat)
      /\ p.sdes \in Seq(Chunks(S, I)) /\ Len(p.sdes) \in Nat /\ Len(p.blocks) \in Nat
      /\ p.report \in {"none", "SR", "RR"} /\ p.max \in Nat
  BY DEF Packs
<1>2. OtherBytes(p) \in Nat
  <2>1. BYESum(p.bye) \in Nat /\ APPSum(p.app) \in Nat /\ UnknownSum(p.unknown) \in Nat
    BY <1>1, OtherRules
  <2>2. OtherBytes(p) = BYESum(p.bye) + APPSum(p.app) + UnknownSum(p.unknown)
    BY Sums
  <2> QED
    BY <2>1, <2>2
<1>3. Report_NeededBytes(p) \in Nat
  BY <1>1, ReportRules DEF Report_NeededBytes
<1>4. SDES_NeededBytes(p) \in Nat
  <2>1. ChunkSum(p.sdes) \in Nat /\ PacketsFor(Len(p.sdes)) \in Nat
    BY <1>1, ChunkRules, PacketsRules
  <2>2. SDES_NeededBytes(p) = ChunkSum(p.sdes) + PacketsFor(Len(p.sdes)) * CommonHeader
    BY Sums
  <2> QED
    BY <2>1, <2>2 DEF CommonHeader
<1> QED
  BY <1>1, <1>2, <1>3, <1>4 DEF TotalBytes

\* An item more for the last source.
Longer(s, x) == [s[Len(s)] EXCEPT !.items = Append(@, x)]
WithLonger(s, x) == [s EXCEPT ![Len(s)].items = Append(@, x)]

\* The last chunk grows, and the others stay.
LEMMA LastItem ==
  ASSUME NEW S, NEW I, NEW s \in Seq(Chunks(S, I)), s # <<>>, NEW x \in ItemsOf(I)
  PROVE  LET new == Longer(s, x)
             t == WithLonger(s, x)
         IN  /\ Front(s) \in Seq(Chunks(S, I)) /\ Last(s) \in Chunks(S, I)
             /\ new \in Chunks(S, I) /\ t \in Seq(Chunks(S, I)) /\ Len(t) = Len(s)
             /\ s = Append(Front(s), Last(s)) /\ t = Append(Front(s), new)
             /\ SDESSource_NeededBytes(new) = SDESSource_NeededBytesWithExtraItem(Last(s), x.len)
<1> DEFINE n == Len(s)
           new == [s[n] EXCEPT !.items = Append(@, x)]
           t == [s EXCEPT ![n].items = Append(@, x)]
           f == Front(s)
<1>1. n \in Nat /\ n >= 1 /\ DOMAIN s = 1..n /\ \A i \in 1..n : s[i] \in Chunks(S, I)
  OBVIOUS
<1>2. n \in 1..n /\ n - 1 \in Nat /\ n - 1 + 1 = n
  BY <1>1
<1>3. /\ s[n] \in Chunks(S, I) /\ s[n].items \in Seq(ItemsOf(I)) /\ s[n].ssrc \in S
      /\ Last(s) = s[n]
  <2>1. s[n] \in Chunks(S, I)
    BY <1>1, <1>2
  <2>2. Last(s) = s[n]
    BY DEF Last
  <2> QED
    BY <2>1, <2>2 DEF Chunks
<1>4. new \in Chunks(S, I) /\ new.items = Append(s[n].items, x)
  <2> DEFINE c == s[n]
  <2>1. c \in [ssrc : S, items : Seq(ItemsOf(I))] /\ Append(c.items, x) \in Seq(ItemsOf(I))
    BY <1>3 DEF Chunks
  <2>2. new = [c EXCEPT !.items = Append(c.items, x)]
    OBVIOUS
  <2> HIDE DEF c, new
  <2>3. new \in Chunks(S, I) /\ new.items = Append(c.items, x)
    BY <2>1, <2>2 DEF Chunks
  <2> QED
    BY <2>3 DEF c
<1>5. f \in Seq(Chunks(S, I)) /\ Len(f) = n - 1 /\ \A i \in 1..(n - 1) : f[i] = s[i]
  BY <1>1, <1>2 DEF Front
<1>6. t = [s EXCEPT ![n] = new]
  OBVIOUS
<1>7. /\ t \in Seq(Chunks(S, I)) /\ Len(t) = n /\ t[n] = new
      /\ \A i \in 1..(n - 1) : t[i] = s[i]
  BY <1>1, <1>2, <1>4, <1>6, ExceptSeq
<1> HIDE DEF n, new, t, f
<1>8. /\ Append(f, s[n]) \in Seq(Chunks(S, I)) /\ Len(Append(f, s[n])) = n
      /\ Append(f, s[n])[n] = s[n] /\ \A i \in 1..(n - 1) : Append(f, s[n])[i] = s[i]
  BY <1>2, <1>3, <1>5, AppendProperties
<1>9. /\ Append(f, new) \in Seq(Chunks(S, I)) /\ Len(Append(f, new)) = n
      /\ Append(f, new)[n] = new /\ \A i \in 1..(n - 1) : Append(f, new)[i] = s[i]
  BY <1>2, <1>4, <1>5, AppendProperties
<1>10. \A i \in 1..n : i = n \/ i \in 1..(n - 1)
  BY <1>1
<1>11. s = Append(f, s[n])
  <2>1. \A i \in 1..n : s[i] = Append(f, s[n])[i]
    BY <1>8, <1>10
  <2>2. s \in Seq(Chunks(S, I)) /\ Len(s) = n
    BY DEF n
  <2> QED
    BY <1>8, <2>1, <2>2, SeqEqual
<1>12. t = Append(f, new)
  <2>1. \A i \in 1..n : t[i] = Append(f, new)[i]
    BY <1>7, <1>9, <1>10
  <2> QED
    BY <1>7, <1>9, <2>1, SeqEqual
<1>13. SDESSource_NeededBytes(new) = SDESSource_NeededBytesWithExtraItem(s[n], x.len)
  BY <1>3, <1>4, ItemRules, Sums
<1> QED
  BY <1>3, <1>4, <1>5, <1>7, <1>11, <1>12, <1>13 DEF n, new, t, f, Longer, WithLonger

\* One part of a pack is changed.
LEMMA ChangedReport ==
  ASSUME NEW S, NEW I, NEW p \in Packs(S, I), NEW x \in {"none", "SR", "RR"}, NEW q,
         q = [p EXCEPT !.report = x]
  PROVE  /\ q \in Packs(S, I) /\ q.report = x /\ q.max = p.max /\ q.blocks = p.blocks
         /\ q.sdes = p.sdes /\ q.app = p.app /\ q.unknown = p.unknown /\ q.bye = p.bye
BY DEF Packs

\* Likewise.
LEMMA ChangedBlocks ==
  ASSUME NEW S, NEW I, NEW p \in Packs(S, I), NEW x \in Seq(S), NEW q,
         q = [p EXCEPT !.blocks = x]
  PROVE  /\ q \in Packs(S, I) /\ q.blocks = x /\ q.max = p.max /\ q.report = p.report
         /\ q.sdes = p.sdes /\ q.app = p.app /\ q.unknown = p.unknown /\ q.bye = p.bye
BY DEF Packs

\* Likewise.
LEMMA ChangedSDES ==
  ASSUME NEW S, NEW I, NEW p \in Packs(S, I), NEW x \in Seq(Chunks(S, I)), NEW q,
         q = [p EXCEPT !.sdes = x]
  PROVE  /\ q \in Packs(S, I) /\ q.sdes = x /\ q.max = p.max /\ q.report = p.report
         /\ q.blocks = p.blocks /\ q.app = p.app /\ q.unknown = p.unknown /\ q.bye = p.bye
BY DEF Packs

\* Likewise.
LEMMA ChangedAPP ==
  ASSUME NEW S, NEW I, NEW p \in Packs(S, I), NEW x \in Seq(Nat), NEW q,
         q = [p EXCEPT !.app = x]
  PROVE  /\ q \in Packs(S, I) /\ q.app = x /\ q.max = p.max /\ q.report = p.report
         /\ q.blocks = p.blocks /\ q.sdes = p.sdes /\ q.unknown = p.unknown /\ q.bye = p.bye
BY DEF Packs

\* Likewise.
LEMMA ChangedUnknown ==
  ASSUME NEW S, NEW I, NEW p \in Packs(S, I), NEW x \in Seq(Nat), NEW q,
         q = [p EXCEPT !.unknown = x]
  PROVE  /\ q \in Packs(S, I) /\ q.unknown = x /\ q.max = p.max /\ q.report = p.report
         /\ q.blocks = p.blocks /\ q.sdes = p.sdes /\ q.app = p.app /\ q.bye = p.bye
BY DEF Packs

\* Likewise.
LEMMA ChangedBYE ==
  ASSUME NEW S, NEW I, NEW p \in Packs(S, I), NEW x \in Seq(Leavings), NEW q,
         q = [p EXCEPT !.bye = x]
  PROVE  /\ q \in Packs(S, I) /\ q.bye = x /\ q.max = p.max /\ q.report = p.report
         /\ q.blocks = p.blocks /\ q.sdes = p.sdes /\ q.app = p.app /\ q.unknown = p.unknown
BY DEF Packs

\* What a part adds to the bytes that a pack needs.
LEMMA AddOther ==
  ASSUME NEW S, NEW I, NEW p \in Packs(S, I)
  PROVE  /\ \A x \in Leavings : LET q == [p EXCEPT !.bye = Append(@, x)] IN
              /\ q \in Packs(S, I) /\ q.max = p.max /\ q.report = p.report
              /\ q.blocks = p.blocks /\ TotalBytes(q) = TotalBytes(p) + BYEBytes(x)
         /\ \A x \in Nat : LET q == [p EXCEPT !.app = Append(@, x)] IN
              /\ q \in Packs(S, I) /\ q.max = p.max /\ q.report = p.report
              /\ q.blocks = p.blocks /\ TotalBytes(q) = TotalBytes(p) + APPBytes(x)
         /\ \A x \in Nat : LET q == [p EXCEPT !.unknown = Append(@, x)] IN
              /\ q \in Packs(S, I) /\ q.max = p.max /\ q.report = p.report
              /\ q.blocks = p.blocks /\ TotalBytes(q) = TotalBytes(p) + UnknownBytes(x)
<1>1. /\ p.bye \in Seq(Leavings) /\ p.app \in Seq(Nat) /\ p.unknown \in Seq(Nat)
  BY DEF Packs
<1>2. /\ OtherBytes(p) = BYESum(p.bye) + APPSum(p.app) + UnknownSum(p.unknown)
      /\ BYESum(p.bye) \in Nat /\ APPSum(p.app) \in Nat /\ UnknownSum(p.unknown) \in Nat
      /\ Report_NeededBytes(p) \in Nat /\ SDES_NeededBytes(p) \in Nat
      /\ TotalBytes(p) = OtherBytes(p) + Report_NeededBytes(p) + SDES_NeededBytes(p)
  BY <1>1, OtherRules, Sums, PartsNat DEF TotalBytes
<1>3. ASSUME NEW q, q.report = p.report, q.blocks = p.blocks, q.sdes = p.sdes
      PROVE  /\ TotalBytes(q) = BYESum(q.bye) + APPSum(q.app) + UnknownSum(q.unknown)
                                   + Report_NeededBytes(p) + SDES_NeededBytes(p)
  <2>1. Report_NeededBytes(q) = Report_NeededBytes(p)
    BY <1>3 DEF Report_NeededBytes
  <2>2. SDES_NeededBytes(q) = SDES_NeededBytes(p)
    BY <1>3 DEF SDES_NeededBytes
  <2> QED
    BY <2>1, <2>2, Sums DEF TotalBytes
<1>4. /\ \A x \in Leavings : BYEBytes(x) \in Nat
      /\ \A x \in Nat : APPBytes(x) \in Nat /\ UnknownBytes(x) \in Nat
  BY DEF Leavings, BYEBytes, APPBytes, UnknownBytes, CommonHeader, Word, Aligned
<1>5. ASSUME NEW x \in Leavings
      PROVE  LET q == [p EXCEPT !.bye = Append(@, x)] IN
             /\ q \in Packs(S, I) /\ q.max = p.max /\ q.report = p.report
              /\ q.blocks = p.blocks /\ TotalBytes(q) = TotalBytes(p) + BYEBytes(x)
  <2> DEFINE y == Append(p.bye, x)
             q == [p EXCEPT !.bye = Append(@, x)]
  <2>0. y \in Seq(Leavings) /\ q = [p EXCEPT !.bye = y]
    BY <1>1
  <2> HIDE DEF y, q
  <2>1. /\ q \in Packs(S, I) /\ q.max = p.max /\ q.report = p.report /\ q.blocks = p.blocks
        /\ q.sdes = p.sdes /\ q.app = p.app /\ q.unknown = p.unknown
        /\ q.bye = y
    BY <2>0, ChangedBYE
  <2> USE DEF y
  <2>2. BYESum(q.bye) = BYESum(p.bye) + BYEBytes(x)
    BY <1>1, <2>1, OtherRules
  <2>3. TotalBytes(q) = BYESum(q.bye) + APPSum(p.app) + UnknownSum(p.unknown)
                                   + Report_NeededBytes(p) + SDES_NeededBytes(p)
    BY <1>3, <2>1
  <2>4. TotalBytes(q) = TotalBytes(p) + BYEBytes(x)
    BY <2>2, <2>3, <1>2, <1>4
  <2> QED
    BY <2>1, <2>4 DEF q
<1>6. ASSUME NEW x \in Nat
      PROVE  LET q == [p EXCEPT !.app = Append(@, x)] IN
             /\ q \in Packs(S, I) /\ q.max = p.max /\ q.report = p.report
              /\ q.blocks = p.blocks /\ TotalBytes(q) = TotalBytes(p) + APPBytes(x)
  <2> DEFINE y == Append(p.app, x)
             q == [p EXCEPT !.app = Append(@, x)]
  <2>0. y \in Seq(Nat) /\ q = [p EXCEPT !.app = y]
    BY <1>1
  <2> HIDE DEF y, q
  <2>1. /\ q \in Packs(S, I) /\ q.max = p.max /\ q.report = p.report /\ q.blocks = p.blocks
        /\ q.sdes = p.sdes /\ q.bye = p.bye /\ q.unknown = p.unknown
        /\ q.app = y
    BY <2>0, ChangedAPP
  <2> USE DEF y
  <2>2. APPSum(q.app) = APPSum(p.app) + APPBytes(x)
    BY <1>1, <2>1, OtherRules
  <2>3. TotalBytes(q) = BYESum(p.bye) + APPSum(q.app) + UnknownSum(p.unknown)
                                   + Report_NeededBytes(p) + SDES_NeededBytes(p)
    BY <1>3, <2>1
  <2>4. TotalBytes(q) = TotalBytes(p) + APPBytes(x)
    BY <2>2, <2>3, <1>2, <1>4
  <2> QED
    BY <2>1, <2>4 DEF q
<1>7. ASSUME NEW x \in Nat
      PROVE  LET q == [p EXCEPT !.unknown = Append(@, x)] IN
             /\ q \in Packs(S, I) /\ q.max = p.max /\ q.report = p.report
              /\ q.blocks = p.blocks /\ TotalBytes(q) = TotalBytes(p) + UnknownBytes(x)
  <2> DEFINE y == Append(p.unknown, x)
             q == [p EXCEPT !.unknown = Append(@, x)]
  <2>0. y \in Seq(Nat) /\ q = [p EXCEPT !.unknown = y]
    BY <1>1
  <2> HIDE DEF y, q
  <2>1. /\ q \in Packs(S, I) /\ q.max = p.max /\ q.report = p.report /\ q.blocks = p.blocks
        /\ q.sdes = p.sdes /\ q.bye = p.bye /\ q.app = p.app
        /\ q.unknown = y
    BY <2>0, ChangedUnknown
  <2> USE DEF y
  <2>2. UnknownSum(q.unknown) = UnknownSum(p.unknown) + UnknownBytes(x)
    BY <1>1, <2>1, OtherRules
  <2>3. TotalBytes(q) = BYESum(p.bye) + APPSum(p.app) + UnknownSum(q.unknown)
                                   + Report_NeededBytes(p) + SDES_NeededBytes(p)
    BY <1>3, <2>1
  <2>4. TotalBytes(q) = TotalBytes(p) + UnknownBytes(x)
    BY <2>2, <2>3, <1>2, <1>4
  <2> QED
    BY <2>1, <2>4 DEF q
<1> QED
  BY <1>5, <1>6, <1>7

\* A report that fits keeps the maximum, unless more was in use before.
LEMMA AddReport ==
  ASSUME NEW S, NEW I, NEW p \in Packs(S, I), p.report = "none", NEW kind \in {"SR", "RR"},
         p.blocks = <<>>, ReportFits(p, kind)
  PROVE  LET q == WithReport(p, kind) IN
         /\ q \in Packs(S, I) /\ q.max = p.max /\ q.report = kind
         /\ TotalBytes(p) <= p.max => TotalBytes(q) <= q.max
<1> DEFINE q == WithReport(p, kind)
<1>1. /\ q \in Packs(S, I) /\ q.max = p.max /\ q.report = kind /\ q.blocks = <<>>
      /\ q.sdes = p.sdes /\ q.bye = p.bye /\ q.app = p.app /\ q.unknown = p.unknown
  BY DEF Packs, WithReport
<1> HIDE DEF q
<1>2. /\ OtherBytes(q) = OtherBytes(p) /\ SDES_NeededBytes(q) = SDES_NeededBytes(p)
  BY <1>1 DEF OtherBytes, SDES_NeededBytes
<1>3. Report_NeededBytes(q) = ReportHeader(kind) /\ Report_NeededBytes(p) = 0
  <2>1. Len(<<>>) = 0
    OBVIOUS
  <2> QED
    BY <2>1, <1>1, ReportRules DEF Report_NeededBytes
<1>4. /\ OtherBytes(p) \in Nat /\ SDES_NeededBytes(p) \in Nat /\ p.max \in Nat
      /\ ReportHeader(kind) \in Nat
  BY PartsNat, ReportRules
<1>5. ASSUME TotalBytes(p) <= p.max
      PROVE  OtherBytes(p) + SDES_NeededBytes(p) + ReportHeader(kind) <= p.max
  BY <1>3, <1>4, <1>5 DEF ReportFits, TotalBytes
<1>6. TotalBytes(p) <= p.max => TotalBytes(q) <= q.max
  BY <1>1, <1>2, <1>3, <1>4, <1>5 DEF TotalBytes
<1> QED
  BY <1>1, <1>6 DEF q

\* A block that fits keeps the maximum.
LEMMA AddBlock ==
  ASSUME NEW S, NEW I, NEW p \in Packs(S, I), NEW ssrc \in S, BlockFits(p)
  PROVE  LET q == WithBlock(p, ssrc) IN
         /\ q \in Packs(S, I) /\ q.max = p.max /\ q.report = p.report
         /\ q.sdes = p.sdes /\ q.blocks = Append(p.blocks, ssrc) /\ TotalBytes(q) <= q.max
<1> DEFINE q == WithBlock(p, ssrc)
<1>1. p.blocks \in Seq(S)
  BY DEF Packs
<1>2. /\ q \in Packs(S, I) /\ q.max = p.max /\ q.report = p.report
      /\ q.blocks = Append(p.blocks, ssrc)
      /\ q.sdes = p.sdes /\ q.bye = p.bye /\ q.app = p.app /\ q.unknown = p.unknown
  <2> DEFINE y == Append(p.blocks, ssrc)
  <2>1. y \in Seq(S) /\ q = [p EXCEPT !.blocks = y]
    BY <1>1 DEF WithBlock
  <2> HIDE DEF y, q
  <2>2. /\ q \in Packs(S, I) /\ q.max = p.max /\ q.report = p.report /\ q.blocks = y
        /\ q.sdes = p.sdes /\ q.bye = p.bye /\ q.app = p.app /\ q.unknown = p.unknown
    BY <2>1, ChangedBlocks
  <2> QED
    BY <2>2 DEF y
<1> HIDE DEF q
<1>3. /\ OtherBytes(q) = OtherBytes(p) /\ SDES_NeededBytes(q) = SDES_NeededBytes(p)
  BY <1>2 DEF OtherBytes, SDES_NeededBytes
<1>4. Report_NeededBytes(q) = Report_NeededBytesWithExtraReportBlock(p)
  <2>1. Len(q.blocks) = Len(p.blocks) + 1
    BY <1>1, <1>2
  <2> QED
    BY <2>1, <1>2 DEF Report_NeededBytes, Report_NeededBytesWithExtraReportBlock
<1>5. /\ OtherBytes(q) \in Nat /\ SDES_NeededBytes(q) \in Nat /\ Report_NeededBytes(q) \in Nat
  BY <1>2, PartsNat
<1>6. TotalBytes(q) <= q.max
  BY <1>2, <1>3, <1>4, <1>5 DEF TotalBytes, BlockFits
<1> QED
  BY <1>2, <1>6 DEF q

\* Only the first source may be too much.
LEMMA AddSource ==
  ASSUME NEW S, NEW I, NEW p \in Packs(S, I), NEW ssrc \in S, SourceFits(p)
  PROVE  LET q == WithSource(p, ssrc) IN
         /\ q \in Packs(S, I) /\ q.max = p.max /\ q.report = p.report /\ q.blocks = p.blocks
         /\ p.sdes # <<>> => TotalBytes(q) <= q.max
<1> DEFINE q == WithSource(p, ssrc)
           x == [ssrc |-> ssrc, items |-> <<>>]
<1>1. p.sdes \in Seq(Chunks(S, I)) /\ x \in Chunks(S, I)
  BY DEF Packs, Chunks
<1>2. /\ q \in Packs(S, I) /\ q.max = p.max /\ q.report = p.report
      /\ q.blocks = p.blocks /\ q.sdes = Append(p.sdes, x)
      /\ q.bye = p.bye /\ q.app = p.app /\ q.unknown = p.unknown
  <2> DEFINE y == Append(p.sdes, x)
  <2> HIDE DEF x
  <2>1. y \in Seq(Chunks(S, I)) /\ q = [p EXCEPT !.sdes = y]
    BY <1>1 DEF WithSource, x
  <2> HIDE DEF y, q
  <2>2. /\ q \in Packs(S, I) /\ q.max = p.max /\ q.report = p.report /\ q.sdes = y
        /\ q.blocks = p.blocks /\ q.bye = p.bye /\ q.app = p.app /\ q.unknown = p.unknown
    BY <2>1, ChangedSDES
  <2> QED
    BY <2>2 DEF y
<1>3. SDESSource_NeededBytes(x) = 8
  <2>1. SDESSource_NeededBytes(x) = Aligned(ItemSum(x.items) + 1) + Word
    BY Sums
  <2>2. ItemSum(x.items) = 0
    BY ItemRules
  <2> HIDE DEF x
  <2> QED
    BY <2>1, <2>2 DEF Aligned, Word
<1> HIDE DEF q, x
<1>4. /\ OtherBytes(q) = OtherBytes(p) /\ Report_NeededBytes(q) = Report_NeededBytes(p)
  BY <1>2 DEF OtherBytes, Report_NeededBytes
<1>5. ASSUME p.sdes # <<>>
      PROVE  TotalBytes(q) <= q.max
  <2>1. /\ ChunkSum(q.sdes) = ChunkSum(p.sdes) + 8 /\ Len(q.sdes) = Len(p.sdes) + 1
        /\ ChunkSum(p.sdes) \in Nat
    BY <1>1, <1>2, <1>3, ChunkRules
  <2>2. /\ SDES_NeededBytes(q) = ChunkSum(q.sdes) + PacketsFor(Len(q.sdes)) * CommonHeader
        /\ SDES_NeededBytesWithExtraSource(p) =
             ChunkSum(p.sdes) + 2 * Word + PacketsFor(Len(p.sdes) + 1) * CommonHeader
    BY <1>5, Sums
  <2>3. Len(q.sdes) \in Nat /\ PacketsFor(Len(q.sdes)) \in Nat
    <3>1. Len(q.sdes) \in Nat
      BY <1>1, <1>2
    <3> QED
      BY <3>1, PacketsRules
  <2>4. SDES_NeededBytes(q) = SDES_NeededBytesWithExtraSource(p)
    BY <2>1, <2>2, <2>3 DEF Word, CommonHeader
  <2>5. /\ OtherBytes(q) \in Nat /\ SDES_NeededBytes(q) \in Nat /\ Report_NeededBytes(q) \in Nat
    BY <1>2, PartsNat
  <2> QED
    BY <1>2, <1>4, <2>4, <2>5 DEF TotalBytes, SourceFits
<1> QED
  BY <1>2, <1>5 DEF q

\* An item more.
LEMMA AddItem ==
  ASSUME NEW S, NEW I, NEW p \in Packs(S, I), p.sdes # <<>>, NEW x \in ItemsOf(I)
  PROVE  LET q == WithItem(p, x) IN
         /\ q \in Packs(S, I) /\ q.max = p.max /\ q.report = p.report /\ q.blocks = p.blocks
         /\ TotalBytes(q) = OtherBytes(p) + Report_NeededBytes(p)
                              + SDES_NeededBytesWithExtraItem(p, x.len)
<1> DEFINE q == WithItem(p, x)
           new == Longer(p.sdes, x)
           t == WithLonger(p.sdes, x)
<1>1. p.sdes \in Seq(Chunks(S, I))
  BY DEF Packs
<1>2. /\ Front(p.sdes) \in Seq(Chunks(S, I)) /\ new \in Chunks(S, I)
      /\ t \in Seq(Chunks(S, I)) /\ Len(t) = Len(p.sdes) /\ t = Append(Front(p.sdes), new)
      /\ SDESSource_NeededBytes(new) = SDESSource_NeededBytesWithExtraItem(Last(p.sdes), x.len)
  BY <1>1, LastItem
<1>3. q = [p EXCEPT !.sdes = t]
  BY DEF WithItem, WithLonger
<1> HIDE DEF new, t, q
<1>4. /\ q \in Packs(S, I) /\ q.max = p.max /\ q.report = p.report
      /\ q.blocks = p.blocks /\ q.sdes = t
      /\ q.bye = p.bye /\ q.app = p.app /\ q.unknown = p.unknown
  <2>1. t \in Seq(Chunks(S, I)) /\ q = [p EXCEPT !.sdes = t]
    BY <1>2, <1>3
  <2> QED
    BY <2>1, ChangedSDES
<1>5. /\ OtherBytes(q) = OtherBytes(p) /\ Report_NeededBytes(q) = Report_NeededBytes(p)
  BY <1>4 DEF OtherBytes, Report_NeededBytes
<1>6. SDES_NeededBytes(q) = SDES_NeededBytesWithExtraItem(p, x.len)
  <2>1. ChunkSum(q.sdes) = ChunkSum(Front(p.sdes)) + SDESSource_NeededBytes(new)
    BY <1>2, <1>4, ChunkRules
  <2>2. SDES_NeededBytes(q) = ChunkSum(q.sdes) + PacketsFor(Len(q.sdes)) * CommonHeader
    BY Sums
  <2>3. SDES_NeededBytesWithExtraItem(p, x.len) =
          ChunkSum(Front(p.sdes)) + SDESSource_NeededBytesWithExtraItem(Last(p.sdes), x.len)
            + PacketsFor(Len(p.sdes)) * CommonHeader
    BY Sums
  <2> QED
    BY <2>1, <2>2, <2>3, <1>2, <1>4
<1> QED
  BY <1>4, <1>5, <1>6 DEF TotalBytes, q

-----------------------------------------------------------------------------
(* The maximum size: RTCPCompoundPacketBuilder                              *)

\* The pack with nothing in it.
LEMMA EmptyRules ==
  ASSUME NEW S, NEW I, NEW max \in Nat
  PROVE  /\ EmptyPack(max) \in Packs(S, I) /\ TotalBytes(EmptyPack(max)) = 0
         /\ EmptyPack(max).max = max /\ EmptyPack(max).report = "none"
         /\ EmptyPack(max).blocks = <<>> /\ EmptyPack(max).sdes = <<>>
         /\ OtherBytes(EmptyPack(max)) = 0
<1> DEFINE p == EmptyPack(max)
<1>1. /\ p \in Packs(S, I) /\ p.max = max /\ p.report = "none" /\ p.blocks = <<>>
      /\ p.sdes = <<>> /\ p.bye = <<>> /\ p.app = <<>> /\ p.unknown = <<>>
  BY DEF EmptyPack, Packs
<1> HIDE DEF p
<1>2. OtherBytes(p) = 0
  <2>1. OtherBytes(p) = BYESum(p.bye) + APPSum(p.app) + UnknownSum(p.unknown)
    BY Sums
  <2> QED
    BY <1>1, <2>1, OtherRules
<1>3. Report_NeededBytes(p) = 0
  <2>1. Len(<<>>) = 0
    OBVIOUS
  <2> QED
    BY <1>1, <2>1, ReportRules DEF Report_NeededBytes
<1>4. SDES_NeededBytes(p) = 0
  <2>1. SDES_NeededBytes(p) = ChunkSum(p.sdes) + PacketsFor(Len(p.sdes)) * CommonHeader
    BY Sums
  <2>2. Len(<<>>) = 0
    OBVIOUS
  <2>3. ChunkSum(<<>>) = 0
    BY ChunkRules
  <2> QED
    BY <1>1, <2>1, <2>2, <2>3, PacketsRules DEF CommonHeader
<1> QED
  BY <1>1, <1>2, <1>3, <1>4 DEF TotalBytes, p

CompoundPacks == Packs(Sources, {"normal", "private"})

\* What is collected fits, and so does what was built.
SizeInv ==
  /\ arebuilding \in BOOLEAN /\ overdrawn \in BOOLEAN
  /\ pack \in CompoundPacks /\ built \in CompoundPacks
  /\ pack.report = "none" => pack.blocks = <<>>
  /\ ~overdrawn => TotalBytes(pack) <= pack.max
  /\ ~overdrawn /\ compound # <<>> => TotalBytes(built) <= pack.max
  /\ arebuilding => compound = <<>>

\* A call that adds something.
LEMMA AddsSafe ==
  ASSUME SizeInv, NEW new \in CompoundPacks, Adds(new), overdrawn' \in BOOLEAN,
         overdrawn => overdrawn',
         new.max = pack.max, ~overdrawn' => TotalBytes(new) <= new.max,
         new.report = "none" => new.blocks = <<>>
  PROVE  SizeInv'
<1>1. arebuilding /\ pack' = new /\ arebuilding' = arebuilding /\ compound' = compound
      /\ built' = built
  BY DEF Adds
<1>2. pack'.max = pack.max /\ (~overdrawn' => TotalBytes(pack') <= pack'.max)
  BY <1>1
<1>3. TotalBytes(pack)' = TotalBytes(pack') /\ TotalBytes(built)' = TotalBytes(built')
  BY DEF TotalBytes
<1> QED
  BY <1>1, <1>2 DEF SizeInv

\* Every call keeps the size.
LEMMA SizeStep ==
  ASSUME SizeInv, [CompoundNext]_compoundvars
  PROVE  SizeInv'
<1> USE LengthAssumption
<1> DEFINE I == {"normal", "private"}
<1>0. /\ pack \in Packs(Sources, I) /\ built \in Packs(Sources, I)
      /\ TotalBytes(pack) \in Nat /\ pack.max \in Nat
  BY PartsNat DEF SizeInv, CompoundPacks
<1>1. ASSUME NEW max \in Maximums, NEW isexternal \in BOOLEAN, InitBuildWith(max, isexternal)
      PROVE  SizeInv'
  <2>1. /\ pack' = EmptyPack(max) /\ max \in Nat /\ arebuilding' = TRUE
        /\ compound' = <<>> /\ built' = built /\ overdrawn' = overdrawn
    BY <1>1 DEF InitBuildWith
  <2>2. /\ pack' \in Packs(Sources, I) /\ TotalBytes(pack') = 0 /\ pack'.max = max
        /\ pack'.blocks = <<>>
    BY <2>1, EmptyRules
  <2>3. ~overdrawn' => TotalBytes(pack') <= pack'.max
    BY <2>1, <2>2
  <2> QED
    BY <2>1, <2>2, <2>3 DEF SizeInv, CompoundPacks
<1>2. CASE StartSenderReport
  <2> DEFINE q == WithReport(pack, "SR")
  <2>1. pack.report = "none" /\ ReportFits(pack, "SR") /\ Adds(q) /\ overdrawn' = overdrawn
    BY <1>2 DEF StartSenderReport
  <2>2. pack.blocks = <<>>
    BY <2>1 DEF SizeInv
  <2>3. /\ q \in Packs(Sources, I) /\ q.max = pack.max /\ q.report = "SR"
        /\ TotalBytes(pack) <= pack.max => TotalBytes(q) <= q.max
    BY <1>0, <2>1, <2>2, AddReport
  <2> HIDE DEF q
  <2>4. ~overdrawn' => TotalBytes(q) <= q.max
    BY <2>1, <2>3 DEF SizeInv
  <2> QED
    BY <2>1, <2>3, <2>4, AddsSafe DEF SizeInv, CompoundPacks
<1>3. CASE StartReceiverReport
  <2> DEFINE q == WithReport(pack, "RR")
  <2>1. pack.report = "none" /\ ReportFits(pack, "RR") /\ Adds(q) /\ overdrawn' = overdrawn
    BY <1>3 DEF StartReceiverReport
  <2>2. pack.blocks = <<>>
    BY <2>1 DEF SizeInv
  <2>3. /\ q \in Packs(Sources, I) /\ q.max = pack.max /\ q.report = "RR"
        /\ TotalBytes(pack) <= pack.max => TotalBytes(q) <= q.max
    BY <1>0, <2>1, <2>2, AddReport
  <2> HIDE DEF q
  <2>4. ~overdrawn' => TotalBytes(q) <= q.max
    BY <2>1, <2>3 DEF SizeInv
  <2> QED
    BY <2>1, <2>3, <2>4, AddsSafe DEF SizeInv, CompoundPacks
<1>4. ASSUME NEW ssrc \in Sources, AddReportBlock(ssrc)
      PROVE  SizeInv'
  <2> DEFINE q == WithBlock(pack, ssrc)
  <2>1. pack.report # "none" /\ BlockFits(pack) /\ Adds(q) /\ overdrawn' = overdrawn
    BY <1>4 DEF AddReportBlock
  <2>2. /\ q \in Packs(Sources, I) /\ q.max = pack.max /\ q.report = pack.report
        /\ TotalBytes(q) <= q.max
    BY <1>0, <2>1, AddBlock
  <2> HIDE DEF q
  <2> QED
    BY <2>1, <2>2, AddsSafe DEF SizeInv, CompoundPacks
<1>5. ASSUME NEW ssrc \in Sources, AddSDESSource(ssrc)
      PROVE  SizeInv'
  <2> DEFINE q == WithSource(pack, ssrc)
  <2>1. /\ SourceFits(pack) /\ Adds(q)
        /\ overdrawn' = (overdrawn \/ (pack.sdes = <<>> /\ TotalBytes(q) > pack.max))
    BY <1>5 DEF AddSDESSource
  <2>2. /\ q \in Packs(Sources, I) /\ q.max = pack.max /\ q.report = pack.report
        /\ q.blocks = pack.blocks /\ (pack.sdes # <<>> => TotalBytes(q) <= q.max)
    BY <1>0, <2>1, AddSource
  <2> HIDE DEF q
  <2>3. TotalBytes(q) > pack.max \/ TotalBytes(q) <= q.max
    <3>1. TotalBytes(q) \in Nat /\ q.max \in Nat
      BY <2>2, PartsNat
    <3> QED
      BY <2>2, <3>1
  <2>4. overdrawn' \in BOOLEAN /\ (overdrawn => overdrawn')
    BY <2>1 DEF SizeInv
  <2>5. ~overdrawn' => TotalBytes(q) <= q.max
    BY <2>1, <2>2, <2>3, Zenon
  <2> QED
    BY <2>1, <2>2, <2>4, <2>5, AddsSafe DEF SizeInv, CompoundPacks
<1>6. ASSUME NEW len \in Nat, NEW id \in I, pack.sdes # <<>>, ItemFits(pack, len),
             Adds(WithItem(pack, [id |-> id, len |-> len])), UNCHANGED overdrawn
      PROVE  SizeInv'
  <2> DEFINE x == [id |-> id, len |-> len]
             q == WithItem(pack, x)
  <2>1. x \in ItemsOf(I) /\ x.len = len /\ Adds(q)
    BY <1>6 DEF ItemsOf
  <2> HIDE DEF x
  <2>2. /\ q \in Packs(Sources, I) /\ q.max = pack.max /\ q.report = pack.report
        /\ q.blocks = pack.blocks
        /\ TotalBytes(q) = OtherBytes(pack) + Report_NeededBytes(pack)
                            + SDES_NeededBytesWithExtraItem(pack, len)
    BY <1>0, <1>6, <2>1, AddItem
  <2> HIDE DEF q
  <2>3. TotalBytes(q) <= q.max
    BY <1>6, <2>2 DEF ItemFits
  <2> QED
    BY <1>6, <2>1, <2>2, <2>3, AddsSafe DEF SizeInv, CompoundPacks
<1>7. ASSUME NEW len \in ItemLengths, AddSDESNormalItem(len)
      PROVE  SizeInv'
  BY <1>6, <1>7 DEF AddSDESNormalItem
<1>8. ASSUME NEW len \in ItemLengths, AddSDESPrivateItem(len, len)
      PROVE  SizeInv'
  <2>1. len + 1 + len \in Nat
    OBVIOUS
  <2> QED
    BY <1>6, <1>8, <2>1 DEF AddSDESPrivateItem
<1>9. ASSUME NEW q \in Packs(Sources, I), NEW n \in Nat, q.max = pack.max,
             q.report = pack.report, q.blocks = pack.blocks,
             TotalBytes(q) = TotalBytes(pack) + n, OtherFits(pack, n), Adds(q),
             UNCHANGED overdrawn
      PROVE  SizeInv'
  BY <1>9, AddsSafe DEF SizeInv, CompoundPacks, OtherFits
<1>10. ASSUME NEW n \in 1..2, NEW len \in Reasons, AddBYEPacket(n, len)
      PROVE  SizeInv'
  <2> DEFINE x == [count |-> n, reason |-> len]
             q == [pack EXCEPT !.bye = Append(@, x)]
  <2>1. x \in Leavings
    BY DEF Leavings
  <2>2. OtherFits(pack, BYEBytes(x)) /\ Adds(q) /\ UNCHANGED overdrawn
    BY <1>10 DEF AddBYEPacket
  <2> HIDE DEF x
  <2>3. /\ q \in Packs(Sources, I) /\ q.max = pack.max /\ q.report = pack.report
        /\ q.blocks = pack.blocks /\ TotalBytes(q) = TotalBytes(pack) + BYEBytes(x)
    BY <1>0, <2>1, AddOther
  <2>4. BYEBytes(x) \in Nat
    BY <2>1 DEF Leavings, BYEBytes, CommonHeader, Word, Aligned
  <2> HIDE DEF q
  <2> QED
    BY <1>9, <2>2, <2>3, <2>4
<1>11. ASSUME NEW len \in APPLengths, AddAPPPacket(len)
      PROVE  SizeInv'
  <2> DEFINE q == [pack EXCEPT !.app = Append(@, len)]
  <2>1. OtherFits(pack, APPBytes(len)) /\ Adds(q) /\ UNCHANGED overdrawn /\ len \in Nat
    BY <1>11 DEF AddAPPPacket
  <2>2. /\ q \in Packs(Sources, I) /\ q.max = pack.max /\ q.report = pack.report
        /\ q.blocks = pack.blocks /\ TotalBytes(q) = TotalBytes(pack) + APPBytes(len)
    BY <1>0, <2>1, AddOther
  <2>3. APPBytes(len) \in Nat
    BY <2>1 DEF APPBytes, CommonHeader, Word
  <2> HIDE DEF q
  <2> QED
    BY <1>9, <2>1, <2>2, <2>3
<1>12. ASSUME NEW len \in UnknownLengths, AddUnknownPacket(len)
      PROVE  SizeInv'
  <2> DEFINE q == [pack EXCEPT !.unknown = Append(@, len)]
  <2>1. OtherFits(pack, UnknownBytes(len)) /\ Adds(q) /\ UNCHANGED overdrawn /\ len \in Nat
    BY <1>12 DEF AddUnknownPacket
  <2>2. /\ q \in Packs(Sources, I) /\ q.max = pack.max /\ q.report = pack.report
        /\ q.blocks = pack.blocks /\ TotalBytes(q) = TotalBytes(pack) + UnknownBytes(len)
    BY <1>0, <2>1, AddOther
  <2>3. UnknownBytes(len) \in Nat
    BY <2>1 DEF UnknownBytes, CommonHeader, Word
  <2> HIDE DEF q
  <2> QED
    BY <1>9, <2>1, <2>2, <2>3
<1>13. CASE EndBuildPacket
  <2>1. /\ pack' = EmptyPack(pack.max) /\ arebuilding' = FALSE
        /\ built' = pack /\ overdrawn' = overdrawn
    BY <1>13 DEF EndBuildPacket
  <2>2. /\ pack' \in Packs(Sources, I) /\ TotalBytes(pack') = 0 /\ pack'.max = pack.max
        /\ pack'.blocks = <<>>
    BY <1>0, <2>1, EmptyRules
  <2>3. ~overdrawn' => TotalBytes(pack') <= pack'.max /\ TotalBytes(built') <= pack'.max
    BY <1>0, <2>1, <2>2 DEF SizeInv
  <2> QED
    BY <1>0, <2>1, <2>2, <2>3 DEF SizeInv, CompoundPacks
<1>14. CASE UNCHANGED compoundvars
  BY <1>14 DEF SizeInv, compoundvars, CompoundPacks
<1> QED
  BY <1>1, <1>2, <1>3, <1>4, <1>5, <1>7, <1>8, <1>10, <1>11, <1>12, <1>13, <1>14
     DEF CompoundNext, InitBuild, InitBuildExternal

\* Nothing is collected at first.
LEMMA SizeStart == CompoundInit => SizeInv
<1> SUFFICES ASSUME CompoundInit PROVE SizeInv
  OBVIOUS
<1>1. pack = EmptyPack(0) /\ built = pack /\ arebuilding = FALSE /\ overdrawn = FALSE /\ compound = <<>>
  BY DEF CompoundInit
<1>2. /\ pack \in CompoundPacks /\ TotalBytes(pack) = 0 /\ pack.max = 0 /\ pack.blocks = <<>>
  BY <1>1, EmptyRules DEF CompoundPacks
<1>3. TotalBytes(pack) <= pack.max /\ ~(compound # <<>>)
  BY <1>1, <1>2
<1> QED
  BY <1>1, <1>2, <1>3, Zenon DEF SizeInv

\* The maximum size is kept.
THEOREM MaximumSafe == CompoundSpec => []MaximumKept
<1>1. CompoundInit => SizeInv
  BY SizeStart
<1>2. SizeInv => MaximumKept
  BY DEF SizeInv, MaximumKept
<1> QED
  BY <1>1, <1>2, SizeStep, PTL DEF CompoundSpec

-----------------------------------------------------------------------------
(* What EndBuild writes: sums over parts of sequences                       *)

\* The sums of the first elements are known by how they go on.
LEMMA SumBy ==
  ASSUME NEW n \in Nat, NEW s \in [1..n -> Nat], NEW f, f[0] = 0,
         \A k \in 1..n : f[k] = f[k - 1] + s[k]
  PROVE  SumOf(s) = f[n]
<1>1. PICK h \in [0..n -> Nat] :
        /\ h[0] = 0 /\ h[n] = SumOf(s)
        /\ \A k \in 1..n : h[k] = h[k - 1] + s[k]
  BY SumRuns
<1> DEFINE A == {k \in 0..n : f[k] = h[k]}
<1>2. 0 \in A
  BY <1>1
<1>3. \A k \in 0..n : k < n /\ k \in A => k + 1 \in A
  <2> TAKE k \in 0..n
  <2> HAVE k < n /\ k \in A
  <2>1. k + 1 \in 1..n /\ k + 1 \in 0..n /\ k + 1 - 1 = k
    OBVIOUS
  <2>2. h[k + 1] = h[k] + s[k + 1] /\ f[k + 1] = f[k] + s[k + 1]
    BY <1>1, <2>1
  <2> QED
    BY <2>1, <2>2
<1>4. n \in A
  <2> HIDE DEF A
  <2>1. 0..n \subseteq A
    BY <1>2, <1>3, Climb
  <2> QED
    BY <2>1
<1> QED
  BY <1>1, <1>4

\* The sum over a part of a sequence is a difference of the sums up to its ends.
LEMMA SumPart ==
  ASSUME NEW n \in Nat, NEW s \in [1..n -> Nat], NEW a \in Nat, NEW c \in Nat, a + c <= n,
         NEW f \in [0..n -> Nat], f[0] = 0, \A k \in 1..n : f[k] = f[k - 1] + s[k],
         NEW t \in [1..c -> Nat], \A k \in 1..c : t[k] = s[a + k]
  PROVE  SumOf(t) = f[a + c] - f[a]
<1> DEFINE g == [k \in 0..c |-> f[a + k] - f[a]]
<1>1. \A k \in 0..c : a + k \in 0..n /\ f[a + k] \in Nat
  <2> TAKE k \in 0..c
  <2>1. a + k \in 0..n
    OBVIOUS
  <2> QED
    BY <2>1
<1>2. f[a] \in Nat /\ g[0] = 0
  <2>1. 0 \in 0..c /\ a + 0 = a
    OBVIOUS
  <2>2. f[a] \in Nat
    BY <1>1, <2>1
  <2> QED
    BY <2>1, <2>2
<1>3. ASSUME NEW k \in 1..c PROVE g[k] = g[k - 1] + t[k]
  <2>1. /\ k \in 0..c /\ k - 1 \in 0..c
        /\ a + k \in 1..n /\ a + k - 1 = a + (k - 1)
    OBVIOUS
  <2>2. f[a + k] = f[a + k - 1] + s[a + k]
    BY <2>1
  <2>3. g[k] = f[a + k] - f[a] /\ g[k - 1] = f[a + (k - 1)] - f[a] /\ t[k] = s[a + k]
    BY <2>1
  <2>4. f[a + (k - 1)] \in Nat /\ s[a + k] \in Nat
    BY <1>1, <2>1
  <2>5. f[a + k] = f[a + (k - 1)] + s[a + k]
    BY <2>1, <2>2
  <2> HIDE DEF g
  <2> QED
    BY <1>2, <2>3, <2>4, <2>5
<1>4. g[c] = f[a + c] - f[a]
  <2>1. c \in 0..c
    OBVIOUS
  <2> QED
    BY <2>1
<1> HIDE DEF g
<1>5. SumOf(t) = g[c]
  BY <1>2, <1>3, SumBy
<1> QED
  BY <1>4, <1>5

\* The sum over two sequences one after the other.
LEMMA SumConcat ==
  ASSUME NEW s \in Seq(Nat), NEW t \in Seq(Nat)
  PROVE  SumOf(s \o t) = SumOf(s) + SumOf(t)
<1> DEFINE n == Len(s)
           m == Len(t)
           u == s \o t
<1>1. /\ n \in Nat /\ m \in Nat /\ s \in [1..n -> Nat] /\ t \in [1..m -> Nat]
      /\ u \in [1..(n + m) -> Nat]
      /\ \A k \in 1..n : u[k] = s[k]
      /\ \A k \in 1..m : u[n + k] = t[k]
  <2>1. /\ u \in Seq(Nat) /\ Len(u) = n + m
        /\ \A k \in 1..(n + m) : u[k] = IF k <= n THEN s[k] ELSE t[k - n]
    BY ConcatProperties
  <2>2. n \in Nat /\ m \in Nat /\ s \in [1..n -> Nat] /\ t \in [1..m -> Nat]
    OBVIOUS
  <2>3. u \in [1..(n + m) -> Nat]
    <3> HIDE DEF u, n, m
    <3>1. u \in [1..Len(u) -> Nat]
      BY <2>1
    <3> QED
      BY <2>1, <3>1
  <2> HIDE DEF u, n, m
  <2>4. ASSUME NEW k \in 1..n PROVE u[k] = s[k]
    <3>1. k \in 1..(n + m) /\ k <= n
      BY <2>2
    <3> QED
      BY <2>1, <3>1
  <2>5. ASSUME NEW k \in 1..m PROVE u[n + k] = t[k]
    <3> DEFINE j == n + k
    <3>1. j \in 1..(n + m) /\ ~(j <= n) /\ j - n = k
      BY <2>2
    <3> HIDE DEF j
    <3>2. u[j] = t[j - n]
      BY <2>1, <3>1
    <3> QED
      BY <3>1, <3>2 DEF j
  <2> QED
    BY <2>2, <2>3, <2>4, <2>5
<1> HIDE DEF n, m, u
<1>2. PICK f \in [0..(n + m) -> Nat] :
        /\ f[0] = 0 /\ f[n + m] = SumOf(u)
        /\ \A k \in 1..(n + m) : f[k] = f[k - 1] + u[k]
  <2>1. n + m \in Nat
    BY <1>1
  <2> QED
    BY <1>1, <2>1, SumRuns
<1>3. SumOf(s) = f[n]
  <2>1. \A k \in 1..n : f[k] = f[k - 1] + s[k]
    <3> TAKE k \in 1..n
    <3>1. k \in 1..(n + m)
      BY <1>1
    <3> QED
      BY <1>1, <1>2, <3>1
  <2> QED
    BY <1>1, <1>2, <2>1, SumBy
<1>4. SumOf(t) = f[n + m] - f[n]
  <2>1. n + m \in Nat /\ n + m <= n + m
    BY <1>1
  <2> QED
    BY <1>1, <1>2, <2>1, SumPart
<1>5. f[n] \in Nat /\ f[n + m] \in Nat
  <2>1. n \in 0..(n + m) /\ n + m \in 0..(n + m)
    BY <1>1
  <2> QED
    BY <2>1
<1> QED
  BY <1>2, <1>3, <1>4, <1>5 DEF u

\* What the packets of EndBuild occupy.
PacketSum(packets) == SumOf(Map(LAMBDA p : p.size, packets))

\* It adds up for packets one after the other.
LEMMA PacketConcat ==
  ASSUME NEW A, \A x \in A : x.size \in Nat, NEW s \in Seq(A), NEW t \in Seq(A)
  PROVE  PacketSum(s \o t) = PacketSum(s) + PacketSum(t)
<1> DEFINE w(q) == [i \in DOMAIN q |-> q[i].size]
           u == s \o t
<1>1. ASSUME NEW q \in Seq(A)
      PROVE  w(q) \in Seq(Nat) /\ Len(w(q)) = Len(q)
  <2>1. DOMAIN q = 1..Len(q) /\ Len(q) \in Nat /\ \A i \in DOMAIN q : q[i] \in A
    OBVIOUS
  <2>2. w(q) \in [1..Len(q) -> Nat]
    BY <2>1
  <2> QED
    BY <2>1, <2>2, SeqDef
<1>2. /\ u \in Seq(A) /\ Len(u) = Len(s) + Len(t) /\ Len(s) \in Nat /\ Len(t) \in Nat
      /\ \A k \in 1..(Len(s) + Len(t)) : u[k] = IF k <= Len(s) THEN s[k] ELSE t[k - Len(s)]
  BY ConcatProperties
<1>3. w(u) = w(s) \o w(t)
  <2>1. /\ w(s) \in Seq(Nat) /\ w(t) \in Seq(Nat) /\ w(u) \in Seq(Nat)
        /\ Len(w(s)) = Len(s) /\ Len(w(t)) = Len(t) /\ Len(w(u)) = Len(s) + Len(t)
    <3> HIDE DEF w, u
    <3> QED
      BY <1>1, <1>2
  <2>2. /\ w(s) \o w(t) \in Seq(Nat) /\ Len(w(s) \o w(t)) = Len(s) + Len(t)
        /\ \A k \in 1..(Len(s) + Len(t)) :
             (w(s) \o w(t))[k] = IF k <= Len(s) THEN w(s)[k] ELSE w(t)[k - Len(s)]
    <3> HIDE DEF w
    <3> QED
      BY <2>1, ConcatProperties
  <2>3. ASSUME NEW k \in 1..(Len(s) + Len(t))
        PROVE  w(u)[k] = (w(s) \o w(t))[k]
    <3>1. /\ DOMAIN u = 1..(Len(s) + Len(t)) /\ DOMAIN s = 1..Len(s) /\ DOMAIN t = 1..Len(t)
      <4> HIDE DEF u
      <4> QED
        BY <1>2
    <3>2. w(u)[k] = u[k].size
      <4> HIDE DEF u
      <4> QED
        BY <3>1
    <3>3. CASE k <= Len(s)
      <4>1. k \in 1..Len(s) /\ w(s)[k] = s[k].size
        BY <1>2, <3>1, <3>3
      <4> HIDE DEF w, u
      <4> QED
        BY <1>2, <2>2, <3>2, <3>3, <4>1
    <3>4. CASE ~(k <= Len(s))
      <4>1. k - Len(s) \in 1..Len(t)
        BY <1>2, <3>4
      <4>2. w(t)[k - Len(s)] = t[k - Len(s)].size
        BY <3>1, <4>1
      <4> HIDE DEF w, u
      <4> QED
        BY <1>2, <2>2, <3>2, <3>4, <4>2
    <3> QED
      BY <3>3, <3>4
  <2> HIDE DEF w, u
  <2> QED
    BY <2>1, <2>2, <2>3, SeqEqual
<1>4. PacketSum(u) = SumOf(w(u)) /\ PacketSum(s) = SumOf(w(s)) /\ PacketSum(t) = SumOf(w(t))
  BY DEF PacketSum, Map
<1>5. w(s) \in Seq(Nat) /\ w(t) \in Seq(Nat)
  BY <1>1
<1> HIDE DEF w
<1>6. SumOf(w(s) \o w(t)) = SumOf(w(s)) + SumOf(w(t))
  BY <1>5, SumConcat
<1> QED
  BY <1>3, <1>4, <1>6

-----------------------------------------------------------------------------
(* What EndBuild writes: the blocks and chunks cut into packets             *)

\* How many elements are in the first i packets.
Upper(n, i) == IF i * MaxPerPacket < n THEN i * MaxPerPacket ELSE n

\* All are in the packets, and none is without a first one.
LEMMA PacketsCover ==
  ASSUME NEW n \in Nat
  PROVE  /\ PacketsFor(n) \in Nat
         /\ PacketsFor(n) * MaxPerPacket >= n
         /\ \A i \in 1..PacketsFor(n) : (i - 1) * MaxPerPacket \in Nat /\ (i - 1) * MaxPerPacket < n
<1> DEFINE M == MaxPerPacket
           q == PacketsFor(n)
<1>1. M \in Nat /\ M > 0
  BY CompoundAssumption
<1>2. q \in Nat /\ q * M <= n + M - 1 /\ n + M - 1 < (q + 1) * M
  BY <1>1 DEF PacketsFor
<1> HIDE DEF q, M
<1>3. q * M >= n
  <2>1. (q + 1) * M = q * M + M /\ q * M \in Nat
    BY <1>1, <1>2
  <2> DEFINE x == q * M
  <2> HIDE DEF x
  <2>2. n + M - 1 < x + M /\ x \in Nat
    BY <1>2, <2>1 DEF x
  <2>3. x >= n
    BY <1>1, <2>2
  <2> QED
    BY <2>3 DEF x
<1>4. ASSUME NEW i \in 1..q
      PROVE  (i - 1) * M \in Nat /\ (i - 1) * M < n
  <2>1. i - 1 \in Nat /\ q - i \in Nat
    BY <1>2
  <2>2. (i - 1) * M \in Nat /\ (q - i) * M \in Nat /\ q * M = (i - 1) * M + M + (q - i) * M
    BY <1>1, <1>2, <2>1
  <2> DEFINE x == (i - 1) * M
             y == (q - i) * M
             z == q * M
  <2>3. x \in Nat /\ y \in Nat /\ z = x + M + y /\ z <= n + M - 1
    BY <1>2, <2>2
  <2> HIDE DEF x, y, z
  <2>4. x < n
    BY <1>1, <2>3
  <2> QED
    BY <2>3, <2>4 DEF x
<1> QED
  BY <1>2, <1>3, <1>4 DEF q, M

\* With the last packet all are there, and before the first none.
LEMMA UpperRules ==
  ASSUME NEW n \in Nat
  PROVE  /\ Upper(n, 0) = 0 /\ Upper(n, PacketsFor(n)) = n
         /\ \A i \in 0..PacketsFor(n) : Upper(n, i) \in 0..n
         /\ n > 0 => PacketsFor(n) > 0
<1> DEFINE M == MaxPerPacket
           q == PacketsFor(n)
<1>1. M \in Nat /\ M > 0 /\ q \in Nat /\ q * M >= n
  BY PacketsCover, CompoundAssumption
<1>2. 0 * M = 0 /\ \A i \in 0..q : i * M \in Nat
  <2> HIDE DEF q, M
  <2> QED
    BY <1>1
<1>3. n > 0 => q > 0
  <2> HIDE DEF q, M
  <2> QED
    BY <1>1, <1>2
<1>4. Upper(n, 0) = 0
  BY <1>2 DEF Upper
<1>5. Upper(n, q) = n
  <2> DEFINE x == q * M
  <2>1. x \in Nat /\ x >= n /\ Upper(n, q) = IF x < n THEN x ELSE n
    BY <1>1, <1>2 DEF Upper
  <2> HIDE DEF x
  <2>2. Upper(n, q) = n
    BY <2>1
  <2> QED
    BY <2>2
<1>6. ASSUME NEW i \in 0..q PROVE Upper(n, i) \in 0..n
  <2> DEFINE x == i * M
  <2>1. x \in Nat /\ Upper(n, i) = IF x < n THEN x ELSE n
    BY <1>2 DEF Upper
  <2> HIDE DEF x
  <2> QED
    BY <2>1
<1> QED
  BY <1>3, <1>4, <1>5, <1>6

\* The i-th packet has what is between the ends of the packets.
LEMMA PortionRules ==
  ASSUME NEW E, NEW s \in Seq(E), NEW i \in 1..PacketsFor(Len(s))
  PROVE  LET n == Len(s)
             a == (i - 1) * MaxPerPacket
             c == Upper(n, i) - Upper(n, i - 1)
         IN  /\ a \in Nat /\ c \in Nat /\ a + c <= n /\ Upper(n, i - 1) = a /\ Upper(n, i) = a + c
             /\ Portion(s, i) \in Seq(E) /\ Len(Portion(s, i)) = c
             /\ \A k \in 1..c : Portion(s, i)[k] = s[a + k]
<1> DEFINE n == Len(s)
           M == MaxPerPacket
           a == (i - 1) * M
           b == i * M
           u == Upper(n, i)
<1>1. n \in Nat /\ M \in Nat /\ M > 0 /\ i \in Nat
  <2>1. n \in Nat
    OBVIOUS
  <2>2. PacketsFor(n) \in Nat
    BY <2>1, PacketsCover
  <2> QED
    BY <2>1, <2>2, CompoundAssumption
<1>2. a \in Nat /\ a < n
  BY <1>1, PacketsCover
<1>3. b = a + M
  BY <1>1
<1>4. u = (IF b < n THEN b ELSE n) /\ Upper(n, i - 1) = IF a < n THEN a ELSE n
  BY DEF Upper
<1>5. Portion(s, i) = SubSeq(s, a + 1, u)
  BY DEF Portion, Upper
<1> HIDE DEF a, b, u, M, n
<1>6. u \in Nat /\ a < u /\ u <= n /\ Upper(n, i - 1) = a
  BY <1>1, <1>2, <1>3, <1>4
<1>7. /\ SubSeq(s, a + 1, u) \in Seq(E) /\ Len(SubSeq(s, a + 1, u)) = u - a
      /\ \A k \in 1..(u - a) : SubSeq(s, a + 1, u)[k] = s[a + k]
  <2> DEFINE t == SubSeq(s, a + 1, u)
  <2>1. a + 1 \in 1..(Len(s) + 1) /\ u \in a..Len(s) /\ u - (a + 1) + 1 = u - a
    BY <1>1, <1>2, <1>6 DEF n
  <2>2. \A k \in (a + 1)..u : s[k] \in E
    BY <2>1, <1>2, <1>6
  <2>3. t = [k \in 1..(u - a) |-> s[a + k]]
    BY <1>2, <1>6
  <2>4. t \in [1..(u - a) -> E]
    <3>1. \A k \in 1..(u - a) : a + k \in (a + 1)..u
      BY <1>2, <1>6
    <3> QED
      BY <2>2, <2>3, <3>1
  <2>5. u - a \in Nat
    BY <1>2, <1>6
  <2>6. t \in Seq(E) /\ Len(t) = u - a
    <3> HIDE DEF t
    <3> QED
      BY <2>4, <2>5, SeqDef
  <2> QED
    BY <2>3, <2>6
<1>8. u - a \in Nat /\ u - Upper(n, i - 1) = u - a /\ a + (u - a) = u
  BY <1>2, <1>6
<1> QED
  BY <1>2, <1>5, <1>6, <1>7, <1>8 DEF a, u, M, n

-----------------------------------------------------------------------------
(* What EndBuild writes: the chunks of an SDES packet, each rounded up      *)

\* What SDESPacket writes up to the end of a chunk.
Written(offset, source) == Aligned(offset + Word + SumOf(Map(ItemBytes, source.items)) + 1)

\* Rounding up a chunk by itself or behind others comes to the same.
LEMMA WrittenRules ==
  ASSUME NEW S, NEW I, NEW offset \in Nat, NEW source \in Chunks(S, I)
  PROVE  /\ Written(offset, source) \in Nat
         /\ offset % 4 = 0 =>
              /\ Written(offset, source) = offset + SDESSource_NeededBytes(source)
              /\ Written(offset, source) % 4 = 0
<1> DEFINE x == ItemSum(source.items)
<1>1. x \in Nat
  <2>1. source.items \in Seq(ItemsOf(I))
    BY DEF Chunks
  <2> QED
    BY <2>1, ItemRules
<1>2. /\ Written(offset, source) = Aligned(offset + 4 + x + 1)
      /\ SDESSource_NeededBytes(source) = Aligned(x + 1) + 4
  BY Sums DEF Written, ItemSum, Word
<1> HIDE DEF x
<1>3. Aligned(offset + 4 + x + 1) \in Nat
  BY <1>1 DEF Aligned
<1>4. offset % 4 = 0 =>
        /\ Aligned(offset + 4 + x + 1) = offset + (Aligned(x + 1) + 4)
        /\ Aligned(offset + 4 + x + 1) % 4 = 0
  BY <1>1 DEF Aligned
<1> QED
  BY <1>2, <1>3, <1>4

\* The chunks one after the other.
LEMMA WriteRuns ==
  ASSUME NEW S, NEW I, NEW s \in Seq(Chunks(S, I))
  PROVE  \E h \in [0..Len(s) -> Nat] :
           /\ h[0] = CommonHeader /\ h[Len(s)] = SDESPacket(s).size
           /\ \A k \in 1..Len(s) : h[k] = Written(h[k - 1], s[k])
<1> DEFINE n == Len(s)
           E == Chunks(S, I)
           g == [p \in Nat \X E |-> Written(p[1], p[2])]
           Iter(it) == [T \in SUBSET (1..n) |->
                          IF T = {} THEN CommonHeader
                          ELSE Written(it[T \ {Max(T)}], s[Max(T)])]
           It == CHOOSE it : it = Iter(it)
           h == [k \in 0..n |-> It[1..k]]
<1>0. n \in Nat /\ DOMAIN s = 1..n /\ s \in [1..n -> E] /\ CommonHeader \in Nat
  BY DEF CommonHeader
<1>1. SDESPacket(s).size = It[1..n]
  BY <1>0 DEF SDESPacket, FoldLeft, MapThenFoldSet, Written
<1>2. g \in [Nat \X E -> Nat] /\ \A a \in Nat, b \in E : g[<<a, b>>] = Written(a, b)
  BY WrittenRules
<1>3. \A a \in Nat, b \in E : Written(a, b) \in Nat
  BY WrittenRules
<1> HIDE DEF g, n, E
<1>4. PICK G \in [SUBSET (1..n) -> Nat] : Folds(G, g, CommonHeader, s, n)
  BY <1>0, <1>2, FoldExists
<1>5. G = Iter(G)
  <2>1. ASSUME NEW T \in SUBSET (1..n)
        PROVE  G[T] = IF T = {} THEN CommonHeader ELSE Written(G[T \ {Max(T)}], s[Max(T)])
    <3>1. T # {} => s[Max(T)] \in E
      BY <1>0, MaxIn
    <3>2. G[T \ {Max(T)}] \in Nat
      OBVIOUS
    <3>3. G[T] = IF T = {} THEN CommonHeader ELSE g[<<G[T \ {Max(T)}], s[Max(T)]>>]
      BY <1>4 DEF Folds
    <3> QED
      BY <1>2, <3>1, <3>2, <3>3
  <2> QED
    BY <2>1
<1> HIDE DEF Iter
<1>6. It = Iter(It)
  BY <1>5
<1> HIDE DEF It
<1>7. \A T \in SUBSET (1..n) :
        It[T] = IF T = {} THEN CommonHeader ELSE Written(It[T \ {Max(T)}], s[Max(T)])
  BY <1>6 DEF Iter
<1>8. h[0] = CommonHeader
  <2>1. 1..0 = {} /\ {} \in SUBSET (1..n) /\ 0 \in 0..n
    BY <1>0
  <2> QED
    BY <2>1, <1>7
<1>9. ASSUME NEW k \in 1..n PROVE h[k] = Written(h[k - 1], s[k])
  <2>1. It[1..k] = Written(It[1..(k - 1)], s[k])
    BY <1>0, <1>7, Upto
  <2>2. k \in 0..n /\ k - 1 \in 0..n
    BY <1>0
  <2> QED
    BY <2>1, <2>2
<1>10. h[n] = It[1..n] /\ h = [k \in 0..n |-> h[k]]
  BY <1>0
<1> HIDE DEF h
<1>11. h \in [0..n -> Nat]
  <2> DEFINE A == {k \in 0..n : h[k] \in Nat}
  <2>1. 0 \in A
    BY <1>0, <1>8
  <2>2. \A k \in 0..n : k < n /\ k \in A => k + 1 \in A
    <3> TAKE k \in 0..n
    <3> HAVE k < n /\ k \in A
    <3>1. k + 1 \in 1..n /\ k + 1 \in 0..n /\ k + 1 - 1 = k
      BY <1>0
    <3>2. h[k + 1] = Written(h[k], s[k + 1]) /\ s[k + 1] \in E
      BY <1>0, <1>9, <3>1
    <3> QED
      BY <1>3, <3>1, <3>2
  <2> HIDE DEF A
  <2>3. 0..n \subseteq A
    BY <2>1, <2>2, <1>0, Climb
  <2> QED
    BY <2>3, <1>10 DEF A
<1> QED
  BY <1>1, <1>8, <1>9, <1>10, <1>11 DEF n

\* The sizes of the chunks, and the sums of the first ones.
LEMMA ChunkSums ==
  ASSUME NEW S, NEW I, NEW s \in Seq(Chunks(S, I))
  PROVE  LET w == [i \in 1..Len(s) |-> SDESSource_NeededBytes(s[i])] IN
         w \in [1..Len(s) -> Nat] /\ ChunkSum(s) = SumOf(w)
<1> DEFINE w == [i \in 1..Len(s) |-> SDESSource_NeededBytes(s[i])]
<1>1. DOMAIN s = 1..Len(s) /\ \A i \in 1..Len(s) : s[i] \in Chunks(S, I)
  OBVIOUS
<1>2. \A i \in 1..Len(s) : SDESSource_NeededBytes(s[i]) \in Nat
  BY <1>1, ChunkRules
<1>3. ChunkSum(s) = SumOf(w)
  BY <1>1 DEF ChunkSum, Map
<1> QED
  BY <1>2, <1>3

\* An SDES packet is as long as its header and its chunks.
LEMMA SDESPacketSize ==
  ASSUME NEW S, NEW I, NEW s \in Seq(Chunks(S, I))
  PROVE  SDESPacket(s).size = CommonHeader + ChunkSum(s)
<1> DEFINE n == Len(s)
           w == [i \in 1..n |-> SDESSource_NeededBytes(s[i])]
<1>1. n \in Nat /\ \A i \in 1..n : s[i] \in Chunks(S, I)
  OBVIOUS
<1>2. w \in [1..n -> Nat] /\ ChunkSum(s) = SumOf(w)
  BY ChunkSums
<1>3. \A i \in 1..n : w[i] = SDESSource_NeededBytes(s[i])
  OBVIOUS
<1>4. PICK h \in [0..n -> Nat] :
           /\ h[0] = CommonHeader /\ h[n] = SDESPacket(s).size
           /\ \A k \in 1..n : h[k] = Written(h[k - 1], s[k])
  BY WriteRuns
<1> HIDE DEF w, n
<1>5. PICK f \in [0..n -> Nat] :
        /\ f[0] = 0 /\ f[n] = SumOf(w)
        /\ \A k \in 1..n : f[k] = f[k - 1] + w[k]
  BY <1>1, <1>2, SumRuns
<1> DEFINE A == {k \in 0..n : h[k] = CommonHeader + f[k] /\ h[k] % 4 = 0}
<1>6. 0 \in A
  BY <1>1, <1>4, <1>5 DEF CommonHeader
<1>7. \A k \in 0..n : k < n /\ k \in A => k + 1 \in A
  <2> TAKE k \in 0..n
  <2> HAVE k < n /\ k \in A
  <2>1. k + 1 \in 1..n /\ k + 1 \in 0..n /\ k + 1 - 1 = k /\ h[k] \in Nat /\ f[k] \in Nat
    BY <1>1
  <2>2. h[k + 1] = Written(h[k], s[k + 1]) /\ f[k + 1] = f[k] + w[k + 1]
    BY <1>4, <1>5, <2>1
  <2>3. h[k] % 4 = 0 /\ h[k] = CommonHeader + f[k]
    OBVIOUS
  <2>4. s[k + 1] \in Chunks(S, I) /\ w[k + 1] = SDESSource_NeededBytes(s[k + 1]) /\ w[k + 1] \in Nat
    BY <1>1, <1>2, <1>3, <2>1
  <2>5. h[k + 1] = h[k] + w[k + 1] /\ h[k + 1] % 4 = 0
    <3>1. /\ Written(h[k], s[k + 1]) = h[k] + SDESSource_NeededBytes(s[k + 1])
          /\ Written(h[k], s[k + 1]) % 4 = 0
      BY <2>1, <2>3, <2>4, WrittenRules
    <3> QED
      BY <2>2, <2>4, <3>1
  <2>6. h[k + 1] = CommonHeader + f[k + 1]
    BY <2>1, <2>2, <2>3, <2>4, <2>5 DEF CommonHeader
  <2> QED
    BY <2>1, <2>5, <2>6
<1>8. n \in A
  <2> HIDE DEF A
  <2>1. 0..n \subseteq A
    BY <1>1, <1>6, <1>7, Climb
  <2> QED
    BY <1>1, <2>1
<1> QED
  BY <1>2, <1>4, <1>5, <1>8

-----------------------------------------------------------------------------
(* What EndBuild writes: as much as was added up                            *)

\* The packets whose size is a number.
Emitted(packets) ==
  \E A : packets \in Seq(A) /\ \A x \in A : x.size \in Nat

\* So are packets of which each one has a size that is a number.
LEMMA EmittedBy ==
  ASSUME NEW q \in Nat, NEW s, s = [i \in 1..q |-> s[i]],
         NEW size \in [1..q -> Nat], \A i \in 1..q : s[i].size = size[i]
  PROVE  Emitted(s) /\ PacketSum(s) = SumOf(size)
<1> DEFINE A == {s[i] : i \in 1..q}
<1>1. s \in [1..q -> A] /\ \A x \in A : x.size \in Nat
  OBVIOUS
<1>2. s \in Seq(A)
  <2> HIDE DEF A
  <2> QED
    BY <1>1, SeqDef
<1>3. DOMAIN s = 1..q
  OBVIOUS
<1>4. [i \in 1..q |-> s[i].size] = size
  OBVIOUS
<1>5. PacketSum(s) = SumOf(size)
  BY <1>3, <1>4 DEF PacketSum, Map
<1> QED
  BY <1>1, <1>2, <1>5 DEF Emitted

\* One after the other they occupy what they occupy together.
LEMMA EmittedConcat ==
  ASSUME NEW s, NEW t, Emitted(s), Emitted(t)
  PROVE  Emitted(s \o t) /\ PacketSum(s \o t) = PacketSum(s) + PacketSum(t)
<1>1. PICK A : s \in Seq(A) /\ \A x \in A : x.size \in Nat
  BY DEF Emitted
<1>2. PICK B : t \in Seq(B) /\ \A x \in B : x.size \in Nat
  BY DEF Emitted
<1> DEFINE C == A \cup B
<1>3. /\ s \in [1..Len(s) -> A] /\ Len(s) \in Nat
      /\ t \in [1..Len(t) -> B] /\ Len(t) \in Nat
  BY <1>1, <1>2
<1>4. s \in [1..Len(s) -> C] /\ t \in [1..Len(t) -> C] /\ \A x \in C : x.size \in Nat
  BY <1>1, <1>2, <1>3
<1> HIDE DEF C
<1>5. s \in Seq(C) /\ t \in Seq(C)
  BY <1>3, <1>4, SeqDef
<1>6. s \o t \in Seq(C)
  BY <1>5, ConcatProperties
<1>7. PacketSum(s \o t) = PacketSum(s) + PacketSum(t)
  BY <1>4, <1>5, PacketConcat
<1> QED
  BY <1>4, <1>6, <1>7 DEF Emitted

\* The size of the i-th report packet.
ReportSize(p, i) ==
  ReportHeader(IF i = 1 THEN p.report ELSE "RR") + ReportBlock * Len(Portion(p.blocks, i))

\* The report packets occupy what was calculated for them.
LEMMA ReportsFilled ==
  ASSUME NEW S, NEW I, NEW p \in Packs(S, I), p.report # "none"
  PROVE  Emitted(EmitReports(p)) /\ PacketSum(EmitReports(p)) = Report_NeededBytes(p)
<1> DEFINE b == p.blocks
           n == Len(b)
           q == IF b = <<>> THEN 1 ELSE PacketsFor(n)
           size == [i \in 1..q |-> ReportSize(p, i)]
           extra == IF p.report = "SR" THEN SenderReport ELSE 0
<1>1. b \in Seq(S) /\ n \in Nat /\ (b = <<>> <=> n = 0) /\ p.report \in {"SR", "RR"}
  BY DEF Packs
<1>2. /\ ReportHeader("RR") = 8 /\ ReportHeader(p.report) = 8 + extra /\ extra \in Nat
      /\ ReportBlock = 24 /\ SenderReport = 20
  BY <1>1 DEF ReportHeader, CommonHeader, Word, SenderReport, ReportBlock
<1>3. EmitReports(p) =
        [i \in 1..q |-> ReportPacket(IF i = 1 THEN p.report ELSE "RR", Portion(b, i))]
  BY DEF EmitReports
<1>4. \A i : ReportPacket(IF i = 1 THEN p.report ELSE "RR", Portion(b, i)).size = ReportSize(p, i)
  BY DEF ReportPacket, ReportSize
<1> HIDE DEF b
<1>5. CASE n = 0
  <2>1. q = 1 /\ 1 \in 1..1 /\ 1 \in Nat
    BY <1>1, <1>5
  <2>2. Portion(b, 1) = <<>>
    <3>1. b = <<>> /\ MaxPerPacket \in Nat
      BY <1>1, <1>5, CompoundAssumption
    <3>2. Portion(b, 1) = SubSeq(<<>>, 1, 0)
      <4>1. (1 - 1) * MaxPerPacket + 1 = 1 /\ ~(1 * MaxPerPacket < 0) /\ Len(<<>>) = 0
        BY <3>1
      <4> QED
        BY <3>1, <4>1 DEF Portion
    <3> QED
      BY <3>2
  <2>3. size[1] = 8 + extra /\ \A i \in 1..1 : ReportSize(p, i) = 8 + extra
    <3>1. ReportSize(p, 1) = 8 + extra
      BY <1>2, <2>2 DEF ReportSize, b
    <3> QED
      BY <2>1, <3>1
  <2>4. SumOf(size) = 8 + extra
    <3> DEFINE f == [k \in 0..1 |-> IF k = 0 THEN 0 ELSE 8 + extra]
    <3>1. size \in [1..1 -> Nat] /\ 8 + extra \in Nat
      BY <1>2, <2>1, <2>3
    <3>2. f[0] = 0 /\ f[1] = 8 + extra /\ \A k \in 1..1 : f[k] = f[k - 1] + size[k]
      BY <1>2, <2>3
    <3> HIDE DEF f, size
    <3> QED
      BY <2>1, <3>1, <3>2, SumBy
  <2>5. Report_NeededBytes(p) = 8 + extra
    BY <1>1, <1>2, <1>5 DEF Report_NeededBytes, ReportNeeds, b
  <2>6. /\ Emitted(EmitReports(p))
        /\ PacketSum(EmitReports(p)) = SumOf(size)
    <3> DEFINE s == EmitReports(p)
    <3>1. s = [i \in 1..q |-> s[i]]
      BY <1>3
    <3>2. \A i \in 1..q : s[i].size = size[i]
      BY <1>3, <1>4
    <3>3. q \in Nat /\ size \in [1..q -> Nat]
      BY <1>2, <2>1, <2>3
    <3> HIDE DEF s, size, q
    <3> QED
      BY <3>1, <3>2, <3>3, EmittedBy DEF s
  <2> QED
    BY <2>4, <2>5, <2>6
<1>6. CASE n > 0
  <2>1. q = PacketsFor(n) /\ q \in Nat /\ q > 0
    BY <1>1, <1>6, PacketsCover, UpperRules
  <2>2. /\ Upper(n, 0) = 0 /\ Upper(n, q) = n
        /\ \A i \in 0..q : Upper(n, i) \in 0..n
    BY <1>1, <2>1, UpperRules
  <2>3. ASSUME NEW i \in 1..q
        PROVE  /\ Len(Portion(b, i)) = Upper(n, i) - Upper(n, i - 1)
               /\ Len(Portion(b, i)) \in Nat
    BY <1>1, <2>1, PortionRules
  <2>4. ASSUME NEW i \in 1..q
        PROVE  ReportSize(p, i) =
                 8 + (IF i = 1 THEN extra ELSE 0) + 24 * (Upper(n, i) - Upper(n, i - 1))
    <3>1. ReportSize(p, i) =
            ReportHeader(IF i = 1 THEN p.report ELSE "RR") + 24 * Len(Portion(b, i))
      BY <1>2 DEF ReportSize, b
    <3>2. ReportHeader(IF i = 1 THEN p.report ELSE "RR") = 8 + (IF i = 1 THEN extra ELSE 0)
      <4>1. CASE i = 1
        BY <1>2, <4>1, Zenon
      <4>2. CASE i # 1
        <5>1. ReportHeader("RR") = 8 + 0
          BY <1>2
        <5> QED
          BY <4>2, <5>1, Zenon
      <4> QED
        BY <4>1, <4>2
    <3> QED
      BY <2>3, <3>1, <3>2
  <2> DEFINE f == [k \in 0..q |-> 24 * Upper(n, k) + 8 * k + (IF k > 0 THEN extra ELSE 0)]
  <2> HIDE DEF q, size
  <2>5. f[0] = 0 /\ f[q] = 24 * n + 8 * q + extra
    <3> HIDE DEF extra
    <3>1. 0 \in 0..q /\ q \in 0..q /\ q > 0 /\ ~(0 > 0)
      BY <2>1
    <3>2. f[0] = 24 * Upper(n, 0) + 8 * 0 + 0 /\ f[q] = 24 * Upper(n, q) + 8 * q + extra
      BY <3>1
    <3> QED
      BY <2>2, <3>2
  <2>6. \A k \in 1..q : size[k] = ReportSize(p, k) /\ size[k] \in Nat
    <3> TAKE k \in 1..q
    <3>1. ReportSize(p, k) \in Nat
      <4>1. Len(Portion(b, k)) \in Nat
        BY <2>3
      <4>2. ReportSize(p, k) =
              ReportHeader(IF k = 1 THEN p.report ELSE "RR") + 24 * Len(Portion(b, k))
        BY <1>2 DEF ReportSize, b
      <4> QED
        BY <1>2, <4>1, <4>2
    <3> QED
      BY <3>1 DEF size
  <2>7. ASSUME NEW k \in 1..q PROVE f[k] = f[k - 1] + size[k]
    <3>1. k \in 0..q /\ k - 1 \in 0..q /\ (k - 1 > 0 <=> k # 1)
      BY <2>1
    <3>2. Upper(n, k) \in Nat /\ Upper(n, k - 1) \in Nat
      BY <2>2, <3>1
    <3>3. /\ f[k] = 24 * Upper(n, k) + 8 * k + extra
          /\ f[k - 1] = 24 * Upper(n, k - 1) + 8 * (k - 1) + (IF k # 1 THEN extra ELSE 0)
      BY <3>1
    <3>4. size[k] = 8 + (IF k = 1 THEN extra ELSE 0) + 24 * (Upper(n, k) - Upper(n, k - 1))
      BY <2>4, <2>6
    <3> HIDE DEF f, extra
    <3>5. CASE k = 1
      <4>1. size[k] = 8 + extra + 24 * (Upper(n, k) - Upper(n, k - 1))
        BY <3>4, <3>5
      <4>2. f[k - 1] = 24 * Upper(n, k - 1) + 8 * (k - 1) + 0
        BY <3>3, <3>5
      <4>3. f[k] = 24 * Upper(n, k) + 8 * k + extra /\ k \in Nat /\ extra \in Nat
        BY <1>2, <2>1, <3>3
      <4> DEFINE x == Upper(n, k)
                 y == Upper(n, k - 1)
      <4> HIDE DEF x, y
      <4>4. x \in Nat /\ y \in Nat
        BY <3>2 DEF x, y
      <4>5. 24 * x + 8 * k + extra = (24 * y + 8 * (k - 1) + 0) + (8 + extra + 24 * (x - y))
        BY <4>3, <4>4
      <4> QED
        BY <4>1, <4>2, <4>3, <4>5 DEF x, y
    <3>6. CASE k # 1
      <4>1. size[k] = 8 + 0 + 24 * (Upper(n, k) - Upper(n, k - 1))
        BY <3>4, <3>6
      <4>2. f[k - 1] = 24 * Upper(n, k - 1) + 8 * (k - 1) + extra
        BY <3>3, <3>6
      <4> QED
        BY <1>2, <2>1, <3>2, <3>3, <4>1, <4>2
    <3> QED
      BY <3>5, <3>6
  <2>8. SumOf(size) = 24 * n + 8 * q + extra
    <3>1. size \in [1..q -> Nat]
      BY <2>6 DEF size
    <3> HIDE DEF f
    <3> QED
      BY <2>1, <2>5, <2>7, <3>1, SumBy
  <2>9. Report_NeededBytes(p) = 24 * n + 8 * q + extra
    <3>1. Report_NeededBytes(p) = n * 24 + q * 8 + extra
      BY <1>2, <1>6, <2>1 DEF Report_NeededBytes, ReportNeeds, b
    <3> HIDE DEF extra
    <3> QED
      BY <1>1, <1>2, <2>1, <3>1
  <2>10. /\ Emitted(EmitReports(p))
         /\ PacketSum(EmitReports(p)) = SumOf(size)
    <3> DEFINE s == EmitReports(p)
    <3>1. s = [i \in 1..q |-> s[i]]
      BY <1>3 DEF q
    <3>2. \A i \in 1..q : s[i].size = size[i]
      BY <1>3, <1>4, <2>6 DEF q
    <3>3. size \in [1..q -> Nat]
      BY <2>6 DEF size
    <3> HIDE DEF s
    <3> QED
      BY <2>1, <3>1, <3>2, <3>3, EmittedBy DEF s
  <2> QED
    BY <2>8, <2>9, <2>10
<1> QED
  BY <1>1, <1>5, <1>6

\* The SDES packets occupy what was calculated for them.
LEMMA SDESPacketsFilled ==
  ASSUME NEW S, NEW I, NEW p \in Packs(S, I)
  PROVE  Emitted(EmitSDES(p)) /\ PacketSum(EmitSDES(p)) = SDES_NeededBytes(p)
<1> DEFINE b == p.sdes
           n == Len(b)
           q == PacketsFor(n)
           w == [i \in 1..n |-> SDESSource_NeededBytes(b[i])]
           size == [i \in 1..q |-> CommonHeader + ChunkSum(Portion(b, i))]
           s == EmitSDES(p)
<1>1. b \in Seq(Chunks(S, I)) /\ n \in Nat
  BY DEF Packs
<1>2. s = [i \in 1..q |-> SDESPacket(Portion(b, i))]
  BY DEF EmitSDES
<1>3. w \in [1..n -> Nat] /\ ChunkSum(b) = SumOf(w)
  BY <1>1, ChunkSums
<1>4. \A i \in 1..n : w[i] = SDESSource_NeededBytes(b[i])
  OBVIOUS
<1>5. SDES_NeededBytes(p) = ChunkSum(b) + q * 4
  BY Sums DEF CommonHeader
<1> HIDE DEF b, w, s
<1>6. PICK f \in [0..n -> Nat] :
        /\ f[0] = 0 /\ f[n] = SumOf(w)
        /\ \A k \in 1..n : f[k] = f[k - 1] + w[k]
  BY <1>1, <1>3, SumRuns
<1>7. /\ q \in Nat /\ Upper(n, 0) = 0 /\ Upper(n, q) = n
      /\ \A i \in 0..q : Upper(n, i) \in 0..n
  BY <1>1, PacketsCover, UpperRules
<1>8. ASSUME NEW i \in 1..q
      PROVE  /\ Portion(b, i) \in Seq(Chunks(S, I))
             /\ ChunkSum(Portion(b, i)) = f[Upper(n, i)] - f[Upper(n, i - 1)]
             /\ ChunkSum(Portion(b, i)) \in Nat
  <2> DEFINE a == (i - 1) * MaxPerPacket
             c == Upper(n, i) - Upper(n, i - 1)
             t == Portion(b, i)
             v == [k \in 1..Len(t) |-> SDESSource_NeededBytes(t[k])]
  <2>1. /\ a \in Nat /\ c \in Nat /\ a + c <= n /\ Upper(n, i - 1) = a /\ Upper(n, i) = a + c
        /\ t \in Seq(Chunks(S, I)) /\ Len(t) = c
        /\ \A k \in 1..c : t[k] = b[a + k]
    BY <1>1, PortionRules
  <2> HIDE DEF a, c, t, n
  <2>2. v \in [1..c -> Nat] /\ ChunkSum(t) = SumOf(v) /\ ChunkSum(t) \in Nat
    BY <2>1, ChunkSums, ChunkRules
  <2>3. ASSUME NEW k \in 1..c PROVE v[k] = w[a + k]
    <3>1. a + k \in 1..n /\ k \in 1..Len(t)
      BY <1>1, <2>1
    <3>2. v[k] = SDESSource_NeededBytes(t[k])
      BY <3>1
    <3> HIDE DEF v
    <3> QED
      BY <1>4, <2>1, <3>1, <3>2
  <2> HIDE DEF v
  <2>4. SumOf(v) = f[a + c] - f[a]
    <3>1. n \in Nat /\ a \in Nat /\ c \in Nat /\ a + c <= n
      BY <1>1, <2>1
    <3>2. w \in [1..n -> Nat] /\ v \in [1..c -> Nat] /\ f \in [0..n -> Nat]
      BY <1>3, <2>2
    <3>3. f[0] = 0 /\ \A k \in 1..n : f[k] = f[k - 1] + w[k]
      BY <1>6
    <3> QED
      BY <2>3, <3>1, <3>2, <3>3, SumPart, Zenon
  <2> QED
    BY <2>1, <2>2, <2>4 DEF t
<1> DEFINE g == [k \in 0..q |-> f[Upper(n, k)] + 4 * k]
<1> HIDE DEF q
<1>9. size \in [1..q -> Nat] /\ \A i \in 1..q : size[i] = 4 + ChunkSum(Portion(b, i))
  BY <1>8 DEF CommonHeader
<1>10. g[0] = 0 /\ g[q] = SumOf(w) + 4 * q
  <2>1. 0 \in 0..q /\ q \in 0..q
    BY <1>7
  <2>2. g[0] = f[0] + 4 * 0 /\ g[q] = f[n] + 4 * q
    BY <1>7, <2>1
  <2> QED
    BY <1>6, <2>2
<1>11. ASSUME NEW i \in 1..q PROVE g[i] = g[i - 1] + size[i]
  <2>1. i \in 0..q /\ i - 1 \in 0..q /\ i \in Nat
    BY <1>7
  <2> DEFINE x == f[Upper(n, i)]
             y == f[Upper(n, i - 1)]
  <2>2. x \in Nat /\ y \in Nat
    BY <1>7, <2>1
  <2>3. g[i] = x + 4 * i /\ g[i - 1] = y + 4 * (i - 1) /\ size[i] = 4 + (x - y)
    <3>1. g[i] = x + 4 * i /\ g[i - 1] = y + 4 * (i - 1)
      BY <2>1
    <3> QED
      BY <1>8, <1>9, <3>1
  <2> HIDE DEF x, y, g, size
  <2> QED
    BY <2>1, <2>2, <2>3
<1>12. SumOf(size) = SumOf(w) + 4 * q
  <2> HIDE DEF g, size
  <2> QED
    BY <1>7, <1>9, <1>10, <1>11, SumBy
<1>13. s = [i \in 1..q |-> s[i]] /\ \A i \in 1..q : s[i].size = size[i]
  <2>1. \A i \in 1..q : SDESPacket(Portion(b, i)).size = CommonHeader + ChunkSum(Portion(b, i))
    BY <1>8, SDESPacketSize
  <2>2. s = [i \in 1..q |-> SDESPacket(Portion(b, i))]
    BY <1>2 DEF q
  <2> QED
    BY <2>1, <2>2
<1>14. Emitted(s) /\ PacketSum(s) = SumOf(size)
  <2> HIDE DEF size
  <2> QED
    BY <1>7, <1>9, <1>13, EmittedBy
<1>15. SumOf(size) = ChunkSum(b) + q * 4
  <2>1. SumOf(w) = ChunkSum(b)
    BY <1>3
  <2> QED
    BY <1>7, <1>12, <2>1
<1> QED
  BY <1>5, <1>14, <1>15 DEF s, q

\* The other packets occupy what was added up for them.
LEMMA OthersFilled ==
  ASSUME NEW S, NEW I, NEW p \in Packs(S, I)
  PROVE  /\ Emitted(Map(EmitAPP, p.app)) /\ PacketSum(Map(EmitAPP, p.app)) = APPSum(p.app)
         /\ Emitted(Map(EmitUnknown, p.unknown))
         /\ PacketSum(Map(EmitUnknown, p.unknown)) = UnknownSum(p.unknown)
         /\ Emitted(Map(EmitBYE, p.bye)) /\ PacketSum(Map(EmitBYE, p.bye)) = BYESum(p.bye)
<1>1. p.app \in Seq(Nat) /\ p.unknown \in Seq(Nat) /\ p.bye \in Seq(Leavings)
  BY DEF Packs
<1>2. Emitted(Map(EmitAPP, p.app)) /\ PacketSum(Map(EmitAPP, p.app)) = APPSum(p.app)
  <2> DEFINE t == p.app
             q == Len(t)
             s == Map(EmitAPP, t)
             size == Map(APPBytes, t)
  <2>1. q \in Nat /\ DOMAIN t = 1..q /\ \A i \in 1..q : t[i] \in Nat
    BY <1>1
  <2>2. s = [i \in 1..q |-> EmitAPP(t[i])] /\ size = [i \in 1..q |-> APPBytes(t[i])]
    BY <2>1 DEF Map
  <2>3. \A i \in 1..q : EmitAPP(t[i]).size = APPBytes(t[i]) /\ APPBytes(t[i]) \in Nat
    BY <2>1 DEF EmitAPP, APPBytes, CommonHeader, Word
  <2> HIDE DEF s, size, q, t
  <2>4. /\ s = [i \in 1..q |-> s[i]] /\ size \in [1..q -> Nat]
        /\ \A i \in 1..q : s[i].size = size[i]
    BY <2>2, <2>3
  <2>5. Emitted(s) /\ PacketSum(s) = SumOf(size)
    BY <2>1, <2>4, EmittedBy
  <2> QED
    BY <2>5 DEF s, size, t, APPSum
<1>3. /\ Emitted(Map(EmitUnknown, p.unknown))
      /\ PacketSum(Map(EmitUnknown, p.unknown)) = UnknownSum(p.unknown)
  <2> DEFINE t == p.unknown
             q == Len(t)
             s == Map(EmitUnknown, t)
             size == Map(UnknownBytes, t)
  <2>1. q \in Nat /\ DOMAIN t = 1..q /\ \A i \in 1..q : t[i] \in Nat
    BY <1>1
  <2>2. s = [i \in 1..q |-> EmitUnknown(t[i])] /\ size = [i \in 1..q |-> UnknownBytes(t[i])]
    BY <2>1 DEF Map
  <2>3. \A i \in 1..q : EmitUnknown(t[i]).size = UnknownBytes(t[i]) /\ UnknownBytes(t[i]) \in Nat
    BY <2>1 DEF EmitUnknown, UnknownBytes, CommonHeader, Word
  <2> HIDE DEF s, size, q, t
  <2>4. /\ s = [i \in 1..q |-> s[i]] /\ size \in [1..q -> Nat]
        /\ \A i \in 1..q : s[i].size = size[i]
    BY <2>2, <2>3
  <2>5. Emitted(s) /\ PacketSum(s) = SumOf(size)
    BY <2>1, <2>4, EmittedBy
  <2> QED
    BY <2>5 DEF s, size, t, UnknownSum
<1>4. Emitted(Map(EmitBYE, p.bye)) /\ PacketSum(Map(EmitBYE, p.bye)) = BYESum(p.bye)
  <2> DEFINE t == p.bye
             q == Len(t)
             s == Map(EmitBYE, t)
             size == Map(BYEBytes, t)
  <2>1. q \in Nat /\ DOMAIN t = 1..q /\ \A i \in 1..q : t[i] \in Leavings
    BY <1>1
  <2>2. s = [i \in 1..q |-> EmitBYE(t[i])] /\ size = [i \in 1..q |-> BYEBytes(t[i])]
    BY <2>1 DEF Map
  <2>3. \A x \in Leavings : EmitBYE(x).size = BYEBytes(x) /\ BYEBytes(x) \in Nat
    <3> TAKE x \in Leavings
    <3>1. x.count \in Nat /\ x.reason \in Nat
      BY DEF Leavings
    <3>2. BYEBytes(x) \in Nat
      BY <3>1 DEF BYEBytes, CommonHeader, Word, Aligned
    <3> QED
      BY <3>2 DEF EmitBYE
  <2> HIDE DEF s, size, q, t
  <2>4. /\ s = [i \in 1..q |-> s[i]] /\ size \in [1..q -> Nat]
        /\ \A i \in 1..q : s[i].size = size[i]
    BY <2>1, <2>2, <2>3
  <2>5. Emitted(s) /\ PacketSum(s) = SumOf(size)
    BY <2>1, <2>4, EmittedBy
  <2> QED
    BY <2>5 DEF s, size, t, BYESum
<1> QED
  BY <1>2, <1>3, <1>4

\* EndBuild fills what the sizes add up to.
LEMMA PackFilled ==
  ASSUME NEW S, NEW I, NEW p \in Packs(S, I), p.report # "none"
  PROVE  PacketSum(EndBuild(p)) = TotalBytes(p)
<1> DEFINE reports == EmitReports(p)
           sdes == EmitSDES(p)
           app == Map(EmitAPP, p.app)
           unknown == Map(EmitUnknown, p.unknown)
           bye == Map(EmitBYE, p.bye)
<1>1. /\ Emitted(reports) /\ PacketSum(reports) = Report_NeededBytes(p)
      /\ Emitted(sdes) /\ PacketSum(sdes) = SDES_NeededBytes(p)
      /\ Emitted(app) /\ PacketSum(app) = APPSum(p.app)
      /\ Emitted(unknown) /\ PacketSum(unknown) = UnknownSum(p.unknown)
      /\ Emitted(bye) /\ PacketSum(bye) = BYESum(p.bye)
  BY ReportsFilled, SDESPacketsFilled, OthersFilled
<1>2. EndBuild(p) = reports \o sdes \o app \o unknown \o bye
  BY DEF EndBuild
<1> HIDE DEF reports, sdes, app, unknown, bye
<1>3. /\ Emitted(reports \o sdes)
      /\ PacketSum(reports \o sdes) = PacketSum(reports) + PacketSum(sdes)
  BY <1>1, EmittedConcat
<1>4. /\ Emitted(reports \o sdes \o app)
      /\ PacketSum(reports \o sdes \o app) = PacketSum(reports \o sdes) + PacketSum(app)
  BY <1>1, <1>3, EmittedConcat
<1>5. /\ Emitted(reports \o sdes \o app \o unknown)
      /\ PacketSum(reports \o sdes \o app \o unknown)
           = PacketSum(reports \o sdes \o app) + PacketSum(unknown)
  BY <1>1, <1>4, EmittedConcat
<1>6. PacketSum(reports \o sdes \o app \o unknown \o bye)
        = PacketSum(reports \o sdes \o app \o unknown) + PacketSum(bye)
  BY <1>1, <1>5, EmittedConcat
<1>7. TotalBytes(p) = BYESum(p.bye) + APPSum(p.app) + UnknownSum(p.unknown)
                        + Report_NeededBytes(p) + SDES_NeededBytes(p)
  BY Sums DEF TotalBytes
<1>8. /\ p.bye \in Seq(Leavings) /\ p.app \in Seq(Nat) /\ p.unknown \in Seq(Nat)
      /\ Report_NeededBytes(p) \in Nat /\ SDES_NeededBytes(p) \in Nat
  BY PartsNat DEF Packs
<1>9. BYESum(p.bye) \in Nat /\ APPSum(p.app) \in Nat /\ UnknownSum(p.unknown) \in Nat
  BY <1>8, OtherRules
<1> QED
  BY <1>1, <1>2, <1>3, <1>4, <1>5, <1>6, <1>7, <1>8, <1>9

\* EndBuild fills the buffer it allocates exactly, whatever the application has
\* added in whatever order, with any number of blocks, chunks and items over
\* any number of full packets (RTCPCompoundPacketBuilder).
THEOREM BufferSafe == CompoundSpec => []BufferFilled
<1>1. CompoundInit => SizeInv /\ BufferFilled
  BY SizeStart DEF CompoundInit, BufferFilled
<1>2. SizeInv /\ BufferFilled /\ [CompoundNext]_compoundvars => BufferFilled'
  <2> SUFFICES ASSUME SizeInv, BufferFilled, [CompoundNext]_compoundvars
               PROVE  BufferFilled'
    OBVIOUS
  <2>0. /\ BufferFilled = (compound # <<>> => PacketSum(compound) = TotalBytes(built))
        /\ BufferFilled' = (compound' # <<>> => PacketSum(compound') = TotalBytes(built'))
    BY DEF BufferFilled, PacketSum, Map
  <2>1. CASE EndBuildPacket
    <3>1. compound' = EndBuild(pack) /\ built' = pack /\ pack.report # "none"
      BY <2>1 DEF EndBuildPacket
    <3>2. PacketSum(EndBuild(pack)) = TotalBytes(pack)
      BY <3>1, PackFilled DEF SizeInv, CompoundPacks
    <3>3. PacketSum(compound') = TotalBytes(built')
      BY <3>1, <3>2
    <3> QED
      BY <2>0, <3>3
  <2>2. CASE UNCHANGED <<compound, built>>
    BY <2>0, <2>2
  <2>3. EndBuildPacket \/ UNCHANGED <<compound, built>>
    BY DEF CompoundNext, compoundvars, InitBuild, InitBuildExternal, InitBuildWith, Adds,
       StartSenderReport, StartReceiverReport, AddReportBlock, AddSDESSource,
       AddSDESNormalItem, AddSDESPrivateItem, AddBYEPacket, AddAPPPacket, AddUnknownPacket
  <2> QED
    BY <2>1, <2>2, <2>3
<1> QED
  BY <1>1, <1>2, SizeStep, PTL DEF CompoundSpec

-----------------------------------------------------------------------------
(* What the parser finds: contents, packet after packet                     *)

\* The contents with those of one more packet.
Collect(types, sofar, p) == IF p.type \in types THEN sofar \o p.content ELSE sofar

\* Packets whose contents are sequences over C, if their type is one of types.
Carrying(E, types, C) == \A x \in E : x.type \in types => x.content \in Seq(C)

\* They stay sequences over C.
LEMMA CollectType ==
  ASSUME NEW C, NEW types, NEW E, Carrying(E, types, C)
  PROVE  \A a \in Seq(C), b \in E : Collect(types, a, b) \in Seq(C)
<1> TAKE a \in Seq(C), b \in E
<1>1. CASE b.type \in types
  <2>1. b.content \in Seq(C)
    BY <1>1 DEF Carrying
  <2>2. a \o b.content \in Seq(C)
    BY <2>1, ConcatProperties
  <2> QED
    BY <1>1, <2>2 DEF Collect
<1>2. CASE b.type \notin types
  BY <1>2 DEF Collect
<1> QED
  BY <1>1, <1>2

\* More contents behind others.
LEMMA CollectConcat ==
  ASSUME NEW C, NEW types, NEW E, Carrying(E, types, C), NEW x \in Seq(C), NEW y \in Seq(C),
         NEW p \in E
  PROVE  Collect(types, x \o y, p) = x \o Collect(types, y, p)
<1>1. CASE p.type \in types
  <2> DEFINE z == p.content
  <2>1. z \in Seq(C)
    BY <1>1 DEF Carrying
  <2>2. /\ Collect(types, x \o y, p) = (x \o y) \o z
        /\ Collect(types, y, p) = y \o z
    BY <1>1 DEF Collect
  <2> HIDE DEF z
  <2>3. (x \o y) \o z = x \o (y \o z)
    BY <2>1, ConcatAssociative, SMT
  <2> QED
    BY <2>2, <2>3, SMT
<1>2. CASE p.type \notin types
  BY <1>2 DEF Collect
<1> QED
  BY <1>1, <1>2

\* Packet after packet.
LEMMA ContentRuns ==
  ASSUME NEW C, NEW types, NEW E, Carrying(E, types, C), NEW s \in Seq(E)
  PROVE  \E h \in [0..Len(s) -> Seq(C)] :
           /\ h[0] = <<>> /\ h[Len(s)] = Contents(s, types)
           /\ \A k \in 1..Len(s) : h[k] = Collect(types, h[k - 1], s[k])
<1> DEFINE n == Len(s)
           X == Seq(C)
           g == [p \in X \X E |-> Collect(types, p[1], p[2])]
           Iter(it) == [T \in SUBSET (1..n) |->
                          IF T = {} THEN <<>>
                          ELSE Collect(types, it[T \ {Max(T)}], s[Max(T)])]
           It == CHOOSE it : it = Iter(it)
           h == [k \in 0..n |-> It[1..k]]
<1>0. n \in Nat /\ DOMAIN s = 1..n /\ s \in [1..n -> E] /\ <<>> \in X
  OBVIOUS
<1>1. Contents(s, types) = It[1..n]
  BY <1>0 DEF Contents, FoldLeft, MapThenFoldSet, Collect
<1>2. \A a \in X, b \in E : Collect(types, a, b) \in X
  BY CollectType
<1>3. g \in [X \X E -> X] /\ \A a \in X, b \in E : g[<<a, b>>] = Collect(types, a, b)
  <2> HIDE DEF X
  <2> QED
    BY <1>2
<1> HIDE DEF g, n, X
<1>4. PICK G \in [SUBSET (1..n) -> X] : Folds(G, g, <<>>, s, n)
  BY <1>0, <1>3, FoldExists
<1>5. G = Iter(G)
  <2>1. ASSUME NEW T \in SUBSET (1..n)
        PROVE  G[T] = IF T = {} THEN <<>> ELSE Collect(types, G[T \ {Max(T)}], s[Max(T)])
    <3>1. T # {} => s[Max(T)] \in E
      BY <1>0, MaxIn
    <3>2. G[T \ {Max(T)}] \in X
      OBVIOUS
    <3>3. G[T] = IF T = {} THEN <<>> ELSE g[<<G[T \ {Max(T)}], s[Max(T)]>>]
      BY <1>4 DEF Folds
    <3> QED
      BY <1>3, <3>1, <3>2, <3>3
  <2> QED
    BY <2>1
<1> HIDE DEF Iter
<1>6. It = Iter(It)
  BY <1>5
<1> HIDE DEF It
<1>7. \A T \in SUBSET (1..n) :
        It[T] = IF T = {} THEN <<>> ELSE Collect(types, It[T \ {Max(T)}], s[Max(T)])
  BY <1>6 DEF Iter
<1>8. h[0] = <<>>
  <2>1. 1..0 = {} /\ {} \in SUBSET (1..n) /\ 0 \in 0..n
    BY <1>0
  <2> QED
    BY <2>1, <1>7
<1>9. ASSUME NEW k \in 1..n PROVE h[k] = Collect(types, h[k - 1], s[k])
  <2>1. It[1..k] = Collect(types, It[1..(k - 1)], s[k])
    BY <1>0, <1>7, Upto
  <2>2. k \in 0..n /\ k - 1 \in 0..n
    BY <1>0
  <2> QED
    BY <2>1, <2>2
<1>10. h[n] = It[1..n] /\ h = [k \in 0..n |-> h[k]]
  BY <1>0
<1> HIDE DEF h
<1>11. h \in [0..n -> X]
  <2> DEFINE A == {k \in 0..n : h[k] \in X}
  <2>1. 0 \in A
    BY <1>0, <1>8
  <2>2. \A k \in 0..n : k < n /\ k \in A => k + 1 \in A
    <3> TAKE k \in 0..n
    <3> HAVE k < n /\ k \in A
    <3>1. k + 1 \in 1..n /\ k + 1 \in 0..n /\ k + 1 - 1 = k
      BY <1>0
    <3>2. h[k + 1] = Collect(types, h[k], s[k + 1]) /\ s[k + 1] \in E
      BY <1>0, <1>9, <3>1
    <3> QED
      BY <1>2, <3>1, <3>2
  <2> HIDE DEF A
  <2>3. 0..n \subseteq A
    BY <2>1, <2>2, <1>0, Climb
  <2> QED
    BY <2>3, <1>10 DEF A
<1> QED
  BY <1>1, <1>8, <1>9, <1>10, <1>11 DEF n, X

\* The contents are known by how they go on.
LEMMA ContentsBy ==
  ASSUME NEW C, NEW types, NEW E, Carrying(E, types, C), NEW s \in Seq(E), NEW f, f[0] = <<>>,
         \A k \in 1..Len(s) : f[k] = Collect(types, f[k - 1], s[k])
  PROVE  Contents(s, types) = f[Len(s)]
<1> DEFINE n == Len(s)
<1>0. n \in Nat
  OBVIOUS
<1>1. PICK h \in [0..n -> Seq(C)] :
        /\ h[0] = <<>> /\ h[n] = Contents(s, types)
        /\ \A k \in 1..n : h[k] = Collect(types, h[k - 1], s[k])
  BY ContentRuns
<1>2. \A k \in 1..n : f[k] = Collect(types, f[k - 1], s[k])
  OBVIOUS
<1> HIDE DEF n
<1> DEFINE A == {k \in 0..n : f[k] = h[k]}
<1>3. 0 \in A
  BY <1>0, <1>1
<1>4. \A k \in 0..n : k < n /\ k \in A => k + 1 \in A
  <2> TAKE k \in 0..n
  <2> HAVE k < n /\ k \in A
  <2>1. k + 1 \in 1..n /\ k + 1 \in 0..n /\ k + 1 - 1 = k
    BY <1>0
  <2>2. h[k + 1] = Collect(types, h[k], s[k + 1]) /\ f[k + 1] = Collect(types, f[k], s[k + 1])
    BY <1>1, <1>2, <2>1
  <2> QED
    BY <2>1, <2>2
<1>5. n \in A
  <2> HIDE DEF A
  <2>1. 0..n \subseteq A
    BY <1>0, <1>3, <1>4, Climb
  <2> QED
    BY <1>0, <2>1
<1> QED
  BY <1>1, <1>5 DEF n

\* The contents of packets one after the other.
LEMMA ContentsConcat ==
  ASSUME NEW C, NEW types, NEW E, Carrying(E, types, C), NEW s \in Seq(E), NEW t \in Seq(E)
  PROVE  /\ Contents(s \o t, types) = Contents(s, types) \o Contents(t, types)
         /\ Contents(s, types) \in Seq(C)
<1> DEFINE n == Len(s)
           m == Len(t)
           u == s \o t
           Join(x, y) == x \o y
<1>1. /\ n \in Nat /\ m \in Nat /\ u \in Seq(E) /\ Len(u) = n + m
      /\ \A k \in 1..(n + m) : u[k] = IF k <= n THEN s[k] ELSE t[k - n]
      /\ \A k \in 1..n : s[k] \in E
      /\ \A k \in 1..m : t[k] \in E
  BY ConcatProperties
<1>2. PICK h \in [0..n -> Seq(C)] :
        /\ h[0] = <<>> /\ h[n] = Contents(s, types)
        /\ \A k \in 1..n : h[k] = Collect(types, h[k - 1], s[k])
  BY ContentRuns
<1>3. PICK g \in [0..m -> Seq(C)] :
        /\ g[0] = <<>> /\ g[m] = Contents(t, types)
        /\ \A k \in 1..m : g[k] = Collect(types, g[k - 1], t[k])
  BY ContentRuns
<1>4. \A x, y \in Seq(C), p \in E : Collect(types, Join(x, y), p) = Join(x, Collect(types, y, p))
  <2> TAKE x, y \in Seq(C), p \in E
  <2>1. Collect(types, x \o y, p) = x \o Collect(types, y, p)
    BY CollectConcat
  <2> QED
    BY <2>1
<1>5. \A x \in Seq(C) : Join(x, <<>>) = x
  BY ConcatEmptySeq
<1> HIDE DEF n, m, u, Join
<1> DEFINE f == [k \in 0..(n + m) |-> IF k <= n THEN h[k] ELSE Join(h[n], g[k - n])]
<1>6. h[n] \in Seq(C) /\ g[0] \in Seq(C) /\ Join(h[n], <<>>) = h[n]
  <2>1. n \in 0..n /\ 0 \in 0..m
    BY <1>1
  <2>2. h[n] \in Seq(C) /\ g[0] \in Seq(C)
    BY <2>1
  <2> QED
    BY <1>5, <2>2
<1>7. f[0] = <<>> /\ f[n + m] = Join(h[n], g[m])
  <2>1. 0 \in 0..(n + m) /\ 0 <= n /\ n + m \in 0..(n + m) /\ (n + m <= n <=> m = 0) /\ n + m - n = m
    BY <1>1
  <2>2. f[0] = <<>>
    BY <1>2, <2>1
  <2>3. CASE m = 0
    <3>1. f[n + m] = h[n] /\ n + m = n
      BY <1>1, <2>1, <2>3
    <3> QED
      BY <1>3, <1>6, <2>2, <2>3, <3>1
  <2>4. CASE m # 0
    <3>1. \A k \in 0..(n + m) : ~(k <= n) => f[k] = Join(h[n], g[k - n])
      BY <1>1
    <3>2. ~(n + m <= n) /\ n + m \in 0..(n + m)
      BY <2>1, <2>4
    <3> HIDE DEF f
    <3> QED
      BY <1>1, <2>1, <2>2, <3>1, <3>2
  <2> QED
    BY <2>3, <2>4
<1>8. ASSUME NEW k \in 1..(n + m)
      PROVE  f[k] = Collect(types, f[k - 1], u[k])
  <2>1. CASE k <= n
    <3>1. k \in 1..n /\ k \in 0..(n + m) /\ k - 1 \in 0..(n + m) /\ k - 1 <= n
      BY <1>1, <2>1
    <3>2. f[k] = h[k] /\ f[k - 1] = h[k - 1]
      BY <2>1, <3>1
    <3> HIDE DEF f
    <3> QED
      BY <1>1, <1>2, <2>1, <3>1, <3>2
  <2>2. CASE ~(k <= n)
    <3> DEFINE j == k - n
    <3>1. /\ j \in 1..m /\ k \in 0..(n + m) /\ k - 1 \in 0..(n + m) /\ k - 1 - n = j - 1
          /\ j - 1 \in 0..m /\ (k - 1 <= n <=> k - 1 = n) /\ (k - 1 = n <=> j - 1 = 0) /\ j \in 0..m
      BY <1>1, <2>2
    <3>2. f[k] = Join(h[n], g[j]) /\ u[k] = t[j]
      BY <1>1, <2>2, <3>1
    <3>3. f[k - 1] = Join(h[n], g[j - 1])
      <4>1. CASE k - 1 = n
        <5>1. f[k - 1] = h[n] /\ g[j - 1] = <<>>
          BY <1>3, <3>1, <4>1
        <5> QED
          BY <1>6, <5>1
      <4>2. CASE k - 1 # n
        BY <3>1, <4>2
      <4> QED
        BY <4>1, <4>2
    <3> HIDE DEF f, j
    <3>4. g[j] = Collect(types, g[j - 1], t[j]) /\ g[j - 1] \in Seq(C) /\ t[j] \in E
      BY <1>1, <1>3, <3>1
    <3>5. Collect(types, Join(h[n], g[j - 1]), t[j]) = Join(h[n], Collect(types, g[j - 1], t[j]))
      BY <1>4, <1>6, <3>4
    <3> QED
      BY <3>2, <3>3, <3>4, <3>5
  <2> QED
    BY <2>1, <2>2
<1>9. Contents(u, types) = f[n + m]
  <2>1. \A k \in 1..Len(u) : f[k] = Collect(types, f[k - 1], u[k])
    BY <1>1, <1>8
  <2> HIDE DEF f
  <2>2. Contents(u, types) = f[Len(u)]
    <3>1. u \in Seq(E) /\ f[0] = <<>>
      BY <1>1, <1>7
    <3>2. Carrying(E, types, C)
      OBVIOUS
    <3> QED
      BY <2>1, <3>1, <3>2, ContentsBy, SMTT(60)
  <2> QED
    BY <1>1, <2>2
<1>10. u = s \o t /\ Join(h[n], g[m]) = h[n] \o g[m]
  BY DEF u, Join
<1> HIDE DEF f
<1> QED
  BY <1>2, <1>3, <1>6, <1>7, <1>9, <1>10

-----------------------------------------------------------------------------
(* What the parser finds: every packet in a known format                    *)

\* What KnownSDES has left after a chunk, and after all.
Left(rest, source) == rest - Word - Aligned(SumOf(Map(ItemBytes, source.items)) + 1)
LeftAfter(rest, s) == FoldLeft(Left, rest, s)

\* Both are integers.
LEMMA LeftRules ==
  ASSUME NEW S, NEW I, NEW rest \in Int, NEW source \in Chunks(S, I)
  PROVE  /\ Left(rest, source) = rest - SDESSource_NeededBytes(source)
         /\ Left(rest, source) \in Int
<1> DEFINE x == ItemSum(source.items)
<1>1. x \in Nat
  <2>1. source.items \in Seq(ItemsOf(I))
    BY DEF Chunks
  <2> QED
    BY <2>1, ItemRules
<1>2. /\ Left(rest, source) = rest - 4 - Aligned(x + 1)
      /\ SDESSource_NeededBytes(source) = Aligned(x + 1) + 4
  BY Sums DEF Left, ItemSum, Word
<1> HIDE DEF x
<1>3. Aligned(x + 1) \in Nat
  BY <1>1, AlignedNat
<1> QED
  BY <1>2, <1>3

\* What is left before each chunk and after the last.
Remains(h, rest, s) ==
  /\ h \in [0..Len(s) -> Int] /\ h[0] = rest /\ h[Len(s)] = LeftAfter(rest, s)
  /\ \A k \in 1..Len(s) : h[k] = Left(h[k - 1], s[k])

\* Chunk after chunk.
LEMMA LeftRuns ==
  ASSUME NEW S, NEW I, NEW s \in Seq(Chunks(S, I)), NEW rest \in Int
  PROVE  \E h : Remains(h, rest, s)
<1> DEFINE n == Len(s)
           E == Chunks(S, I)
           g == [p \in Int \X E |-> Left(p[1], p[2])]
           Iter(it) == [T \in SUBSET (1..n) |->
                          IF T = {} THEN rest
                          ELSE Left(it[T \ {Max(T)}], s[Max(T)])]
           It == CHOOSE it : it = Iter(it)
           h == [k \in 0..n |-> It[1..k]]
<1>0. n \in Nat /\ DOMAIN s = 1..n /\ s \in [1..n -> E]
  OBVIOUS
<1>1. LeftAfter(rest, s) = It[1..n]
  BY <1>0 DEF LeftAfter, FoldLeft, MapThenFoldSet
<1>2. g \in [Int \X E -> Int] /\ \A a \in Int, b \in E : g[<<a, b>>] = Left(a, b)
  BY LeftRules
<1>3. \A a \in Int, b \in E : Left(a, b) \in Int
  BY LeftRules
<1> HIDE DEF g, n, E
<1>4. PICK G \in [SUBSET (1..n) -> Int] : Folds(G, g, rest, s, n)
  BY <1>0, <1>2, FoldExists
<1>5. G = Iter(G)
  <2>1. ASSUME NEW T \in SUBSET (1..n)
        PROVE  G[T] = IF T = {} THEN rest ELSE Left(G[T \ {Max(T)}], s[Max(T)])
    <3>1. T # {} => s[Max(T)] \in E
      BY <1>0, MaxIn
    <3>2. G[T \ {Max(T)}] \in Int
      OBVIOUS
    <3>3. G[T] = IF T = {} THEN rest ELSE g[<<G[T \ {Max(T)}], s[Max(T)]>>]
      BY <1>4 DEF Folds
    <3> QED
      BY <1>2, <3>1, <3>2, <3>3
  <2> QED
    BY <2>1
<1> HIDE DEF Iter
<1>6. It = Iter(It)
  BY <1>5
<1> HIDE DEF It
<1>7. \A T \in SUBSET (1..n) :
        It[T] = IF T = {} THEN rest ELSE Left(It[T \ {Max(T)}], s[Max(T)])
  BY <1>6 DEF Iter
<1>8. h[0] = rest
  <2>1. 1..0 = {} /\ {} \in SUBSET (1..n) /\ 0 \in 0..n
    BY <1>0
  <2> QED
    BY <2>1, <1>7
<1>9. ASSUME NEW k \in 1..n PROVE h[k] = Left(h[k - 1], s[k])
  <2>1. It[1..k] = Left(It[1..(k - 1)], s[k])
    BY <1>0, <1>7, Upto
  <2>2. k \in 0..n /\ k - 1 \in 0..n
    BY <1>0
  <2> QED
    BY <2>1, <2>2
<1>10. h[n] = It[1..n] /\ h = [k \in 0..n |-> h[k]]
  BY <1>0
<1> HIDE DEF h
<1>11. h \in [0..n -> Int]
  <2> DEFINE A == {k \in 0..n : h[k] \in Int}
  <2>1. 0 \in A
    BY <1>0, <1>8
  <2>2. \A k \in 0..n : k < n /\ k \in A => k + 1 \in A
    <3> TAKE k \in 0..n
    <3> HAVE k < n /\ k \in A
    <3>1. k + 1 \in 1..n /\ k + 1 \in 0..n /\ k + 1 - 1 = k
      BY <1>0
    <3>2. h[k + 1] = Left(h[k], s[k + 1]) /\ s[k + 1] \in E
      BY <1>0, <1>9, <3>1
    <3> QED
      BY <1>3, <3>1, <3>2
  <2> HIDE DEF A
  <2>3. 0..n \subseteq A
    BY <2>1, <2>2, <1>0, Climb
  <2> QED
    BY <2>3, <1>10 DEF A
<1> QED
  <2>1. Remains(h, rest, s)
    BY <1>1, <1>8, <1>9, <1>10, <1>11 DEF Remains, n
  <2> QED
    BY <2>1

\* What is left after the chunks is what they do not need.
LEMMA LeftIsRest ==
  ASSUME NEW S, NEW I, NEW s \in Seq(Chunks(S, I)), NEW rest \in Int
  PROVE  LeftAfter(rest, s) = rest - ChunkSum(s)
<1>0. PICK h : Remains(h, rest, s)
  BY LeftRuns
<1> DEFINE n == Len(s)
           w == [i \in 1..n |-> SDESSource_NeededBytes(s[i])]
<1>1. n \in Nat /\ \A i \in 1..n : s[i] \in Chunks(S, I)
  OBVIOUS
<1>2. w \in [1..n -> Nat] /\ ChunkSum(s) = SumOf(w)
  BY ChunkSums
<1>3. \A i \in 1..n : w[i] = SDESSource_NeededBytes(s[i])
  OBVIOUS
<1>4. /\ h \in [0..n -> Int] /\ h[0] = rest /\ h[n] = LeftAfter(rest, s)
      /\ \A k \in 1..n : h[k] = Left(h[k - 1], s[k])
  BY <1>0 DEF Remains
<1> HIDE DEF w, n
<1>5. PICK f \in [0..n -> Nat] :
        /\ f[0] = 0 /\ f[n] = SumOf(w)
        /\ \A k \in 1..n : f[k] = f[k - 1] + w[k]
  BY <1>1, <1>2, SumRuns
<1> DEFINE A == {k \in 0..n : h[k] = rest - f[k]}
<1>6. 0 \in A
  BY <1>1, <1>4, <1>5
<1>7. \A k \in 0..n : k < n /\ k \in A => k + 1 \in A
  <2> TAKE k \in 0..n
  <2> HAVE k < n /\ k \in A
  <2>1. k + 1 \in 1..n /\ k + 1 \in 0..n /\ k + 1 - 1 = k /\ h[k] \in Int /\ f[k] \in Nat
    BY <1>1
  <2>2. h[k + 1] = Left(h[k], s[k + 1]) /\ f[k + 1] = f[k] + w[k + 1]
    BY <1>4, <1>5, <2>1
  <2>3. h[k] = rest - f[k]
    OBVIOUS
  <2>4. s[k + 1] \in Chunks(S, I) /\ w[k + 1] = SDESSource_NeededBytes(s[k + 1]) /\ w[k + 1] \in Nat
    BY <1>1, <1>2, <1>3, <2>1
  <2>5. Left(h[k], s[k + 1]) = h[k] - w[k + 1]
    BY <2>1, <2>4, LeftRules
  <2>6. h[k + 1] = rest - f[k + 1]
    BY <2>1, <2>2, <2>3, <2>4, <2>5
  <2> QED
    BY <2>1, <2>6
<1>8. n \in A
  <2> HIDE DEF A
  <2>1. 0..n \subseteq A
    BY <1>1, <1>6, <1>7, Climb
  <2> QED
    BY <1>1, <2>1
<1> QED
  BY <1>2, <1>4, <1>5, <1>8

\* What the parser finds where the next packet should begin, and in it.
WellFormed(p) == p.declared = p.size /\ IsKnownFormat(p)

\* Report packets are well formed.
LEMMA ReportsParse ==
  ASSUME NEW S, NEW kind \in {"SR", "RR"}, NEW b \in Seq(S)
  PROVE  LET p == ReportPacket(kind, b) IN WellFormed(p) /\ p.type = kind /\ p.content = b
BY DEF ReportPacket, WellFormed, IsKnownFormat, KnownReport

\* SDES packets are well formed: the parser comes to their end.
LEMMA SDESParse ==
  ASSUME NEW S, NEW I, NEW s \in Seq(Chunks(S, I))
  PROVE  LET p == SDESPacket(s) IN WellFormed(p) /\ p.type = "SDES" /\ p.content = s
<1> DEFINE p == SDESPacket(s)
<1>1. p.type = "SDES" /\ p.content = s /\ p.count = Len(s) /\ p.declared = p.size
  BY DEF SDESPacket
<1>2. p.size = CommonHeader + ChunkSum(s) /\ ChunkSum(s) \in Nat
  BY SDESPacketSize, ChunkRules
<1>3. Len(s) = 0 => ChunkSum(s) = 0
  BY ChunkRules
<1>4. SubSeq(s, 1, Len(s)) = s
  BY SubSeqFull
<1> HIDE DEF p
<1>5. KnownSDES(p) = IF p.count = 0 THEN p.declared = CommonHeader
                     ELSE LeftAfter(p.declared - CommonHeader, SubSeq(p.content, 1, p.count)) = 0
  BY DEF KnownSDES, LeftAfter, Left
<1>6. p.declared - CommonHeader = ChunkSum(s) /\ ChunkSum(s) \in Int
  BY <1>1, <1>2 DEF CommonHeader
<1>7. LeftAfter(ChunkSum(s), s) = ChunkSum(s) - ChunkSum(s)
  BY <1>6, LeftIsRest
<1>8. KnownSDES(p)
  <2>1. CASE Len(s) = 0
    <3>1. p.count = 0 /\ p.declared = CommonHeader
      BY <1>1, <1>2, <1>3, <2>1 DEF CommonHeader
    <3> QED
      BY <1>5, <3>1
  <2>2. CASE Len(s) # 0
    <3>1. LeftAfter(ChunkSum(s), s) = 0
      BY <1>2, <1>7
    <3> QED
      BY <1>1, <1>4, <1>5, <1>6, <2>2, <3>1
  <2> QED
    BY <2>1, <2>2
<1> QED
  BY <1>1, <1>8 DEF p, WellFormed, IsKnownFormat

\* The other packets are well formed, APP and unknown ones with data of whole words.
LEMMA OthersParse ==
  /\ \A n \in Nat : n % 4 = 0 => WellFormed(EmitAPP(n)) /\ WellFormed(EmitUnknown(n))
  /\ \A n \in Nat : EmitAPP(n).type = "APP" /\ EmitUnknown(n).type = "unknown"
  /\ \A x \in Leavings : WellFormed(EmitBYE(x)) /\ EmitBYE(x).type = "BYE"
<1>1. ASSUME NEW n \in Nat, n % 4 = 0
      PROVE  WellFormed(EmitAPP(n)) /\ WellFormed(EmitUnknown(n))
  <2>1. n = 4 * (n \div 4) /\ n \div 4 \in Nat
    BY <1>1
  <2>2. (n \div 4 + 3) * 4 = 12 + n /\ (n \div 4 + 2) * 4 = 8 + n
    BY <2>1
  <2>3. /\ EmitAPP(n).type = "APP" /\ EmitAPP(n).size = 12 + n /\ EmitAPP(n).declared = 12 + n
        /\ EmitUnknown(n).type = "unknown" /\ EmitUnknown(n).size = 8 + n
        /\ EmitUnknown(n).declared = 8 + n
    BY <2>2 DEF EmitAPP, EmitUnknown, APPBytes, UnknownBytes, CommonHeader, Word
  <2> QED
    BY <2>3 DEF WellFormed, IsKnownFormat, KnownAPP, CommonHeader, Word
<1>2. \A n \in Nat : EmitAPP(n).type = "APP" /\ EmitUnknown(n).type = "unknown"
  BY DEF EmitAPP, EmitUnknown
<1>3. ASSUME NEW x \in Leavings
      PROVE  WellFormed(EmitBYE(x)) /\ EmitBYE(x).type = "BYE"
  <2> DEFINE c == x.count
             r == x.reason
             b == BYEBytes(x)
  <2>1. c \in Nat /\ r \in Nat
    BY DEF Leavings
  <2>2. b = IF r = 0 THEN 4 + 4 * c ELSE Aligned(4 + 4 * c + 1 + r)
    BY DEF BYEBytes, CommonHeader, Word
  <2>3. /\ EmitBYE(x).type = "BYE" /\ EmitBYE(x).size = b /\ EmitBYE(x).declared = (b \div 4) * 4
        /\ EmitBYE(x).count = c /\ EmitBYE(x).content = r
    BY DEF EmitBYE, Word
  <2> HIDE DEF c, r, b
  <2>4. b \in Nat /\ (b \div 4) * 4 = b /\ b >= 4 + 4 * c /\ (b > 4 + 4 * c => r <= b - 4 - 4 * c - 1)
    <3>1. CASE r = 0
      BY <2>1, <2>2, <3>1
    <3>2. CASE r # 0
      <4>1. b = ((4 + 4 * c + 1 + r + 3) \div 4) * 4
        BY <2>2, <3>2 DEF Aligned
      <4> QED
        BY <2>1, <3>2, <4>1
    <3> QED
      BY <3>1, <3>2
  <2>5. KnownBYE(EmitBYE(x))
    BY <2>1, <2>3, <2>4 DEF KnownBYE, CommonHeader, Word
  <2> QED
    BY <2>3, <2>4, <2>5 DEF WellFormed, IsKnownFormat
<1> QED
  BY <1>1, <1>2, <1>3

-----------------------------------------------------------------------------
(* What the parser finds: the contents of what EndBuild writes              *)

\* Packets of other types have no contents.
LEMMA ContentsOther ==
  ASSUME NEW C, NEW types, NEW E, Carrying(E, types, C), NEW s \in Seq(E),
         \A i \in 1..Len(s) : s[i].type \notin types
  PROVE  Contents(s, types) = <<>>
<1> DEFINE n == Len(s)
           f == [k \in 0..n |-> <<>>]
<1>1. n \in Nat
  OBVIOUS
<1>2. \A k \in 1..n : k \in 0..n /\ k - 1 \in 0..n
  BY <1>1
<1>3. f[0] = <<>> /\ f[n] = <<>>
  BY <1>1
<1>4. \A k \in 1..n : f[k] = Collect(types, f[k - 1], s[k])
  BY <1>2 DEF Collect
<1> HIDE DEF f
<1>5. Contents(s, types) = f[Len(s)]
  BY <1>3, <1>4, ContentsBy, SMTT(60)
<1> QED
  BY <1>3, <1>5

\* Packets whose contents are the portions of a sequence.
LEMMA ContentsPortions ==
  ASSUME NEW C, NEW types, NEW E, Carrying(E, types, C), NEW b \in Seq(C), NEW s \in Seq(E),
         Len(s) = PacketsFor(Len(b)),
         \A i \in 1..Len(s) : s[i].type \in types /\ s[i].content = Portion(b, i)
  PROVE  Contents(s, types) = b
<1> DEFINE n == Len(b)
           q == Len(s)
           f == [k \in 0..q |-> SubSeq(b, 1, Upper(n, k))]
<1>1. /\ n \in Nat /\ q \in Nat /\ Upper(n, 0) = 0 /\ Upper(n, q) = n
      /\ \A k \in 0..q : Upper(n, k) \in 0..n
  BY UpperRules
<1>2. f[0] = <<>> /\ f[q] = b
  <2>1. f[0] = SubSeq(b, 1, 0) /\ f[q] = SubSeq(b, 1, n)
    BY <1>1
  <2>2. SubSeq(b, 1, 0) = <<>>
    BY SubSeqEmpty
  <2>3. SubSeq(b, 1, n) = b
    BY SubSeqFull
  <2> QED
    BY <2>1, <2>2, <2>3
<1>3. ASSUME NEW k \in 1..q PROVE f[k] = Collect(types, f[k - 1], s[k])
  <2> DEFINE x == Upper(n, k - 1)
             y == Upper(n, k)
  <2>1. k \in 0..q /\ k - 1 \in 0..q /\ k \in 1..PacketsFor(Len(b))
    BY <1>1
  <2>2. Portion(b, k) = SubSeq(b, x + 1, y) /\ x <= y
    <3>1. x = (k - 1) * MaxPerPacket
      BY <2>1, PortionRules
    <3>2. y - x \in Nat /\ x \in Nat /\ y \in Nat
      BY <1>1, <2>1, PortionRules
    <3>3. Portion(b, k) = SubSeq(b, (k - 1) * MaxPerPacket + 1, y)
      BY DEF Portion, Upper
    <3> HIDE DEF x, y
    <3> QED
      BY <3>1, <3>2, <3>3
  <2>3. f[k] = SubSeq(b, 1, y) /\ f[k - 1] = SubSeq(b, 1, x)
    BY <2>1
  <2>4. x \in 0..n /\ y \in 0..n
    BY <1>1, <2>1
  <2>5. Collect(types, f[k - 1], s[k]) = f[k - 1] \o Portion(b, k)
    BY DEF Collect
  <2> HIDE DEF x, y, f
  <2>6. SubSeq(b, 1, x) \o SubSeq(b, x + 1, y) = SubSeq(b, 1, y)
    <3>1. 1 \in 1..(Len(b) + 1) /\ x \in (1 - 1)..Len(b) /\ y \in x..Len(b)
      BY <1>1, <2>2, <2>4
    <3> QED
      BY <3>1, ConcatAdjacentSubSeq
  <2> QED
    BY <2>2, <2>3, <2>5, <2>6
<1> HIDE DEF f
<1>4. Contents(s, types) = f[Len(s)]
  BY <1>2, <1>3, ContentsBy, SMTT(60)
<1> QED
  BY <1>2, <1>4

\* The packets that EndBuild writes.
WholeWords == {n \in Nat : n % 4 = 0}
Reports(S) == {ReportPacket(kind, b) : kind \in {"SR", "RR"}, b \in Seq(S)}
SDESPackets(S, I) == {SDESPacket(s) : s \in Seq(Chunks(S, I))}
OtherPackets ==
  {EmitAPP(n) : n \in WholeWords} \cup {EmitUnknown(n) : n \in WholeWords}
    \cup {EmitBYE(x) : x \in Leavings}
Packets(S, I) == Reports(S) \cup SDESPackets(S, I) \cup OtherPackets

\* What each of them is, and has as its contents.
LEMMA PacketTypes ==
  ASSUME NEW S, NEW I
  PROVE  /\ \A p \in Reports(S) : WellFormed(p) /\ p.type \in {"SR", "RR"} /\ p.content \in Seq(S)
         /\ \A p \in SDESPackets(S, I) :
              WellFormed(p) /\ p.type = "SDES" /\ p.content \in Seq(Chunks(S, I))
         /\ \A p \in OtherPackets : WellFormed(p) /\ p.type \in {"APP", "unknown", "BYE"}
<1>1. ASSUME NEW p \in Reports(S)
      PROVE  WellFormed(p) /\ p.type \in {"SR", "RR"} /\ p.content \in Seq(S)
  <2>1. PICK kind \in {"SR", "RR"}, b \in Seq(S) : p = ReportPacket(kind, b)
    BY DEF Reports
  <2>2. WellFormed(p) /\ p.type = kind /\ p.content = b
    BY <2>1, ReportsParse
  <2> QED
    BY <2>2
<1>2. ASSUME NEW p \in SDESPackets(S, I)
      PROVE  WellFormed(p) /\ p.type = "SDES" /\ p.content \in Seq(Chunks(S, I))
  <2>1. PICK s \in Seq(Chunks(S, I)) : p = SDESPacket(s)
    BY DEF SDESPackets
  <2>2. WellFormed(p) /\ p.type = "SDES" /\ p.content = s
    BY <2>1, SDESParse
  <2> QED
    BY <2>2
<1>3. ASSUME NEW p \in OtherPackets
      PROVE  WellFormed(p) /\ p.type \in {"APP", "unknown", "BYE"}
  BY OthersParse DEF OtherPackets, WholeWords
<1> QED
  BY <1>1, <1>2, <1>3

\* Each is well formed, and the contents of the types are sequences.
LEMMA PacketRules ==
  ASSUME NEW S, NEW I
  PROVE  /\ \A p \in Packets(S, I) : WellFormed(p)
         /\ Carrying(Packets(S, I), {"SR", "RR"}, S)
         /\ Carrying(Packets(S, I), {"SDES"}, Chunks(S, I))
<1>1. ASSUME NEW p \in Packets(S, I)
      PROVE  /\ WellFormed(p)
             /\ p.type \in {"SR", "RR"} => p.content \in Seq(S)
             /\ p.type \in {"SDES"} => p.content \in Seq(Chunks(S, I))
  <2>1. CASE p \in Reports(S)
    <3>1. WellFormed(p) /\ p.type \in {"SR", "RR"} /\ p.content \in Seq(S)
      BY <2>1, PacketTypes
    <3> QED
      BY <3>1
  <2>2. CASE p \in SDESPackets(S, I)
    <3>1. WellFormed(p) /\ p.type = "SDES" /\ p.content \in Seq(Chunks(S, I))
      BY <2>2, PacketTypes
    <3> QED
      BY <3>1
  <2>3. CASE p \in OtherPackets
    <3>1. WellFormed(p) /\ p.type \in {"APP", "unknown", "BYE"}
      BY <2>3, PacketTypes
    <3> QED
      BY <3>1
  <2> QED
    BY <2>1, <2>2, <2>3 DEF Packets
<1> QED
  BY <1>1 DEF Carrying

\* The five parts of a compound packet.
LEMMA Parsed ==
  ASSUME NEW S, NEW I, NEW p \in Packs(S, I), p.report # "none",
         p.app \in Seq(WholeWords), p.unknown \in Seq(WholeWords)
  PROVE  LET reports == EmitReports(p)
             sdes == EmitSDES(p)
             app == Map(EmitAPP, p.app)
             unknown == Map(EmitUnknown, p.unknown)
             bye == Map(EmitBYE, p.bye)
         IN  /\ reports \in Seq(Reports(S)) /\ reports # <<>>
             /\ sdes \in Seq(SDESPackets(S, I))
             /\ app \in Seq(OtherPackets) /\ unknown \in Seq(OtherPackets)
             /\ bye \in Seq(OtherPackets)
<1> DEFINE reports == EmitReports(p)
           sdes == EmitSDES(p)
           app == Map(EmitAPP, p.app)
           unknown == Map(EmitUnknown, p.unknown)
           bye == Map(EmitBYE, p.bye)
           b == p.blocks
           c == p.sdes
<1>1. /\ b \in Seq(S) /\ Len(b) \in Nat /\ c \in Seq(Chunks(S, I)) /\ Len(c) \in Nat
      /\ p.report \in {"SR", "RR"} /\ p.bye \in Seq(Leavings)
  BY DEF Packs
<1> HIDE DEF b, c
<1>2. reports \in Seq(Reports(S)) /\ reports # <<>>
  <2> DEFINE q == IF b = <<>> THEN 1 ELSE PacketsFor(Len(b))
  <2>1. reports = [i \in 1..q |-> ReportPacket(IF i = 1 THEN p.report ELSE "RR", Portion(b, i))]
    BY DEF EmitReports, b
  <2>2. q \in Nat /\ q > 0
    <3>1. b # <<>> => Len(b) > 0
      BY <1>1
    <3>2. PacketsFor(Len(b)) \in Nat /\ (Len(b) > 0 => PacketsFor(Len(b)) > 0)
      BY <1>1, UpperRules, PacketsCover
    <3> QED
      BY <3>1, <3>2
  <2>3. ASSUME NEW i \in 1..q PROVE Portion(b, i) \in Seq(S)
    <3>1. CASE b = <<>>
      <4>1. i = 1
        BY <3>1
      <4>2. Portion(b, 1) = <<>>
        <5>1. Len(b) = 0 /\ ~(1 * MaxPerPacket < 0) /\ (1 - 1) * MaxPerPacket + 1 = 1
          BY <3>1, CompoundAssumption
        <5>2. Portion(b, 1) = SubSeq(b, 1, 0)
          BY <5>1 DEF Portion
        <5> QED
          BY <5>2, SubSeqEmpty
      <4> QED
        BY <1>1, <3>1, <4>1, <4>2
    <3>2. CASE b # <<>>
      BY <1>1, <3>2, PortionRules
    <3> QED
      BY <3>1, <3>2
  <2> HIDE DEF q
  <2>4. ASSUME NEW i \in 1..q
        PROVE  ReportPacket(IF i = 1 THEN p.report ELSE "RR", Portion(b, i)) \in Reports(S)
    <3>1. (IF i = 1 THEN p.report ELSE "RR") \in {"SR", "RR"}
      BY <1>1
    <3> QED
      BY <2>3, <3>1 DEF Reports
  <2> HIDE DEF reports
  <2>5. reports \in [1..q -> Reports(S)]
    BY <2>1, <2>4
  <2>6. reports \in Seq(Reports(S)) /\ Len(reports) = q
    BY <2>2, <2>5, SeqDef
  <2> QED
    BY <2>2, <2>6
<1>3. sdes \in Seq(SDESPackets(S, I))
  <2> DEFINE q == PacketsFor(Len(c))
  <2>1. sdes = [i \in 1..q |-> SDESPacket(Portion(c, i))] /\ q \in Nat
    BY <1>1, PacketsCover DEF EmitSDES, c
  <2>2. \A i \in 1..q : Portion(c, i) \in Seq(Chunks(S, I))
    BY <1>1, PortionRules
  <2> HIDE DEF q, sdes
  <2>3. \A i \in 1..q : SDESPacket(Portion(c, i)) \in SDESPackets(S, I)
    BY <2>2 DEF SDESPackets
  <2>4. sdes \in [1..q -> SDESPackets(S, I)]
    BY <2>1, <2>3
  <2> QED
    BY <2>1, <2>4, SeqDef
<1>4. ASSUME NEW A, NEW s \in Seq(A), NEW t, DOMAIN t = DOMAIN s,
             t = [i \in DOMAIN s |-> t[i]], \A i \in DOMAIN s : t[i] \in OtherPackets
      PROVE  t \in Seq(OtherPackets)
  <2>1. Len(s) \in Nat /\ DOMAIN s = 1..Len(s)
    BY <1>4
  <2>2. t \in [1..Len(s) -> OtherPackets]
    BY <1>4, <2>1
  <2> QED
    BY <2>1, <2>2, SeqDef
<1>5. app \in Seq(OtherPackets)
  <2> DEFINE s == p.app
  <2>1. app = [i \in DOMAIN s |-> EmitAPP(s[i])]
    BY DEF Map
  <2>2. \A i \in DOMAIN s : s[i] \in WholeWords
    OBVIOUS
  <2> HIDE DEF s, app
  <2>3. \A i \in DOMAIN s : EmitAPP(s[i]) \in OtherPackets
    BY <2>2 DEF OtherPackets
  <2>4. DOMAIN app = DOMAIN s /\ app = [i \in DOMAIN s |-> app[i]] /\ s \in Seq(WholeWords)
    BY <2>1 DEF s
  <2>5. \A i \in DOMAIN s : app[i] \in OtherPackets
    BY <2>1, <2>3
  <2> QED
    BY <1>4, <2>4, <2>5
<1>6. unknown \in Seq(OtherPackets)
  <2> DEFINE s == p.unknown
  <2>1. unknown = [i \in DOMAIN s |-> EmitUnknown(s[i])]
    BY DEF Map
  <2>2. \A i \in DOMAIN s : s[i] \in WholeWords
    OBVIOUS
  <2> HIDE DEF s, unknown
  <2>3. \A i \in DOMAIN s : EmitUnknown(s[i]) \in OtherPackets
    BY <2>2 DEF OtherPackets
  <2>4. DOMAIN unknown = DOMAIN s /\ unknown = [i \in DOMAIN s |-> unknown[i]] /\ s \in Seq(WholeWords)
    BY <2>1 DEF s
  <2>5. \A i \in DOMAIN s : unknown[i] \in OtherPackets
    BY <2>1, <2>3
  <2> QED
    BY <1>4, <2>4, <2>5
<1>7. bye \in Seq(OtherPackets)
  <2> DEFINE s == p.bye
  <2>1. bye = [i \in DOMAIN s |-> EmitBYE(s[i])]
    BY DEF Map
  <2>2. s \in Seq(Leavings) /\ \A i \in DOMAIN s : s[i] \in Leavings
    BY <1>1
  <2> HIDE DEF s, bye
  <2>3. \A i \in DOMAIN s : EmitBYE(s[i]) \in OtherPackets
    BY <2>2 DEF OtherPackets
  <2>4. DOMAIN bye = DOMAIN s /\ bye = [i \in DOMAIN s |-> bye[i]]
    BY <2>1
  <2>5. \A i \in DOMAIN s : bye[i] \in OtherPackets
    BY <2>1, <2>3
  <2> QED
    BY <1>4, <2>2, <2>4, <2>5
<1> QED
  BY <1>2, <1>3, <1>5, <1>6, <1>7

\* The contents of five parts, one after the other.
Joined(a, b, c, d, e) == a \o b \o c \o d \o e

\* They have the contents of the parts, one after the other.
LEMMA ContentsOfParts ==
  ASSUME NEW C, NEW types, NEW E, Carrying(E, types, C), NEW a \in Seq(E), NEW b \in Seq(E),
         NEW c \in Seq(E), NEW d \in Seq(E), NEW e \in Seq(E)
  PROVE  /\ Joined(a, b, c, d, e) \in Seq(E)
         /\ Contents(Joined(a, b, c, d, e), types)
              = Joined(Contents(a, types), Contents(b, types), Contents(c, types),
                       Contents(d, types), Contents(e, types))
<1>1. \A x, y \in Seq(E) : x \o y \in Seq(E)
  BY ConcatProperties
<1>2. \A x, y \in Seq(E) : Contents(x \o y, types) = Contents(x, types) \o Contents(y, types)
  <2> TAKE x, y \in Seq(E)
  <2>1. /\ Contents(x \o y, types) = Contents(x, types) \o Contents(y, types)
        /\ Contents(x, types) \in Seq(C)
    BY ContentsConcat, Zenon
  <2> QED
    BY <2>1
<1> DEFINE ab == a \o b
           abc == ab \o c
           abcd == abc \o d
<1>3. ab \in Seq(E) /\ Contents(ab, types) = Contents(a, types) \o Contents(b, types)
  BY <1>1, <1>2
<1> HIDE DEF ab
<1>4. abc \in Seq(E) /\ Contents(abc, types) = Contents(ab, types) \o Contents(c, types)
  BY <1>1, <1>2, <1>3
<1> HIDE DEF abc
<1>5. abcd \in Seq(E) /\ Contents(abcd, types) = Contents(abc, types) \o Contents(d, types)
  BY <1>1, <1>2, <1>4
<1> HIDE DEF abcd
<1>6. /\ abcd \o e \in Seq(E)
      /\ Contents(abcd \o e, types) = Contents(abcd, types) \o Contents(e, types)
  BY <1>1, <1>2, <1>5
<1> QED
  BY <1>3, <1>4, <1>5, <1>6 DEF abcd, abc, ab, Joined

\* Packets of a part are packets.
LEMMA PartOfPackets ==
  ASSUME NEW A, NEW E, A \subseteq E, NEW s \in Seq(A)
  PROVE  s \in Seq(E)
<1>1. s \in [1..Len(s) -> A] /\ Len(s) \in Nat
  OBVIOUS
<1>2. s \in [1..Len(s) -> E]
  BY <1>1
<1> QED
  BY <1>1, <1>2, SeqDef

\* The blocks and the chunks are in the packets in their order.
LEMMA PartContents ==
  ASSUME NEW S, NEW I, NEW p \in Packs(S, I), p.report # "none",
         p.app \in Seq(WholeWords), p.unknown \in Seq(WholeWords)
  PROVE  /\ Contents(EmitReports(p), {"SR", "RR"}) = p.blocks
         /\ Contents(EmitSDES(p), {"SDES"}) = p.sdes
<1> DEFINE b == p.blocks
           c == p.sdes
           E == Packets(S, I)
           reports == EmitReports(p)
           sdes == EmitSDES(p)
<1>1. /\ b \in Seq(S) /\ Len(b) \in Nat /\ c \in Seq(Chunks(S, I)) /\ Len(c) \in Nat
      /\ p.report \in {"SR", "RR"}
  BY DEF Packs
<1>2. reports \in Seq(E) /\ sdes \in Seq(E)
  <2>1. Reports(S) \subseteq E /\ SDESPackets(S, I) \subseteq E
    BY DEF Packets
  <2>2. reports \in Seq(Reports(S)) /\ sdes \in Seq(SDESPackets(S, I))
    BY Parsed
  <2> HIDE DEF E, reports, sdes
  <2> QED
    BY <2>1, <2>2, PartOfPackets
<1>3. Carrying(E, {"SR", "RR"}, S) /\ Carrying(E, {"SDES"}, Chunks(S, I))
  BY PacketRules
<1>4. reports = [i \in 1..(IF b = <<>> THEN 1 ELSE PacketsFor(Len(b))) |->
                   ReportPacket(IF i = 1 THEN p.report ELSE "RR", Portion(b, i))]
  BY DEF EmitReports
<1>5. sdes = [i \in 1..PacketsFor(Len(c)) |-> SDESPacket(Portion(c, i))]
  BY DEF EmitSDES
<1> HIDE DEF b, c, E, reports, sdes
<1>6. PacketsFor(Len(b)) \in Nat /\ PacketsFor(Len(c)) \in Nat
  BY <1>1, PacketsCover
<1>7. Contents(reports, {"SR", "RR"}) = b
  <2>1. CASE b = <<>>
    <3> DEFINE f == [k \in 0..1 |-> <<>>]
    <3>1. reports = [i \in 1..1 |-> ReportPacket(IF i = 1 THEN p.report ELSE "RR", Portion(b, i))]
      BY <1>4, <2>1
    <3>2. Len(reports) = 1 /\ reports[1] = ReportPacket(p.report, Portion(b, 1))
      BY <3>1
    <3>3. Portion(b, 1) = <<>>
      <4>1. Len(b) = 0 /\ ~(1 * MaxPerPacket < 0) /\ (1 - 1) * MaxPerPacket + 1 = 1
        BY <2>1, CompoundAssumption
      <4>2. Portion(b, 1) = SubSeq(b, 1, 0)
        BY <4>1 DEF Portion
      <4> QED
        BY <4>2, SubSeqEmpty
    <3>4. reports[1].type \in {"SR", "RR"} /\ reports[1].content = <<>>
      BY <1>1, <3>2, <3>3 DEF ReportPacket
    <3>5. f[0] = <<>> /\ f[1] = <<>>
      OBVIOUS
    <3>6. <<>> \o <<>> = <<>>
      BY ConcatEmptySeq
    <3> HIDE DEF f
    <3>7. \A k \in 1..Len(reports) : f[k] = Collect({"SR", "RR"}, f[k - 1], reports[k])
      <4>1. Collect({"SR", "RR"}, f[0], reports[1]) = f[1]
        BY <3>4, <3>5, <3>6 DEF Collect
      <4>2. \A k \in 1..Len(reports) : k = 1 /\ k - 1 = 0
        BY <3>2
      <4> QED
        BY <4>1, <4>2
    <3>8. Contents(reports, {"SR", "RR"}) = f[Len(reports)]
      BY <1>2, <1>3, <3>5, <3>7, ContentsBy, SMTT(60)
    <3> QED
      BY <2>1, <3>2, <3>5, <3>8
  <2>2. CASE b # <<>>
    <3> DEFINE q == PacketsFor(Len(b))
    <3>1. reports = [i \in 1..q |-> ReportPacket(IF i = 1 THEN p.report ELSE "RR", Portion(b, i))]
      BY <1>4, <2>2
    <3> HIDE DEF q
    <3>2. Len(reports) = q
      <4>1. q \in Nat
        BY <1>6 DEF q
      <4> QED
        BY <3>1, <4>1
    <3>3. ASSUME NEW i \in 1..Len(reports)
          PROVE  reports[i].type \in {"SR", "RR"} /\ reports[i].content = Portion(b, i)
      <4>1. reports[i] = ReportPacket(IF i = 1 THEN p.report ELSE "RR", Portion(b, i))
        BY <3>1, <3>2
      <4>2. (IF i = 1 THEN p.report ELSE "RR") \in {"SR", "RR"}
        BY <1>1
      <4> QED
        BY <4>1, <4>2 DEF ReportPacket
    <3> QED
      BY <1>1, <1>2, <1>3, <3>2, <3>3, ContentsPortions DEF q
  <2> QED
    BY <2>1, <2>2
<1>8. Contents(sdes, {"SDES"}) = c
  <2> DEFINE q == PacketsFor(Len(c))
  <2>1. sdes = [i \in 1..q |-> SDESPacket(Portion(c, i))] /\ q \in Nat
    BY <1>5, <1>6
  <2> HIDE DEF q
  <2>2. Len(sdes) = q
    BY <2>1
  <2> DEFINE types == {"SDES"}
  <2>3. \A i \in 1..Len(sdes) : sdes[i].type \in types /\ sdes[i].content = Portion(c, i)
    BY <2>1, <2>2 DEF SDESPacket
  <2>4. Carrying(E, types, Chunks(S, I)) /\ Len(sdes) = PacketsFor(Len(c))
    BY <1>3, <2>2 DEF q
  <2> HIDE DEF types
  <2>5. Contents(sdes, types) = c
    BY <1>1, <1>2, <2>3, <2>4, ContentsPortions
  <2> QED
    BY <2>5 DEF types
<1> QED
  BY <1>7, <1>8 DEF b, c, reports, sdes

\* The parser finds in the packets that EndBuild writes what was added.
LEMMA PackParses ==
  ASSUME NEW S, NEW I, NEW p \in Packs(S, I), p.report # "none",
         p.app \in Seq(WholeWords), p.unknown \in Seq(WholeWords)
  PROVE  /\ ParseData(EndBuild(p))
         /\ \A i \in DOMAIN EndBuild(p) : IsKnownFormat(EndBuild(p)[i])
         /\ Contents(EndBuild(p), {"SR", "RR"}) = p.blocks
         /\ Contents(EndBuild(p), {"SDES"}) = p.sdes
<1> DEFINE reports == EmitReports(p)
           sdes == EmitSDES(p)
           app == Map(EmitAPP, p.app)
           unknown == Map(EmitUnknown, p.unknown)
           bye == Map(EmitBYE, p.bye)
           E == Packets(S, I)
           c == EndBuild(p)
<1>1. c = reports \o sdes \o app \o unknown \o bye
  BY DEF EndBuild
<1>2. /\ reports \in Seq(Reports(S)) /\ reports # <<>>
      /\ sdes \in Seq(SDESPackets(S, I))
      /\ app \in Seq(OtherPackets) /\ unknown \in Seq(OtherPackets)
      /\ bye \in Seq(OtherPackets)
  BY Parsed
<1>3. Contents(reports, {"SR", "RR"}) = p.blocks /\ Contents(sdes, {"SDES"}) = p.sdes
  BY PartContents
<1>4. p.blocks \in Seq(S) /\ p.sdes \in Seq(Chunks(S, I))
  BY DEF Packs
<1> HIDE DEF reports, sdes, app, unknown, bye, E, c
<1>5. /\ reports \in Seq(E) /\ sdes \in Seq(E) /\ app \in Seq(E)
      /\ unknown \in Seq(E) /\ bye \in Seq(E)
  <2>1. Reports(S) \subseteq E /\ SDESPackets(S, I) \subseteq E /\ OtherPackets \subseteq E
    BY DEF Packets, E
  <2> QED
    BY <1>2, <2>1, PartOfPackets
<1>6. /\ \A x \in E : WellFormed(x)
      /\ Carrying(E, {"SR", "RR"}, S) /\ Carrying(E, {"SDES"}, Chunks(S, I))
  BY PacketRules DEF E
<1>7. c \in Seq(E)
  <2>1. Joined(reports, sdes, app, unknown, bye) \in Seq(E)
    BY <1>5, <1>6, ContentsOfParts, Zenon
  <2> QED
    BY <1>1, <2>1 DEF Joined
<1>8. /\ \A i \in 1..Len(reports) : reports[i].type \in {"SR", "RR"}
      /\ \A i \in 1..Len(sdes) : sdes[i].type = "SDES"
      /\ \A i \in 1..Len(app) : app[i].type \in {"APP", "unknown", "BYE"}
      /\ \A i \in 1..Len(unknown) : unknown[i].type \in {"APP", "unknown", "BYE"}
      /\ \A i \in 1..Len(bye) : bye[i].type \in {"APP", "unknown", "BYE"}
  <2>1. /\ \A x \in Reports(S) : x.type \in {"SR", "RR"}
        /\ \A x \in SDESPackets(S, I) : x.type = "SDES"
        /\ \A x \in OtherPackets : x.type \in {"APP", "unknown", "BYE"}
    BY PacketTypes
  <2>2. /\ \A i \in 1..Len(reports) : reports[i] \in Reports(S)
        /\ \A i \in 1..Len(sdes) : sdes[i] \in SDESPackets(S, I)
        /\ \A i \in 1..Len(app) : app[i] \in OtherPackets
        /\ \A i \in 1..Len(unknown) : unknown[i] \in OtherPackets
        /\ \A i \in 1..Len(bye) : bye[i] \in OtherPackets
    BY <1>2
  <2> QED
    BY <2>1, <2>2
<1>9. Contents(c, {"SR", "RR"}) = p.blocks
  <2> DEFINE types == {"SR", "RR"}
  <2>1. /\ \A i \in 1..Len(sdes) : sdes[i].type \notin types
        /\ \A i \in 1..Len(app) : app[i].type \notin types
        /\ \A i \in 1..Len(unknown) : unknown[i].type \notin types
        /\ \A i \in 1..Len(bye) : bye[i].type \notin types
    BY <1>8
  <2>2. Carrying(E, types, S)
    BY <1>6
  <2>3. Contents(reports, types) = p.blocks
    BY <1>3
  <2> HIDE DEF types
  <2>4. /\ Contents(sdes, types) = <<>> /\ Contents(app, types) = <<>>
        /\ Contents(unknown, types) = <<>> /\ Contents(bye, types) = <<>>
    BY <1>5, <2>1, <2>2, ContentsOther
  <2>5. Contents(c, types) = p.blocks \o <<>> \o <<>> \o <<>> \o <<>>
    <3>1. Contents(Joined(reports, sdes, app, unknown, bye), types)
            = Joined(Contents(reports, types), Contents(sdes, types), Contents(app, types),
                     Contents(unknown, types), Contents(bye, types))
      BY <1>5, <2>2, ContentsOfParts, SMTT(60)
    <3> QED
      BY <1>1, <2>3, <2>4, <3>1 DEF Joined
  <2>6. p.blocks \o <<>> = p.blocks
    BY <1>4, ConcatEmptySeq
  <2> QED
    BY <2>5, <2>6 DEF types
<1>10. Contents(c, {"SDES"}) = p.sdes
  <2> DEFINE types == {"SDES"}
  <2>1. /\ \A i \in 1..Len(reports) : reports[i].type \notin types
        /\ \A i \in 1..Len(app) : app[i].type \notin types
        /\ \A i \in 1..Len(unknown) : unknown[i].type \notin types
        /\ \A i \in 1..Len(bye) : bye[i].type \notin types
    BY <1>8
  <2>2. Carrying(E, types, Chunks(S, I))
    BY <1>6
  <2>3. Contents(sdes, types) = p.sdes
    BY <1>3
  <2> HIDE DEF types
  <2>4. /\ Contents(reports, types) = <<>> /\ Contents(app, types) = <<>>
        /\ Contents(unknown, types) = <<>> /\ Contents(bye, types) = <<>>
    BY <1>5, <2>1, <2>2, ContentsOther
  <2>5. Contents(c, types) = <<>> \o p.sdes \o <<>> \o <<>> \o <<>>
    <3>1. Contents(Joined(reports, sdes, app, unknown, bye), types)
            = Joined(Contents(reports, types), Contents(sdes, types), Contents(app, types),
                     Contents(unknown, types), Contents(bye, types))
      BY <1>5, <2>2, ContentsOfParts, SMTT(60)
    <3> QED
      BY <1>1, <2>3, <2>4, <3>1 DEF Joined
  <2>6. <<>> \o p.sdes = p.sdes /\ p.sdes \o <<>> = p.sdes
    BY <1>4, ConcatEmptySeq
  <2> QED
    BY <2>5, <2>6 DEF types
<1>11. c # <<>> /\ c[1] = reports[1] /\ Len(reports) > 0
  <2>1. \A s, t \in Seq(E) : Len(s) > 0 => s \o t \in Seq(E) /\ Len(s \o t) > 0 /\ (s \o t)[1] = s[1]
    <3> TAKE s, t \in Seq(E)
    <3>1. /\ s \o t \in Seq(E) /\ Len(s \o t) = Len(s) + Len(t)
          /\ \A i \in 1..(Len(s) + Len(t)) :
               (s \o t)[i] = IF i <= Len(s) THEN s[i] ELSE t[i - Len(s)]
      BY ConcatProperties
    <3>2. Len(s) \in Nat /\ Len(t) \in Nat
      OBVIOUS
    <3> QED
      BY <3>1, <3>2
  <2>2. Len(reports) > 0
    BY <1>2
  <2> DEFINE two == reports \o sdes
             three == two \o app
             four == three \o unknown
  <2>3. two \in Seq(E) /\ Len(two) > 0 /\ two[1] = reports[1]
    BY <1>5, <2>1, <2>2
  <2> HIDE DEF two
  <2>4. three \in Seq(E) /\ Len(three) > 0 /\ three[1] = two[1]
    BY <1>5, <2>1, <2>3
  <2> HIDE DEF three
  <2>5. four \in Seq(E) /\ Len(four) > 0 /\ four[1] = three[1]
    BY <1>5, <2>1, <2>4
  <2> HIDE DEF four
  <2>6. Len(four \o bye) > 0 /\ (four \o bye)[1] = four[1] /\ four \o bye \in Seq(E)
    BY <1>5, <2>1, <2>5
  <2>7. c = four \o bye
    BY <1>1 DEF four, three, two
  <2> QED
    BY <2>2, <2>3, <2>4, <2>5, <2>6, <2>7
<1>12. ParseData(c) /\ \A i \in DOMAIN c : IsKnownFormat(c[i])
  <2>1. \A i \in DOMAIN c : WellFormed(c[i])
    BY <1>6, <1>7
  <2>2. c[1].type \in {"SR", "RR"}
    BY <1>8, <1>11
  <2> QED
    BY <1>11, <2>1, <2>2 DEF ParseData, WellFormed
<1> QED
  BY <1>9, <1>10, <1>12 DEF c

\* The data of APP packets is whole words, as AddAPPPacket asks.
APPInv == pack.app \in Seq(WholeWords) /\ built.app \in Seq(WholeWords)

\* What is collected and what is built changes in one way only.
LEMMA APPStep ==
  ASSUME SizeInv, APPInv, [CompoundNext]_compoundvars
  PROVE  APPInv'
<1> USE DEF APPInv
<1>0. pack.app \in Seq(WholeWords) /\ <<>> \in Seq(WholeWords) /\ pack \in CompoundPacks
  BY DEF SizeInv
<1>1. ASSUME NEW max, pack' = EmptyPack(max), built' \in {pack, built}
      PROVE  APPInv'
  BY <1>0, <1>1 DEF EmptyPack
<1>2. ASSUME NEW q, Adds(q), q.app = pack.app
      PROVE  APPInv'
  BY <1>2 DEF Adds
<1>3. ASSUME NEW len \in APPLengths, AddAPPPacket(len)
      PROVE  APPInv'
  <2>1. len \in WholeWords
    BY <1>3, LengthAssumption DEF AddAPPPacket, WholeWords
  <2>2. pack' = [pack EXCEPT !.app = Append(@, len)] /\ built' = built
    BY <1>3 DEF AddAPPPacket, Adds
  <2>3. pack'.app = Append(pack.app, len)
    BY <1>0, <2>2 DEF CompoundPacks, Packs
  <2>4. Append(pack.app, len) \in Seq(WholeWords)
    BY <1>0, <2>1, AppendProperties
  <2> QED
    BY <2>2, <2>3, <2>4
<1>4. CASE \E max \in Maximums : InitBuild(max) \/ InitBuildExternal(max)
  BY <1>1, <1>4 DEF InitBuild, InitBuildExternal, InitBuildWith
<1>5. CASE EndBuildPacket
  BY <1>1, <1>5 DEF EndBuildPacket
<1>6. CASE StartSenderReport \/ StartReceiverReport
  <2>1. \A kind : WithReport(pack, kind).app = pack.app
    BY <1>0 DEF WithReport, CompoundPacks, Packs
  <2> QED
    BY <1>2, <1>6, <2>1 DEF StartSenderReport, StartReceiverReport
<1>7. CASE \E ssrc \in Sources : AddReportBlock(ssrc) \/ AddSDESSource(ssrc)
  <2>1. \A ssrc : WithBlock(pack, ssrc).app = pack.app /\ WithSource(pack, ssrc).app = pack.app
    BY <1>0 DEF WithBlock, WithSource, CompoundPacks, Packs
  <2> QED
    BY <1>2, <1>7, <2>1 DEF AddReportBlock, AddSDESSource
<1>8. CASE \E len \in ItemLengths : AddSDESNormalItem(len) \/ AddSDESPrivateItem(len, len)
  <2>1. \A x : WithItem(pack, x).app = pack.app
    BY <1>0 DEF WithItem, CompoundPacks, Packs
  <2> QED
    BY <1>2, <1>8, <2>1 DEF AddSDESNormalItem, AddSDESPrivateItem
<1>9. CASE \E n \in 1..2, len \in Reasons : AddBYEPacket(n, len)
  <2>1. \A x : [pack EXCEPT !.bye = Append(@, x)].app = pack.app
    BY <1>0 DEF CompoundPacks, Packs
  <2> QED
    BY <1>2, <1>9, <2>1 DEF AddBYEPacket
<1>10. CASE \E len \in UnknownLengths : AddUnknownPacket(len)
  <2>1. \A x : [pack EXCEPT !.unknown = Append(@, x)].app = pack.app
    BY <1>0 DEF CompoundPacks, Packs
  <2> QED
    BY <1>2, <1>10, <2>1 DEF AddUnknownPacket
<1>11. CASE UNCHANGED compoundvars
  BY <1>11 DEF compoundvars
<1> QED
  BY <1>3, <1>4, <1>5, <1>6, <1>7, <1>8, <1>9, <1>10, <1>11 DEF CompoundNext

\* What is built can be parsed again: every packet is found at its place and in
\* a known format, and the report blocks and SDES chunks are in them in the order
\* in which they were added, however many packets they fill, if the data of the
\* unknown packets is whole words (RTCPCompoundPacketBuilder, RTCPCompoundPacket).
THEOREM ParsesSafe == CompoundSpec => []ParsesBack
<1>1. CompoundInit => SizeInv /\ APPInv /\ ParsesBack
  <2> SUFFICES ASSUME CompoundInit PROVE SizeInv /\ APPInv /\ ParsesBack
    OBVIOUS
  <2>1. pack.app = <<>> /\ built.app = <<>> /\ compound = <<>>
    BY DEF CompoundInit, EmptyPack
  <2>2. APPInv
    BY <2>1 DEF APPInv
  <2> QED
    BY <2>1, <2>2, SizeStart DEF ParsesBack
<1>2. SizeInv /\ APPInv /\ ParsesBack /\ [CompoundNext]_compoundvars
        => (SizeInv /\ APPInv /\ ParsesBack)'
  <2> SUFFICES ASSUME SizeInv, APPInv, ParsesBack, [CompoundNext]_compoundvars
               PROVE  (SizeInv /\ APPInv /\ ParsesBack)'
    OBVIOUS
  <2>1. SizeInv' /\ APPInv'
    BY SizeStep, APPStep
  <2>2. CASE EndBuildPacket
    <3>1. compound' = EndBuild(pack) /\ built' = pack /\ pack.report # "none"
      BY <2>2 DEF EndBuildPacket
    <3>2. pack \in Packs(Sources, {"normal", "private"}) /\ pack.app \in Seq(WholeWords)
      BY DEF SizeInv, CompoundPacks, APPInv
    <3>3. ASSUME \A i \in DOMAIN pack.unknown : pack.unknown[i] % 4 = 0
          PROVE  pack.unknown \in Seq(WholeWords)
      <4> DEFINE s == pack.unknown
      <4>1. s \in Seq(Nat)
        BY <3>2 DEF Packs
      <4>2. \A i \in DOMAIN s : s[i] % 4 = 0
        BY <3>3
      <4> HIDE DEF s
      <4>3. s \in [1..Len(s) -> WholeWords] /\ Len(s) \in Nat
        BY <4>1, <4>2 DEF WholeWords
      <4>4. s \in Seq(WholeWords)
        BY <4>3, SeqDef
      <4> QED
        BY <4>4 DEF s
    <3>4. (\A i \in DOMAIN pack.unknown : pack.unknown[i] % 4 = 0) =>
            /\ ParseData(EndBuild(pack))
            /\ \A i \in DOMAIN EndBuild(pack) : IsKnownFormat(EndBuild(pack)[i])
            /\ Contents(EndBuild(pack), {"SR", "RR"}) = pack.blocks
            /\ Contents(EndBuild(pack), {"SDES"}) = pack.sdes
      BY <3>1, <3>2, <3>3, PackParses
    <3>5. ParsesBack'
      BY <3>1, <3>4 DEF ParsesBack
    <3> QED
      BY <2>1, <3>5
  <2>3. CASE UNCHANGED <<compound, built>>
    BY <2>1, <2>3 DEF ParsesBack
  <2>4. EndBuildPacket \/ UNCHANGED <<compound, built>>
    BY DEF CompoundNext, compoundvars, InitBuild, InitBuildExternal, InitBuildWith, Adds,
       StartSenderReport, StartReceiverReport, AddReportBlock, AddSDESSource,
       AddSDESNormalItem, AddSDESPrivateItem, AddBYEPacket, AddAPPPacket, AddUnknownPacket
  <2> QED
    BY <2>2, <2>3, <2>4
<1> QED
  BY <1>1, <1>2, PTL DEF CompoundSpec

-----------------------------------------------------------------------------
(* The packet with our report and CNAME that the others start from          *)

Ids == ItemSet \cup {"cname"}
BuilderPacks == Packs(Range(Table), Ids)

\* The packet that has our report and CNAME only.
LEMMA StartShape ==
  ASSUME NEW usesr \in BOOLEAN, maxpacketsize \in Nat
  PROVE  LET p == StartPacket(usesr)
             kind == IF usesr THEN "SR" ELSE "RR"
             cname == [id |-> "cname", len |-> CNAMELength] IN
         /\ p \in BuilderPacks /\ p.max = maxpacketsize /\ p.report = kind /\ p.blocks = <<>>
         /\ p.sdes = <<[ssrc |-> Own, items |-> <<cname>>]>>
         /\ OtherBytes(p) = 0
<1> DEFINE kind == IF usesr THEN "SR" ELSE "RR"
           cname == [id |-> "cname", len |-> CNAMELength]
           T == Range(Table)
           p0 == EmptyPack(maxpacketsize)
           p1 == WithReport(p0, kind)
           p2 == WithSource(p1, Own)
           p3 == WithItem(p2, cname)
           chunk == [ssrc |-> Own, items |-> <<>>]
           full == [ssrc |-> Own, items |-> <<cname>>]
<1>1. kind \in {"SR", "RR"} /\ cname \in ItemsOf(Ids) /\ Own \in T
  BY BuilderAssumption DEF ItemsOf, Ids
<1>2. StartPacket(usesr) = p3
  BY DEF StartPacket
<1> HIDE DEF kind
<1>3. /\ p0 \in Packs(T, Ids) /\ p0.max = maxpacketsize /\ p0.blocks = <<>> /\ p0.sdes = <<>>
      /\ OtherBytes(p0) = 0
  BY EmptyRules
<1> HIDE DEF p0
<1>4. /\ p1 \in Packs(T, Ids) /\ p1.max = maxpacketsize /\ p1.report = kind /\ p1.blocks = <<>>
      /\ p1.sdes = <<>> /\ p1.bye = p0.bye /\ p1.app = p0.app /\ p1.unknown = p0.unknown
  <2>1. p1 = [p0 EXCEPT !.report = kind] /\ kind \in {"none", "SR", "RR"}
    BY <1>1 DEF WithReport
  <2> HIDE DEF p1
  <2> QED
    BY <1>3, <2>1, ChangedReport
<1> HIDE DEF p1
<1>5. chunk \in Chunks(T, Ids) /\ full \in Chunks(T, Ids) /\ Append(<<>>, chunk) = <<chunk>>
  BY <1>1 DEF Chunks
<1>6. p2 = [p1 EXCEPT !.sdes = <<chunk>>] /\ <<chunk>> \in Seq(Chunks(T, Ids))
  BY <1>4, <1>5 DEF WithSource, Packs
<1> HIDE DEF p2
<1>7. /\ p2 \in Packs(T, Ids) /\ p2.max = maxpacketsize /\ p2.report = kind /\ p2.blocks = <<>>
      /\ p2.sdes = <<chunk>> /\ p2.bye = p0.bye /\ p2.app = p0.app /\ p2.unknown = p0.unknown
  <2> DEFINE s == <<chunk>>
  <2> HIDE DEF s
  <2>1. p1 \in Packs(T, Ids) /\ s \in Seq(Chunks(T, Ids)) /\ p2 = [p1 EXCEPT !.sdes = s]
    BY <1>4, <1>6 DEF s
  <2>2. /\ p2 \in Packs(T, Ids) /\ p2.sdes = s /\ p2.max = p1.max /\ p2.report = p1.report
        /\ p2.blocks = p1.blocks /\ p2.app = p1.app /\ p2.unknown = p1.unknown
        /\ p2.bye = p1.bye
    BY <2>1, ChangedSDES
  <2> QED
    BY <1>4, <2>2 DEF s
<1>8. WithLonger(<<chunk>>, cname) = <<full>>
  <2>1. Append(chunk.items, cname) = <<cname>>
    OBVIOUS
  <2>2. [chunk EXCEPT !.items = Append(@, cname)] = full
    BY <2>1
  <2> DEFINE c == chunk
             f == full
  <2>3. WithLonger(<<c>>, cname) = <<f>>
    BY <2>2 DEF WithLonger
  <2> QED
    BY <2>3
<1>9. p3 = [p2 EXCEPT !.sdes = <<full>>] /\ <<full>> \in Seq(Chunks(T, Ids))
  <2>1. p3 = [p2 EXCEPT !.sdes = WithLonger(p2.sdes, cname)]
    BY <1>7 DEF WithItem, WithLonger, Packs
  <2> QED
    BY <2>1, <1>5, <1>7, <1>8
<1> HIDE DEF p3, full
<1>10. /\ p3 \in Packs(T, Ids) /\ p3.max = maxpacketsize /\ p3.report = kind /\ p3.blocks = <<>>
      /\ p3.sdes = <<full>> /\ p3.bye = p0.bye /\ p3.app = p0.app /\ p3.unknown = p0.unknown
  <2> DEFINE s == <<full>>
  <2> HIDE DEF s
  <2>1. p2 \in Packs(T, Ids) /\ s \in Seq(Chunks(T, Ids)) /\ p3 = [p2 EXCEPT !.sdes = s]
    BY <1>7, <1>9 DEF s
  <2>2. /\ p3 \in Packs(T, Ids) /\ p3.sdes = s /\ p3.max = p2.max /\ p3.report = p2.report
        /\ p3.blocks = p2.blocks /\ p3.app = p2.app /\ p3.unknown = p2.unknown
        /\ p3.bye = p2.bye
    BY <2>1, ChangedSDES
  <2> QED
    BY <1>7, <2>2 DEF s
<1>11. OtherBytes(p3) = OtherBytes(p0)
  BY <1>10 DEF OtherBytes
<1> QED
  BY <1>2, <1>3, <1>10, <1>11 DEF BuilderPacks, full, kind

\* An item, and a report block, fit into it.
LEMMA StartFits ==
  ASSUME NEW usesr \in BOOLEAN, maxpacketsize \in Sizes
  PROVE  /\ BlockFits(StartPacket(usesr))
         /\ \A item \in ItemSet : ItemFits(StartPacket(usesr), ItemLength[item])
<1> DEFINE p == StartPacket(usesr)
           cname == [id |-> "cname", len |-> CNAMELength]
           full == [ssrc |-> Own, items |-> <<cname>>]
           kind == IF usesr THEN "SR" ELSE "RR"
<1>1. /\ maxpacketsize \in Nat /\ maxpacketsize >= RTP_MINPACKETSIZE
      /\ RTP_MINPACKETSIZE \in Nat /\ CNAMELength \in Nat
      /\ \A item \in ItemSet : ItemLength[item] \in Nat
  BY BuilderAssumption DEF ItemSet
<1>2. /\ p \in BuilderPacks /\ p.max = maxpacketsize /\ p.report = kind /\ p.blocks = <<>>
      /\ p.sdes = <<full>> /\ OtherBytes(p) = 0
  BY <1>1, StartShape
<1>3. ItemSum(full.items) = 2 + CNAMELength
  <2>1. cname \in ItemsOf(Ids) /\ cname.len = CNAMELength /\ <<cname>> = Append(<<>>, cname)
        /\ <<>> \in Seq(ItemsOf(Ids))
    BY <1>1 DEF ItemsOf, Ids
  <2>2. ItemSum(Append(<<>>, cname)) = ItemSum(<<>>) + SDESHeader + cname.len
    BY <2>1, ItemRules
  <2>3. ItemSum(<<>>) = 0
    BY ItemRules
  <2> QED
    BY <1>1, <2>1, <2>2, <2>3 DEF SDESHeader
<1>4. full \in Chunks(Range(Table), Ids)
  BY <1>1, BuilderAssumption DEF Chunks, ItemsOf, Ids
<1> HIDE DEF full, p, kind
<1>5. SDESSource_NeededBytes(full) = Aligned(2 + CNAMELength + 1) + 4
  <2>1. SDESSource_NeededBytes(full) = Aligned(ItemSum(full.items) + 1) + Word
    BY Sums
  <2> QED
    BY <1>3, <2>1 DEF Word
<1>6. /\ Len(<<full>>) = 1 /\ Front(<<full>>) = <<>> /\ Last(<<full>>) = full
      /\ <<full>> = Append(<<>>, full) /\ <<>> \in Seq(Chunks(Range(Table), Ids))
  BY DEF Front, Last
<1>7. ChunkSum(<<full>>) = SDESSource_NeededBytes(full) /\ ChunkSum(<<>>) = 0
  <2>0. \A s \in Seq(Chunks(Range(Table), Ids)), x \in Chunks(Range(Table), Ids) :
          ChunkSum(Append(s, x)) = ChunkSum(s) + SDESSource_NeededBytes(x)
    BY ChunkRules
  <2>1. ChunkSum(Append(<<>>, full)) = ChunkSum(<<>>) + SDESSource_NeededBytes(full)
    BY <1>4, <1>6, <2>0, Zenon
  <2>2. ChunkSum(<<>>) = 0 /\ SDESSource_NeededBytes(full) \in Nat
    BY <1>4, ChunkRules
  <2> QED
    BY <1>6, <2>1, <2>2
<1>8. PacketsFor(1) = 1
  BY CompoundAssumption DEF PacketsFor
<1>9. SDES_NeededBytes(p) = Aligned(2 + CNAMELength + 1) + 8
  <2>1. SDES_NeededBytes(p) = ChunkSum(p.sdes) + PacketsFor(Len(p.sdes)) * CommonHeader
    BY Sums
  <2>2. Aligned(2 + CNAMELength + 1) \in Nat
    BY <1>1, AlignedNat
  <2> QED
    BY <1>2, <1>5, <1>6, <1>7, <1>8, <2>1, <2>2 DEF CommonHeader
<1>10. /\ Aligned(2 + CNAMELength + 1) \in Nat
       /\ 36 + Aligned(2 + CNAMELength + 1) + 32 <= RTP_MINPACKETSIZE
       /\ \A item \in ItemSet :
            36 + Aligned(2 + CNAMELength + 1 + 2 + ItemLength[item]) <= RTP_MINPACKETSIZE
  <2>1. Aligned(2 + CNAMELength + 1) \in Nat
    BY <1>1, AlignedNat
  <2> QED
    BY <1>1, <2>1, MinimumAssumption, ReportRules DEF CommonHeader, Word, SDESHeader, ReportBlock, ItemSet
<1>11. BlockFits(p)
  <2>1. Report_NeededBytesWithExtraReportBlock(p) = 24 + 8 + (IF kind = "SR" THEN 20 ELSE 0)
    <3>1. Report_NeededBytesWithExtraReportBlock(p) = ReportNeeds(kind, 1)
      BY <1>2 DEF Report_NeededBytesWithExtraReportBlock
    <3>2. ReportNeeds(kind, 1) =
            1 * ReportBlock + PacketsFor(1) * ReportHeader("RR")
              + (IF kind = "SR" THEN SenderReport ELSE 0)
      BY DEF ReportNeeds
    <3> QED
      BY <1>8, <3>1, <3>2, ReportRules DEF ReportBlock, SenderReport
  <2>2. OtherBytes(p) + SDES_NeededBytes(p) + Report_NeededBytesWithExtraReportBlock(p)
          <= maxpacketsize
    BY <1>1, <1>2, <1>9, <1>10, <2>1
  <2> QED
    BY <1>2, <2>2 DEF BlockFits
<1>12. ASSUME NEW item \in ItemSet
       PROVE  ItemFits(p, ItemLength[item])
  <2> DEFINE len == ItemLength[item]
  <2>1. len \in Nat
    BY <1>1
  <2>2. Report_NeededBytes(p) = ReportHeader(kind) /\ ReportHeader(kind) \in {8, 28}
    <3>1. Len(<<>>) = 0 /\ kind \in {"SR", "RR"}
      BY DEF kind
    <3> QED
      BY <3>1, <1>2, ReportRules DEF Report_NeededBytes
  <2> DEFINE aligned == Aligned(2 + CNAMELength + 1 + 2 + len)
  <2>3. aligned \in Nat /\ 36 + aligned <= RTP_MINPACKETSIZE
    BY <1>1, <1>10, AlignedNat
  <2>4. SDESSource_NeededBytesWithExtraItem(full, len) = aligned + 4
    <3>1. SDESSource_NeededBytesWithExtraItem(full, len) =
            Aligned(ItemSum(full.items) + SDESHeader + len + 1) + Word
      BY Sums
    <3>2. ItemSum(full.items) + SDESHeader + len + 1 = 2 + CNAMELength + 1 + 2 + len
      BY <1>1, <1>3, <2>1 DEF SDESHeader
    <3> QED
      BY <3>1, <3>2 DEF Word
  <2> HIDE DEF aligned, len
  <2>5. SDES_NeededBytesWithExtraItem(p, len) = aligned + 8
    <3>1. SDES_NeededBytesWithExtraItem(p, len) =
            ChunkSum(Front(p.sdes)) + SDESSource_NeededBytesWithExtraItem(Last(p.sdes), len)
              + PacketsFor(Len(p.sdes)) * CommonHeader
      BY Sums
    <3> QED
      BY <1>2, <1>6, <1>7, <1>8, <2>3, <2>4, <3>1 DEF CommonHeader
  <2>6. OtherBytes(p) + Report_NeededBytes(p) + SDES_NeededBytesWithExtraItem(p, len)
          <= maxpacketsize
    BY <1>1, <1>2, <2>2, <2>3, <2>5
  <2> QED
    BY <1>2, <2>6 DEF ItemFits, len
<1> QED
  BY <1>11, <1>12 DEF p

-----------------------------------------------------------------------------
(* Filling a packet with report blocks *)

Fills ==
  [pack : BuilderPacks, processed : SUBSET Range(Table), maxcount : Nat, added : Nat,
   skipped : Nat, full : BOOLEAN]

\* The fields of a fill are changed one by one.
FillsOf(P, T, N, B) ==
  [pack : P, processed : T, maxcount : N, added : N, skipped : N, full : B]

\* They can be changed one by one.
LEMMA FillsChanged ==
  ASSUME NEW P, NEW T, NEW N, NEW B, NEW f \in FillsOf(P, T, N, B),
         NEW q \in P, NEW d \in T, NEW n \in N, NEW b \in B
  PROVE  /\ [f EXCEPT !.skipped = n] \in FillsOf(P, T, N, B)
         /\ [f EXCEPT !.full = b] \in FillsOf(P, T, N, B)
         /\ [f EXCEPT !.pack = q, !.added = n, !.processed = d] \in FillsOf(P, T, N, B)
BY DEF FillsOf

\* A turn leaves them what they are.
LEMMA VisitSourceType ==
  ASSUME NEW fill \in Fills, NEW s \in Range(Table)
  PROVE  VisitSource(fill, s) \in Fills
<1> DEFINE q == WithBlock(fill.pack, s)
<1>1. /\ fill.pack \in BuilderPacks /\ fill.processed \in SUBSET Range(Table)
      /\ fill.added + 1 \in Nat /\ fill.skipped + 1 \in Nat
      /\ fill.processed \cup {s} \in SUBSET Range(Table)
  BY DEF Fills
<1>2. BlockFits(fill.pack) => q \in BuilderPacks
  BY <1>1, AddBlock DEF BuilderPacks
<1>3. Fills = FillsOf(BuilderPacks, SUBSET Range(Table), Nat, BOOLEAN)
  BY DEF Fills, FillsOf
<1> HIDE DEF Fills
<1>4. [fill EXCEPT !.skipped = @ + 1] \in Fills /\ [fill EXCEPT !.full = TRUE] \in Fills
  BY <1>1, <1>3, FillsChanged, Zenon
<1>5. q \in BuilderPacks =>
        [fill EXCEPT !.pack = q, !.added = @ + 1, !.processed = @ \cup {s}] \in Fills
  <2> HIDE DEF q
  <2> QED
    BY <1>1, <1>3, FillsChanged, Zenon
<1> QED
  BY <1>2, <1>4, <1>5, Zenon DEF VisitSource

\* A turn after the other.
LEMMA SourceRuns ==
  ASSUME NEW base \in Fills
  PROVE  \E h \in [0..Len(Table) -> Fills] :
           /\ h[0] = base /\ h[Len(Table)] = FoldLeft(VisitSource, base, Table)
           /\ \A k \in 1..Len(Table) : h[k] = VisitSource(h[k - 1], Table[k])
<1> DEFINE n == Len(Table)
           E == Range(Table)
           g == [p \in Fills \X E |-> VisitSource(p[1], p[2])]
           Iter(it) == [S \in SUBSET (1..n) |->
                          IF S = {} THEN base
                          ELSE VisitSource(it[S \ {Max(S)}], Table[Max(S)])]
           It == CHOOSE it : it = Iter(it)
           h == [k \in 0..n |-> It[1..k]]
<1>0. n \in Nat /\ DOMAIN Table = 1..n /\ Table \in [1..n -> E]
  BY BuilderAssumption
<1>1. FoldLeft(VisitSource, base, Table) = It[1..n]
  BY <1>0 DEF FoldLeft, MapThenFoldSet
<1>2. g \in [Fills \X E -> Fills] /\ \A a \in Fills, b \in E : g[<<a, b>>] = VisitSource(a, b)
  BY VisitSourceType
<1> HIDE DEF g, n, E
<1>3. PICK G \in [SUBSET (1..n) -> Fills] : Folds(G, g, base, Table, n)
  BY <1>0, <1>2, FoldExists
<1>4. G = Iter(G)
  <2>1. ASSUME NEW S \in SUBSET (1..n)
        PROVE  G[S] = IF S = {} THEN base ELSE VisitSource(G[S \ {Max(S)}], Table[Max(S)])
    <3>1. S # {} => Table[Max(S)] \in E
      BY <1>0, MaxIn
    <3>2. G[S \ {Max(S)}] \in Fills
      OBVIOUS
    <3>3. G[S] = IF S = {} THEN base ELSE g[<<G[S \ {Max(S)}], Table[Max(S)]>>]
      BY <1>3 DEF Folds
    <3> QED
      BY <1>2, <3>1, <3>2, <3>3
  <2> QED
    BY <2>1
<1> HIDE DEF Iter
<1>5. It = Iter(It)
  BY <1>4
<1> HIDE DEF It
<1>6. \A S \in SUBSET (1..n) :
        It[S] = IF S = {} THEN base ELSE VisitSource(It[S \ {Max(S)}], Table[Max(S)])
  BY <1>5 DEF Iter
<1>7. h[0] = base
  <2>1. 1..0 = {} /\ {} \in SUBSET (1..n) /\ 0 \in 0..n
    BY <1>0
  <2> QED
    BY <2>1, <1>6
<1>8. ASSUME NEW k \in 1..n PROVE h[k] = VisitSource(h[k - 1], Table[k])
  <2>1. It[1..k] = VisitSource(It[1..(k - 1)], Table[k])
    BY <1>0, <1>6, Upto
  <2>2. k \in 0..n /\ k - 1 \in 0..n
    BY <1>0
  <2> QED
    BY <2>1, <2>2
<1>9. h[n] = It[1..n] /\ h = [k \in 0..n |-> h[k]]
  BY <1>0
<1> HIDE DEF h
<1>10. h \in [0..n -> Fills]
  <2> DEFINE A == {k \in 0..n : h[k] \in Fills}
  <2>1. 0 \in A
    BY <1>0, <1>7
  <2>2. \A k \in 0..n : k < n /\ k \in A => k + 1 \in A
    <3> TAKE k \in 0..n
    <3> HAVE k < n /\ k \in A
    <3>1. k + 1 \in 1..n /\ k + 1 \in 0..n /\ k + 1 - 1 = k
      BY <1>0
    <3>2. h[k + 1] = VisitSource(h[k], Table[k + 1]) /\ Table[k + 1] \in E
      BY <1>0, <1>8, <3>1
    <3> QED
      BY <3>1, <3>2, VisitSourceType DEF E
  <2> HIDE DEF A
  <2>3. 0..n \subseteq A
    BY <2>1, <2>2, <1>0, Climb
  <2> QED
    BY <2>3, <1>9 DEF A
<1> QED
  BY <1>1, <1>7, <1>8, <1>9, <1>10 DEF n

\* The first block that is to be reported fits, if one fits at all.
LEMMA FirstBlock ==
  ASSUME NEW p \in BuilderPacks, NEW flagged \in SUBSET Range(Table), NEW maxcount \in Nat,
         BlockFits(p)
  PROVE  LET fill == FillInReportBlocks(p, flagged, maxcount) IN fill.full => fill.added > 0
<1> DEFINE base == [pack |-> p, processed |-> flagged, maxcount |-> maxcount, added |-> 0,
                    skipped |-> 0, full |-> FALSE]
           n == Len(Table)
<1>0. n \in Nat /\ DOMAIN Table = 1..n /\ \A k \in 1..n : Table[k] \in Range(Table)
  BY BuilderAssumption
<1>1. base \in Fills /\ base.pack = p /\ base.added = 0 /\ base.full = FALSE
  BY DEF Fills
<1>2. FillInReportBlocks(p, flagged, maxcount) = FoldLeft(VisitSource, base, Table)
  BY DEF FillInReportBlocks
<1> HIDE DEF base
<1>3. PICK h \in [0..n -> Fills] :
           /\ h[0] = base /\ h[n] = FoldLeft(VisitSource, base, Table)
           /\ \A k \in 1..n : h[k] = VisitSource(h[k - 1], Table[k])
  BY <1>1, SourceRuns
<1> HIDE DEF n
<1> DEFINE Good(f) == f.added > 0 \/ (f.pack = p /\ f.full = FALSE)
<1>4. ASSUME NEW f \in Fills, NEW s \in Range(Table), Good(f)
      PROVE  Good(VisitSource(f, s))
  <2>1. f.added \in Nat /\ [f EXCEPT !.skipped = @ + 1].added = f.added
        /\ [f EXCEPT !.skipped = @ + 1].pack = f.pack /\ [f EXCEPT !.skipped = @ + 1].full = f.full
        /\ [f EXCEPT !.full = TRUE].added = f.added
        /\ [f EXCEPT !.pack = WithBlock(@, s), !.added = @ + 1,
                    !.processed = @ \cup {s}].added = f.added + 1
        /\ f.added + 1 > 0
    BY DEF Fills
  <2>2. CASE f.full \/ f.added >= f.maxcount \/ ~ShouldProcess(s)
    BY <1>4, <2>2 DEF VisitSource
  <2>3. CASE ~(f.full \/ f.added >= f.maxcount \/ ~ShouldProcess(s)) /\ s \in f.processed
    <3>1. VisitSource(f, s) = [f EXCEPT !.skipped = @ + 1]
      BY <2>3, Zenon DEF VisitSource
    <3> QED
      BY <1>4, <2>1, <3>1, Zenon
  <2>4. CASE /\ ~(f.full \/ f.added >= f.maxcount \/ ~ShouldProcess(s)) /\ s \notin f.processed
             /\ ~BlockFits(f.pack)
    <3>1. VisitSource(f, s) = [f EXCEPT !.full = TRUE]
      BY <2>4, Zenon DEF VisitSource
    <3>2. f.pack # p
      BY <2>4
    <3> QED
      BY <1>4, <2>1, <3>1, <3>2, Zenon
  <2>5. CASE /\ ~(f.full \/ f.added >= f.maxcount \/ ~ShouldProcess(s)) /\ s \notin f.processed
             /\ BlockFits(f.pack)
    <3>1. VisitSource(f, s) = [f EXCEPT !.pack = WithBlock(@, s), !.added = @ + 1,
                    !.processed = @ \cup {s}]
      BY <2>5, Zenon DEF VisitSource
    <3>2. VisitSource(f, s).added = f.added + 1
      BY <2>1, <3>1, Zenon
    <3> QED
      BY <2>1, <3>2, Zenon
  <2> QED
    BY <2>2, <2>3, <2>4, <2>5
<1> DEFINE A == {k \in 0..n : Good(h[k])}
<1> HIDE DEF Good
<1>5. 0 \in A
  BY <1>0, <1>1, <1>3 DEF Good
<1>6. \A k \in 0..n : k < n /\ k \in A => k + 1 \in A
  <2> TAKE k \in 0..n
  <2> HAVE k < n /\ k \in A
  <2>1. k + 1 \in 1..n /\ k + 1 \in 0..n /\ k + 1 - 1 = k
    BY <1>0
  <2>2. h[k + 1] = VisitSource(h[k], Table[k + 1]) /\ h[k] \in Fills /\ Table[k + 1] \in Range(Table)
    BY <1>0, <1>3, <2>1
  <2>3. Good(h[k])
    OBVIOUS
  <2>4. Good(h[k + 1])
    BY <1>4, <2>2, <2>3
  <2> QED
    BY <2>1, <2>4
<1> HIDE DEF A
<1>7. 0..n \subseteq A
  BY <1>0, <1>5, <1>6, Climb
<1>8. n \in A
  BY <1>0, <1>7
<1>9. Good(h[n])
  BY <1>8 DEF A
<1> QED
  BY <1>2, <1>3, <1>9 DEF Good

-----------------------------------------------------------------------------
(* Filling a packet with SDES items *)

\* How often an item is in a packet's chunk.
Count(p, item) == Cardinality({i \in DOMAIN p.sdes[1].items : p.sdes[1].items[i].id = item})

OneChunk == {p \in BuilderPacks : Len(p.sdes) = 1}

\* An item goes to the end of the only chunk.
LEMMA ItemAdded ==
  ASSUME NEW p \in OneChunk, NEW x \in ItemsOf(Ids)
  PROVE  LET q == WithItem(p, x) IN
         /\ q \in OneChunk /\ q.blocks = p.blocks
         /\ q.sdes[1].items = Append(p.sdes[1].items, x)
<1> DEFINE q == WithItem(p, x)
           t == WithLonger(p.sdes, x)
           S == Range(Table)
<1>1. p \in Packs(S, Ids) /\ p.sdes \in Seq(Chunks(S, Ids)) /\ Len(p.sdes) = 1 /\ p.sdes # <<>>
  <2>1. p \in Packs(S, Ids) /\ Len(p.sdes) = 1
    BY DEF OneChunk, BuilderPacks
  <2>2. p.sdes # <<>>
    BY <2>1
  <2> HIDE DEF S
  <2> QED
    BY <2>1, <2>2 DEF Packs
<1> HIDE DEF S
<1>2. t \in Seq(Chunks(S, Ids)) /\ Len(t) = 1
  <2>1. /\ t \in Seq(Chunks(S, Ids)) /\ Len(t) = Len(p.sdes)
        /\ t = Append(Front(p.sdes), Longer(p.sdes, x))
    <3> DEFINE s == p.sdes
    <3>1. s \in Seq(Chunks(S, Ids)) /\ s # <<>>
      BY <1>1
    <3> HIDE DEF s
    <3>2. /\ WithLonger(s, x) \in Seq(Chunks(S, Ids)) /\ Len(WithLonger(s, x)) = Len(s)
          /\ WithLonger(s, x) = Append(Front(s), Longer(s, x))
      BY <3>1, LastItem
    <3> QED
      BY <3>2 DEF s
  <2> QED
    BY <1>1, <2>1
<1>3. t[1].items = Append(p.sdes[1].items, x)
  <2> DEFINE c == p.sdes[1]
             d == [c EXCEPT !.items = Append(@, x)]
  <2>1. c \in Chunks(S, Ids) /\ DOMAIN p.sdes = 1..1
    BY <1>1
  <2>2. t = [p.sdes EXCEPT ![1] = d]
    BY <1>1 DEF WithLonger
  <2> HIDE DEF d
  <2>3. t[1] = d
    BY <2>1, <2>2
  <2> HIDE DEF c
  <2>4. d.items = Append(c.items, x)
    BY <2>1 DEF d, Chunks
  <2> QED
    BY <2>3, <2>4 DEF c
<1>4. q = [p EXCEPT !.sdes = t]
  BY DEF WithItem, WithLonger
<1> HIDE DEF t, q
<1>5. q \in Packs(S, Ids) /\ q.sdes = t /\ q.blocks = p.blocks
  BY <1>1, <1>2, <1>4, ChangedSDES
<1> QED
  BY <1>2, <1>3, <1>5 DEF q, OneChunk, BuilderPacks, S

\* An item more counts for its kind.
LEMMA CountAdded ==
  ASSUME NEW p \in OneChunk, NEW x \in ItemsOf(Ids), NEW item
  PROVE  /\ Count(p, item) \in Nat
         /\ Count(WithItem(p, x), item) = Count(p, item) + (IF x.id = item THEN 1 ELSE 0)
<1> DEFINE s == p.sdes[1].items
           t == Append(s, x)
           n == Len(s)
           A == {i \in DOMAIN s : s[i].id = item}
           B == {i \in DOMAIN t : t[i].id = item}
<1>1. s \in Seq(ItemsOf(Ids))
  <2>1. p.sdes \in Seq(Chunks(Range(Table), Ids)) /\ Len(p.sdes) = 1
    BY DEF OneChunk, BuilderPacks, Packs
  <2>2. p.sdes[1] \in Chunks(Range(Table), Ids)
    BY <2>1
  <2> QED
    BY <2>2 DEF Chunks
<1>2. WithItem(p, x).sdes[1].items = t
  BY ItemAdded
<1>3. Count(p, item) = Cardinality(A) /\ Count(WithItem(p, x), item) = Cardinality(B)
  BY <1>2 DEF Count
<1> HIDE DEF s
<1>4. n \in Nat /\ DOMAIN s = 1..n /\ DOMAIN t = 1..(n + 1) /\ t[n + 1] = x
      /\ \A i \in 1..n : t[i] = s[i]
  BY <1>1
<1>5. IsFiniteSet(A) /\ Cardinality(A) \in Nat /\ n + 1 \notin A
  <2>1. A \subseteq 1..n /\ n + 1 \notin 1..n
    BY <1>4
  <2> HIDE DEF A
  <2>2. IsFiniteSet(1..n)
    <3>1. 1 \in Int /\ n \in Int
      BY <1>4
    <3> QED
      BY <3>1, FS_Interval, Zenon
  <2>3. IsFiniteSet(A)
    BY <2>1, <2>2, FS_Subset
  <2> QED
    BY <2>1, <2>3, FS_CardinalityType
<1>6. B = IF x.id = item THEN A \cup {n + 1} ELSE A
  <2>1. \A i : i \in 1..(n + 1) <=> i \in 1..n \/ i = n + 1
    BY <1>4
  <2>2. n + 1 \notin 1..n
    BY <1>4
  <2> HIDE DEF t, n
  <2> QED
    BY <1>4, <2>1, <2>2
<1> HIDE DEF A, B, t, n
<1>7. Cardinality(A \cup {n + 1}) = Cardinality(A) + 1
  BY <1>5, FS_AddElement
<1> QED
  BY <1>3, <1>5, <1>6, <1>7

ItemFills == [pack : OneChunk, processed : SUBSET ItemSet, full : BOOLEAN]

ItemFillsOf(P, T, B) == [pack : P, processed : T, full : B]

\* What a turn does with an item.
LEMMA VisitItemCases ==
  ASSUME NEW due \in SUBSET ItemSet, NEW f \in ItemFills, NEW item \in ItemSet
  PROVE  LET g == VisitItem(due, f, item)
             x == [id |-> item, len |-> ItemLength[item]] IN
         /\ g \in ItemFills /\ x \in ItemsOf(Ids) /\ x.id = item
         /\ (f.full \/ item \notin due \/ item \in f.processed) => g = f
         /\ ~(f.full \/ item \notin due \/ item \in f.processed) =>
              IF ItemFits(f.pack, ItemLength[item])
              THEN /\ g.pack = WithItem(f.pack, x) /\ g.processed = f.processed \cup {item}
                   /\ g.full = f.full
              ELSE g.pack = f.pack /\ g.processed = f.processed /\ g.full = TRUE
<1> DEFINE g == VisitItem(due, f, item)
           x == [id |-> item, len |-> ItemLength[item]]
           q == WithItem(f.pack, x)
           d == f.processed \cup {item}
<1>1. x \in ItemsOf(Ids) /\ x.id = item
  <2>1. ItemLength[item] \in Nat /\ item \in Ids
    BY BuilderAssumption DEF ItemSet, Ids
  <2> QED
    BY <2>1 DEF ItemsOf
<1>2. f.pack \in OneChunk /\ f.processed \in SUBSET ItemSet /\ f.full \in BOOLEAN /\ d \in SUBSET ItemSet
  BY DEF ItemFills
<1> HIDE DEF x
<1>3. q \in OneChunk
  BY <1>1, <1>2, ItemAdded
<1>4. ItemFills = ItemFillsOf(OneChunk, SUBSET ItemSet, BOOLEAN)
  BY DEF ItemFills, ItemFillsOf
<1>5. /\ (f.full \/ item \notin due \/ item \in f.processed) => g = f
      /\ ~(f.full \/ item \notin due \/ item \in f.processed) =>
           g = IF ItemFits(f.pack, ItemLength[item])
               THEN [f EXCEPT !.pack = q, !.processed = d]
               ELSE [f EXCEPT !.full = TRUE]
  BY Zenon DEF VisitItem, x
<1> HIDE DEF ItemFills, q, d, g
<1> DEFINE P == OneChunk
           T == SUBSET ItemSet
           B == BOOLEAN
           b == TRUE
<1>6. f \in ItemFillsOf(P, T, B) /\ q \in P /\ d \in T /\ b \in B
  BY <1>2, <1>3, <1>4
<1> HIDE DEF P, T, B, b
<1>7. /\ [f EXCEPT !.full = b] \in ItemFillsOf(P, T, B) /\ [f EXCEPT !.full = b].full = b
      /\ [f EXCEPT !.full = b].pack = f.pack
      /\ [f EXCEPT !.full = b].processed = f.processed
      /\ [f EXCEPT !.pack = q, !.processed = d] \in ItemFillsOf(P, T, B)
      /\ [f EXCEPT !.pack = q, !.processed = d].pack = q
      /\ [f EXCEPT !.pack = q, !.processed = d].processed = d
      /\ [f EXCEPT !.pack = q, !.processed = d].full = f.full
  BY <1>6 DEF ItemFillsOf
<1> USE DEF P, T, B, b
<1>8. /\ [f EXCEPT !.full = TRUE] \in ItemFills /\ [f EXCEPT !.full = TRUE].full = TRUE
      /\ [f EXCEPT !.full = TRUE].pack = f.pack
      /\ [f EXCEPT !.full = TRUE].processed = f.processed
      /\ [f EXCEPT !.pack = q, !.processed = d] \in ItemFills
  BY <1>4, <1>7, Zenon
<1>9. g \in ItemFills
  BY <1>5, <1>7, <1>8, Zenon
<1>10. ~(f.full \/ item \notin due \/ item \in f.processed) =>
              IF ItemFits(f.pack, ItemLength[item])
              THEN g.pack = q /\ g.processed = d /\ g.full = f.full
              ELSE g.pack = f.pack /\ g.processed = f.processed /\ g.full = TRUE
  BY <1>5, <1>7, <1>8, Zenon
<1> QED
  BY <1>1, <1>5, <1>9, <1>10, Zenon DEF g, q, d, x

\* The items sent in the first k turns of filling p.
Filled(f, p, due, flagged, k) ==
  /\ flagged \subseteq f.processed /\ f.processed \ flagged \subseteq due
  /\ f.full => \E item \in due : item \notin f.processed
  /\ ~f.full => \A j \in 1..k : Items[j] \in due => Items[j] \in f.processed
  /\ f.pack.blocks = p.blocks
  /\ \A item \in ItemSet :
       Count(f.pack, item) = Count(p, item) + (IF item \in f.processed \ flagged THEN 1 ELSE 0)
  /\ f.processed = flagged =>
       /\ f.pack = p
       /\ f.full => \E item \in due \ flagged : ~ItemFits(p, ItemLength[item])

\* A turn more.
LEMMA FilledStep ==
  ASSUME NEW due \in SUBSET ItemSet, NEW flagged \in SUBSET ItemSet, NEW p \in OneChunk,
         NEW f \in ItemFills, NEW k \in Nat, k + 1 \in 1..Len(Items), Filled(f, p, due, flagged, k)
  PROVE  Filled(VisitItem(due, f, Items[k + 1]), p, due, flagged, k + 1)
<1> DEFINE item == Items[k + 1]
           g == VisitItem(due, f, item)
           x == [id |-> item, len |-> ItemLength[item]]
<1>1. item \in ItemSet /\ \A j \in 1..(k + 1) : j = k + 1 \/ j \in 1..k
  BY BuilderAssumption DEF ItemSet
<1>2. f.pack \in OneChunk
  BY DEF ItemFills
<1>3. /\ flagged \subseteq f.processed /\ f.processed \ flagged \subseteq due
      /\ f.full => \E i \in due : i \notin f.processed
      /\ ~f.full => \A j \in 1..k : Items[j] \in due => Items[j] \in f.processed
      /\ f.pack.blocks = p.blocks
      /\ \A i \in ItemSet :
           Count(f.pack, i) = Count(p, i) + (IF i \in f.processed \ flagged THEN 1 ELSE 0)
      /\ f.processed = flagged =>
           /\ f.pack = p
           /\ f.full => \E i \in due \ flagged : ~ItemFits(p, ItemLength[i])
  BY DEF Filled
<1> HIDE DEF item
<1>4. /\ g \in ItemFills /\ x \in ItemsOf(Ids) /\ x.id = item
      /\ (f.full \/ item \notin due \/ item \in f.processed) => g = f
      /\ ~(f.full \/ item \notin due \/ item \in f.processed) =>
           IF ItemFits(f.pack, ItemLength[item])
           THEN /\ g.pack = WithItem(f.pack, x) /\ g.processed = f.processed \cup {item}
                /\ g.full = f.full
           ELSE g.pack = f.pack /\ g.processed = f.processed /\ g.full = TRUE
  BY <1>1, VisitItemCases, Zenon
<1> HIDE DEF g, x
<1>5. ~f.full /\ (item \in due => item \in f.processed) =>
        \A j \in 1..(k + 1) : Items[j] \in due => Items[j] \in f.processed
  BY <1>1, <1>3 DEF item
<1>6. CASE f.full \/ item \notin due \/ item \in f.processed
  <2>1. g = f
    BY <1>4, <1>6, Zenon
  <2>2. ~f.full => \A j \in 1..(k + 1) : Items[j] \in due => Items[j] \in f.processed
    BY <1>5, <1>6, Zenon
  <2> QED
    BY <1>3, <2>1, <2>2, Zenon DEF Filled, g, item
<1>7. CASE ~(f.full \/ item \notin due \/ item \in f.processed) /\ ItemFits(f.pack, ItemLength[item])
  <2>1. g.pack = WithItem(f.pack, x) /\ g.processed = f.processed \cup {item} /\ g.full = f.full
    BY <1>4, <1>7, Zenon
  <2>2. \A i \in ItemSet : Count(g.pack, i) = Count(f.pack, i) + (IF i = item THEN 1 ELSE 0)
    <3> TAKE i \in ItemSet
    <3> QED
      BY <1>2, <1>4, <2>1, CountAdded
  <2>3. \A i \in ItemSet : Count(p, i) \in Nat
    BY <1>4, CountAdded
  <2>4. ASSUME NEW i \in ItemSet
        PROVE  Count(g.pack, i) = Count(p, i) + (IF i \in g.processed \ flagged THEN 1 ELSE 0)
    <3>1. Count(f.pack, i) = Count(p, i) + (IF i \in f.processed \ flagged THEN 1 ELSE 0)
      BY <1>3
    <3>2. Count(g.pack, i) = Count(f.pack, i) + (IF i = item THEN 1 ELSE 0)
      BY <2>2
    <3>3. Count(p, i) \in Nat
      BY <2>3
    <3>4. i \in g.processed \ flagged <=> i = item \/ i \in f.processed \ flagged
      BY <1>3, <1>7, <2>1
    <3>5. i = item => i \notin f.processed
      BY <1>7
    <3> QED
      BY <3>1, <3>2, <3>3, <3>4, <3>5
  <2>5. g.processed # flagged /\ flagged \subseteq g.processed /\ g.processed \ flagged \subseteq due
    BY <1>3, <1>7, <2>1
  <2>6. \A j \in 1..(k + 1) : Items[j] \in due => Items[j] \in g.processed
    BY <1>1, <1>3, <1>7, <2>1 DEF item
  <2>7. ~g.full
    BY <1>7, <2>1
  <2>8. g.pack.blocks = p.blocks
    BY <1>2, <1>3, <1>4, <2>1, ItemAdded
  <2> QED
    BY <2>4, <2>5, <2>6, <2>7, <2>8, Zenon DEF Filled, g, item
<1>8. CASE ~(f.full \/ item \notin due \/ item \in f.processed) /\ ~ItemFits(f.pack, ItemLength[item])
  <2>1. g.pack = f.pack /\ g.processed = f.processed /\ g.full = TRUE
    BY <1>4, <1>8, Zenon
  <2>2. f.processed = flagged => \E i \in due \ flagged : ~ItemFits(p, ItemLength[i])
    BY <1>1, <1>3, <1>8
  <2>3. \E i \in due : i \notin g.processed
    BY <1>8, <2>1
  <2>4. Filled(g, p, due, flagged, k + 1)
    BY <1>3, <2>1, <2>2, <2>3, Zenon DEF Filled
  <2> QED
    BY <2>4 DEF g, item
<1> QED
  BY <1>6, <1>7, <1>8

\* What FillInSDES has done.
SDESRules(sdes, p, due, flagged) ==
  /\ sdes \in ItemFills
  /\ flagged \subseteq sdes.processed /\ sdes.processed \ flagged \subseteq due
  /\ sdes.full => \E item \in due : item \notin sdes.processed
  /\ ~sdes.full => due \subseteq sdes.processed
  /\ sdes.pack.blocks = p.blocks
  /\ \A item \in ItemSet :
       Count(sdes.pack, item) =
         Count(p, item) + (IF item \in sdes.processed \ flagged THEN 1 ELSE 0)
  /\ sdes.processed = flagged /\ sdes.full =>
       \E item \in due \ flagged : ~ItemFits(p, ItemLength[item])

\* FillInSDES comes to that.
LEMMA SDESFilled ==
  ASSUME NEW p \in OneChunk, NEW due \in SUBSET ItemSet, NEW flagged \in SUBSET ItemSet
  PROVE  SDESRules(FillInSDES(p, due, flagged), p, due, flagged)
<1> DEFINE n == Len(Items)
           base == [pack |-> p, processed |-> flagged, full |-> FALSE]
           g == [q \in ItemFills \X ItemSet |-> VisitItem(due, q[1], q[2])]
           Iter(it) == [S \in SUBSET (1..n) |->
                          IF S = {} THEN base
                          ELSE VisitItem(due, it[S \ {Max(S)}], Items[Max(S)])]
           It == CHOOSE it : it = Iter(it)
<1>0. n \in Nat /\ DOMAIN Items = 1..n /\ Items \in [1..n -> ItemSet] /\ ItemSet = {Items[j] : j \in 1..n}
  <2>1. Items \in Seq(Range(Items))
    BY BuilderAssumption
  <2>2. n \in Nat /\ DOMAIN Items = 1..n /\ Items \in [1..n -> Range(Items)]
    BY <2>1
  <2>3. Range(Items) = {Items[j] : j \in 1..n}
    BY <2>2 DEF Range
  <2> QED
    BY <2>2, <2>3 DEF ItemSet
<1>1. FillInSDES(p, due, flagged) = It[1..n]
  BY <1>0 DEF FillInSDES, FoldLeft, MapThenFoldSet
<1>2. base \in ItemFills /\ base.pack = p /\ base.processed = flagged /\ base.full = FALSE
  BY DEF ItemFills
<1>3. \A a \in ItemFills, b \in ItemSet : VisitItem(due, a, b) \in ItemFills
  BY VisitItemCases
<1>4. /\ g \in [ItemFills \X ItemSet -> ItemFills]
      /\ \A a \in ItemFills, b \in ItemSet : g[<<a, b>>] = VisitItem(due, a, b)
  <2> HIDE DEF ItemFills
  <2> QED
    BY <1>3
<1> HIDE DEF g, n, base
<1>5. PICK G \in [SUBSET (1..n) -> ItemFills] : Folds(G, g, base, Items, n)
  BY <1>0, <1>2, <1>4, FoldExists
<1>6. G = Iter(G)
  <2>1. ASSUME NEW S \in SUBSET (1..n)
        PROVE  G[S] = IF S = {} THEN base ELSE VisitItem(due, G[S \ {Max(S)}], Items[Max(S)])
    <3>1. S # {} => Items[Max(S)] \in ItemSet
      BY <1>0, MaxIn
    <3>2. G[S \ {Max(S)}] \in ItemFills
      OBVIOUS
    <3>3. G[S] = IF S = {} THEN base ELSE g[<<G[S \ {Max(S)}], Items[Max(S)]>>]
      BY <1>5 DEF Folds
    <3> QED
      BY <1>4, <3>1, <3>2, <3>3
  <2> QED
    BY <2>1
<1> HIDE DEF Iter
<1>7. It = Iter(It)
  BY <1>6
<1> HIDE DEF It
<1>8. \A S \in SUBSET (1..n) :
        It[S] = IF S = {} THEN base ELSE VisitItem(due, It[S \ {Max(S)}], Items[Max(S)])
  BY <1>7 DEF Iter
<1>9. \A k \in 1..n : It[1..k] = VisitItem(due, It[1..(k - 1)], Items[k])
  BY <1>0, <1>8, Upto
<1> DEFINE A == {k \in 0..n : It[1..k] \in ItemFills /\ Filled(It[1..k], p, due, flagged, k)}
<1>10. 0 \in A
  <2>1. 1..0 = {} /\ {} \in SUBSET (1..n) /\ 0 \in 0..n
    BY <1>0
  <2>2. It[1..0] = base
    BY <2>1, <1>8
  <2>3. \A item \in ItemSet : Count(p, item) \in Nat
    <3> TAKE item \in ItemSet
    <3>1. [id |-> item, len |-> ItemLength[item]] \in ItemsOf(Ids)
      BY <1>2, VisitItemCases, Zenon
    <3> QED
      BY <3>1, CountAdded
  <2>4. Filled(base, p, due, flagged, 0)
    BY <1>2, <2>1, <2>3 DEF Filled
  <2> QED
    BY <1>2, <2>1, <2>2, <2>4
<1>11. \A k \in 0..n : k < n /\ k \in A => k + 1 \in A
  <2> TAKE k \in 0..n
  <2> HAVE k < n /\ k \in A
  <2>1. k + 1 \in 1..n /\ k + 1 \in 0..n /\ k + 1 - 1 = k /\ k \in Nat
    BY <1>0
  <2>2. It[1..(k + 1)] = VisitItem(due, It[1..k], Items[k + 1]) /\ Items[k + 1] \in ItemSet
    <3>1. It[1..(k + 1)] = VisitItem(due, It[1..(k + 1 - 1)], Items[k + 1])
      BY <1>9, <2>1
    <3> QED
      BY <1>0, <2>1, <3>1
  <2>3. It[1..k] \in ItemFills /\ Filled(It[1..k], p, due, flagged, k)
    OBVIOUS
  <2>4. It[1..(k + 1)] \in ItemFills
    BY <1>3, <2>2, <2>3
  <2>5. Filled(It[1..(k + 1)], p, due, flagged, k + 1)
    <3>1. k + 1 \in 1..Len(Items)
      BY <2>1 DEF n
    <3> QED
      BY <2>1, <2>2, <2>3, <3>1, FilledStep, Zenon
  <2> QED
    BY <2>1, <2>4, <2>5
<1>12. n \in A
  <2> HIDE DEF A
  <2>1. 0..n \subseteq A
    BY <1>0, <1>10, <1>11, Climb
  <2> QED
    BY <1>0, <2>1
<1> DEFINE f == It[1..n]
<1>13. f \in ItemFills /\ Filled(f, p, due, flagged, n)
  BY <1>12
<1> HIDE DEF f
<1>14. /\ flagged \subseteq f.processed /\ f.processed \ flagged \subseteq due
       /\ f.full => \E item \in due : item \notin f.processed
       /\ ~f.full => \A j \in 1..n : Items[j] \in due => Items[j] \in f.processed
       /\ f.pack.blocks = p.blocks
       /\ \A item \in ItemSet :
            Count(f.pack, item) = Count(p, item) + (IF item \in f.processed \ flagged THEN 1 ELSE 0)
       /\ f.processed = flagged /\ f.full =>
            \E item \in due \ flagged : ~ItemFits(p, ItemLength[item])
  BY <1>13 DEF Filled
<1>15. ~f.full => due \subseteq f.processed
  BY <1>0, <1>14
<1> QED
  BY <1>1, <1>13, <1>14, <1>15, Zenon DEF f, SDESRules

\* What FillInReportBlocks has done.
LEMMA BlocksFilled ==
  ASSUME NEW p \in BuilderPacks, NEW flagged \in SUBSET Range(Table), NEW maxcount \in Nat
  PROVE  LET fill == FillInReportBlocks(p, flagged, maxcount) IN
         fill \in Fills /\ fill.pack.sdes = p.sdes
<1> DEFINE base == [pack |-> p, processed |-> flagged, maxcount |-> maxcount, added |-> 0,
                    skipped |-> 0, full |-> FALSE]
           n == Len(Table)
<1>0. n \in Nat /\ DOMAIN Table = 1..n /\ \A k \in 1..n : Table[k] \in Range(Table)
  BY BuilderAssumption
<1>1. base \in Fills /\ base.pack = p
  BY DEF Fills
<1>2. FillInReportBlocks(p, flagged, maxcount) = FoldLeft(VisitSource, base, Table)
  BY DEF FillInReportBlocks
<1> HIDE DEF base
<1>3. PICK h \in [0..n -> Fills] :
           /\ h[0] = base /\ h[n] = FoldLeft(VisitSource, base, Table)
           /\ \A k \in 1..n : h[k] = VisitSource(h[k - 1], Table[k])
  BY <1>1, SourceRuns
<1> HIDE DEF n
<1>4. ASSUME NEW f \in Fills, NEW s \in Range(Table), f.pack.sdes = p.sdes
      PROVE  VisitSource(f, s).pack.sdes = p.sdes
  <2>1. /\ [f EXCEPT !.skipped = @ + 1].pack = f.pack /\ [f EXCEPT !.full = TRUE].pack = f.pack
        /\ [f EXCEPT !.pack = WithBlock(@, s), !.added = @ + 1,
                    !.processed = @ \cup {s}].pack = WithBlock(f.pack, s)
        /\ f.pack \in BuilderPacks
    BY DEF Fills
  <2>2. BlockFits(f.pack) => WithBlock(f.pack, s).sdes = f.pack.sdes
    BY <2>1, AddBlock DEF BuilderPacks
  <2> QED
    BY <1>4, <2>1, <2>2, Zenon DEF VisitSource
<1> DEFINE A == {k \in 0..n : h[k].pack.sdes = p.sdes}
<1>5. 0 \in A
  BY <1>0, <1>1, <1>3
<1>6. \A k \in 0..n : k < n /\ k \in A => k + 1 \in A
  <2> TAKE k \in 0..n
  <2> HAVE k < n /\ k \in A
  <2>1. k + 1 \in 1..n /\ k + 1 \in 0..n /\ k + 1 - 1 = k
    BY <1>0
  <2>2. h[k + 1] = VisitSource(h[k], Table[k + 1]) /\ h[k] \in Fills /\ Table[k + 1] \in Range(Table)
    BY <1>0, <1>3, <2>1
  <2>3. h[k + 1].pack.sdes = p.sdes
    BY <1>4, <2>2
  <2> QED
    BY <2>1, <2>3
<1>7. n \in A
  <2> HIDE DEF A
  <2>1. 0..n \subseteq A
    BY <1>0, <1>5, <1>6, Climb
  <2> QED
    BY <1>0, <2>1
<1> QED
  BY <1>0, <1>2, <1>3, <1>7 DEF n

-----------------------------------------------------------------------------
(* A round of reports and SDES items: RTCPPacketBuilder                     *)

\* Our CNAME is none of the items.
LEMMA StartCount ==
  ASSUME NEW usesr \in BOOLEAN, maxpacketsize \in Nat
  PROVE  /\ StartPacket(usesr) \in OneChunk
         /\ \A item \in ItemSet : Count(StartPacket(usesr), item) = 0
<1> DEFINE p == StartPacket(usesr)
           cname == [id |-> "cname", len |-> CNAMELength]
           chunk == [ssrc |-> Own, items |-> <<cname>>]
<1>1. p \in BuilderPacks /\ p.sdes = <<chunk>>
  BY StartShape
<1> HIDE DEF p
<1>2. Len(<<chunk>>) = 1 /\ <<chunk>>[1] = chunk /\ chunk.items = <<cname>>
  OBVIOUS
<1>3. p \in OneChunk /\ p.sdes[1].items = <<cname>>
  <2> HIDE DEF chunk
  <2> QED
    BY <1>1, <1>2 DEF OneChunk
<1>4. ASSUME NEW item \in ItemSet
      PROVE  Count(p, item) = 0
  <2>1. item # "cname"
    BY BuilderAssumption DEF ItemSet
  <2>2. \A i \in DOMAIN <<cname>> : <<cname>>[i].id = "cname"
    OBVIOUS
  <2>3. {i \in DOMAIN p.sdes[1].items : p.sdes[1].items[i].id = item} = {}
    BY <1>3, <2>1, <2>2
  <2> QED
    BY <2>3, FS_EmptySet DEF Count
<1> QED
  BY <1>3, <1>4 DEF p

\* How often an item should have been sent in the present round.
Sent(item) ==
  IF /\ item \in (IF processingsdes THEN processeditem ELSE doitem)
     /\ ~(sdesbuildcount = 1 /\ item \in leftover)
  THEN 1 ELSE 0

RoundInv ==
  /\ processingsdes => \E item \in doitem : item \notin processeditem
  /\ sdesbuildcount = 0 => ~processingsdes /\ processeditem = leftover
  /\ sdesbuildcount > 0 /\ ~processingsdes => processeditem = {}
  /\ sdesbuildcount = 1 /\ processingsdes => leftover \subseteq processeditem
  /\ processingsdes =>
       \A item \in processeditem :
         item \in doitem \/ (sdesbuildcount = 1 /\ item \in leftover)
  /\ sdesbuildcount > 0 => \A item \in ItemSet : sentitems[item] = Sent(item)

BuilderTypes ==
  /\ init \in BOOLEAN /\ sender \in BOOLEAN /\ processingsdes \in BOOLEAN
  /\ sdesbuildcount \in Nat
  /\ doitem \in SUBSET ItemSet /\ processeditem \in SUBSET ItemSet
  /\ leftover \in SUBSET ItemSet /\ processed \in SUBSET Range(Table)
  /\ init => maxpacketsize \in Sizes

BuilderInv == BuilderTypes /\ RoundInv

\* A builder that has something left to do finds space for it.
LEMMA BuildersSucceed == BuilderInv => BuildSucceeds
<1> SUFFICES ASSUME BuilderInv, init PROVE BuildSucceeds
  BY DEF BuildSucceeds
<1> DEFINE p == StartPacket(sender)
<1>1. /\ sender \in BOOLEAN /\ doitem \in SUBSET ItemSet /\ processeditem \in SUBSET ItemSet
      /\ processed \in SUBSET Range(Table) /\ maxpacketsize \in Sizes /\ maxpacketsize \in Nat
      /\ Len(Table) \in Nat
  <2>1. Len(Table) \in Nat /\ Sizes \subseteq Nat
    BY BuilderAssumption
  <2> QED
    BY <2>1 DEF BuilderInv, BuilderTypes
<1>2. p \in OneChunk /\ p \in BuilderPacks
  BY <1>1, StartCount DEF OneChunk
<1>3. BlockFits(p) /\ \A item \in ItemSet : ItemFits(p, ItemLength[item])
  BY <1>1, StartFits
<1> HIDE DEF p
<1>4. CASE processingsdes
  <2> DEFINE sdes == FillInSDES(p, doitem, processeditem)
  <2>1. /\ ~sdes.full => doitem \subseteq sdes.processed
        /\ sdes.processed = processeditem /\ sdes.full =>
             \E item \in doitem \ processeditem : ~ItemFits(p, ItemLength[item])
    <3>1. SDESRules(sdes, p, doitem, processeditem)
      BY <1>1, <1>2, SDESFilled
    <3> HIDE DEF sdes
    <3> QED
      BY <3>1, Zenon DEF SDESRules
  <2>2. \E item \in doitem : item \notin processeditem
    BY <1>4 DEF BuilderInv, RoundInv
  <2> HIDE DEF sdes
  <2>3. sdes.processed # processeditem
    BY <1>1, <1>3, <2>1, <2>2
  <2> QED
    BY <1>4, <2>3 DEF BuildSucceeds, sdes, p
<1>5. CASE ~processingsdes
  <2> DEFINE fill == FillInReportBlocks(p, processed, Len(Table))
  <2>1. fill.full => fill.added > 0
    BY <1>1, <1>2, <1>3, FirstBlock
  <2> HIDE DEF fill
  <2> QED
    BY <1>5, <2>1 DEF BuildSucceeds, fill, p
<1> QED
  BY <1>4, <1>5

\* The SDES items are begun after the report blocks.
LEMMA ReportsAndSDESStep ==
  ASSUME BuilderInv, init, ~processingsdes,
         BuildReportsAndSDES(FillInReportBlocks(StartPacket(sender), processed, Len(Table)))
  PROVE  BuilderInv'
<1> DEFINE p == StartPacket(sender)
           fill == FillInReportBlocks(p, processed, Len(Table))
           sdes == FillInSDES(fill.pack, Due, processeditem)
           again == FillInReportBlocks(sdes.pack, {}, fill.skipped)
<1>1. /\ sender \in BOOLEAN /\ processeditem \in SUBSET ItemSet /\ leftover \in SUBSET ItemSet
      /\ processed \in SUBSET Range(Table) /\ maxpacketsize \in Sizes /\ maxpacketsize \in Nat
      /\ Len(Table) \in Nat /\ sdesbuildcount \in Nat /\ Due \in SUBSET ItemSet
  <2>1. Len(Table) \in Nat /\ Sizes \subseteq Nat
    BY BuilderAssumption
  <2>2. Due \in SUBSET ItemSet
    BY DEF Due
  <2> QED
    BY <2>1, <2>2 DEF BuilderInv, BuilderTypes
<1>2. /\ p \in OneChunk /\ p \in BuilderPacks
      /\ \A item \in ItemSet : Count(p, item) = 0
  BY <1>1, StartCount DEF OneChunk
<1> HIDE DEF p
<1>3. /\ fill.pack \in BuilderPacks /\ fill.skipped \in Nat /\ fill.processed \in SUBSET Range(Table)
      /\ fill.pack.sdes = p.sdes
  <2>1. fill \in Fills /\ fill.pack.sdes = p.sdes
    BY <1>1, <1>2, BlocksFilled
  <2> HIDE DEF fill
  <2> QED
    BY <2>1 DEF Fills
<1> HIDE DEF fill
<1>4. fill.pack \in OneChunk /\ \A item \in ItemSet : Count(fill.pack, item) = 0
  BY <1>2, <1>3 DEF OneChunk, Count
<1>5. /\ sdes \in ItemFills
      /\ processeditem \subseteq sdes.processed /\ sdes.processed \ processeditem \subseteq Due
      /\ sdes.full => \E item \in Due : item \notin sdes.processed
      /\ ~sdes.full => Due \subseteq sdes.processed
      /\ \A item \in ItemSet :
           Count(sdes.pack, item) =
             Count(fill.pack, item) + (IF item \in sdes.processed \ processeditem THEN 1 ELSE 0)
  <2>1. SDESRules(sdes, fill.pack, Due, processeditem)
    BY <1>1, <1>4, SDESFilled
  <2> HIDE DEF sdes
  <2> QED
    BY <2>1, Zenon DEF SDESRules
<1> HIDE DEF sdes
<1>6. sdes.pack \in BuilderPacks /\ sdes.processed \in SUBSET ItemSet /\ sdes.full \in BOOLEAN
  BY <1>5 DEF ItemFills, OneChunk
<1>7. again.processed \in SUBSET Range(Table)
  <2>1. again \in Fills
    BY <1>3, <1>6, BlocksFilled
  <2> HIDE DEF again
  <2> QED
    BY <2>1 DEF Fills
<1> HIDE DEF again
<1>8. /\ sdesbuildcount' = sdesbuildcount + 1 /\ doitem' = Due /\ processingsdes' = sdes.full
      /\ processeditem' = IF sdes.full THEN sdes.processed ELSE {}
      /\ sentitems' = [item \in ItemSet |-> Count(sdes.pack, item) + 0]
      /\ processed' \in SUBSET Range(Table)
      /\ UNCHANGED <<init, maxpacketsize, sender, leftover>>
  <2> DEFINE zero == [item \in ItemSet |-> 0]
  <2>1. BuildReportsAndSDES(fill)
    BY DEF fill, p
  <2>2. /\ sdesbuildcount' = sdesbuildcount + 1 /\ doitem' = Due /\ processingsdes' = sdes.full
        /\ processeditem' = IF sdes.full THEN sdes.processed ELSE {}
        /\ CountItems(zero, sdes.pack)
        /\ Finish(again.pack, again.processed) \/ Finish(sdes.pack, {})
    BY <2>1, Zenon DEF BuildReportsAndSDES, sdes, again
  <2>3. sentitems' = [item \in ItemSet |-> zero[item] + Count(sdes.pack, item)]
    BY <2>2 DEF CountItems, Count
  <2>4. \A item \in ItemSet : Count(sdes.pack, item) \in {0, 1}
    BY <1>4, <1>5
  <2>5. sentitems' = [item \in ItemSet |-> Count(sdes.pack, item) + 0]
    BY <2>3, <2>4
  <2>6. /\ UNCHANGED <<init, maxpacketsize, sender, leftover>>
        /\ processed' = again.processed \/ processed' = {}
    BY <2>2 DEF Finish
  <2> QED
    BY <1>7, <2>2, <2>5, <2>6
<1>9. \A item \in ItemSet : sentitems'[item] = IF item \in sdes.processed \ processeditem THEN 1 ELSE 0
  BY <1>4, <1>5, <1>8
<1>10. processeditem = IF sdesbuildcount = 0 THEN leftover ELSE {}
  BY <1>1 DEF BuilderInv, RoundInv
<1>11. BuilderTypes'
  BY <1>1, <1>6, <1>8 DEF BuilderInv, BuilderTypes
<1>12. RoundInv'
  <2>1. /\ processingsdes' => \E item \in doitem' : item \notin processeditem'
        /\ sdesbuildcount' # 0
        /\ sdesbuildcount' > 0 /\ ~processingsdes' => processeditem' = {}
    BY <1>1, <1>5, <1>8
  <2>2. sdesbuildcount' = 1 /\ processingsdes' => leftover' \subseteq processeditem'
    BY <1>1, <1>5, <1>8, <1>10
  <2>3. ASSUME processingsdes', NEW item \in processeditem'
        PROVE  item \in doitem' \/ (sdesbuildcount' = 1 /\ item \in leftover')
    BY <1>1, <1>5, <1>8, <1>10, <2>3
  <2>4. ASSUME NEW item \in ItemSet
        PROVE  sentitems'[item] = Sent(item)'
    <3>1. sdesbuildcount' = 1 <=> sdesbuildcount = 0
      BY <1>1, <1>8
    <3>2. item \in sdes.processed \ processeditem <=>
            /\ item \in (IF sdes.full THEN sdes.processed ELSE Due)
            /\ ~(sdesbuildcount' = 1 /\ item \in leftover)
      BY <1>5, <1>10, <3>1
    <3>3. Sent(item)' = IF /\ item \in (IF processingsdes' THEN processeditem' ELSE doitem')
                           /\ ~(sdesbuildcount' = 1 /\ item \in leftover')
                        THEN 1 ELSE 0
      BY DEF Sent
    <3> QED
      BY <1>6, <1>8, <1>9, <3>2, <3>3
  <2> QED
    BY <2>1, <2>2, <2>3, <2>4 DEF RoundInv
<1> QED
  BY <1>11, <1>12 DEF BuilderInv

\* The SDES items are continued.
LEMMA SDESStep ==
  ASSUME BuilderInv, init, processingsdes, BuildSDES
  PROVE  BuilderInv'
<1> DEFINE p == StartPacket(sender)
           sdes == FillInSDES(p, doitem, processeditem)
           fill == FillInReportBlocks(sdes.pack, processed, Len(Table))
<1>1. /\ sender \in BOOLEAN /\ processeditem \in SUBSET ItemSet /\ leftover \in SUBSET ItemSet
      /\ doitem \in SUBSET ItemSet
      /\ processed \in SUBSET Range(Table) /\ maxpacketsize \in Sizes /\ maxpacketsize \in Nat
      /\ Len(Table) \in Nat /\ sdesbuildcount \in Nat
  <2>1. Len(Table) \in Nat /\ Sizes \subseteq Nat
    BY BuilderAssumption
  <2> QED
    BY <2>1 DEF BuilderInv, BuilderTypes
<1>2. p \in OneChunk /\ \A item \in ItemSet : Count(p, item) = 0
  BY <1>1, StartCount
<1> HIDE DEF p
<1>3. /\ sdes \in ItemFills
      /\ processeditem \subseteq sdes.processed /\ sdes.processed \ processeditem \subseteq doitem
      /\ sdes.full => \E item \in doitem : item \notin sdes.processed
      /\ ~sdes.full => doitem \subseteq sdes.processed
      /\ \A item \in ItemSet :
           Count(sdes.pack, item) =
             Count(p, item) + (IF item \in sdes.processed \ processeditem THEN 1 ELSE 0)
  <2>1. SDESRules(sdes, p, doitem, processeditem)
    BY <1>1, <1>2, SDESFilled
  <2> HIDE DEF sdes
  <2> QED
    BY <2>1, Zenon DEF SDESRules
<1> HIDE DEF sdes
<1>4. sdes.pack \in BuilderPacks /\ sdes.processed \in SUBSET ItemSet /\ sdes.full \in BOOLEAN
  BY <1>3 DEF ItemFills, OneChunk
<1>5. fill.processed \in SUBSET Range(Table)
  <2>1. fill \in Fills
    BY <1>1, <1>4, BlocksFilled
  <2> HIDE DEF fill
  <2> QED
    BY <2>1 DEF Fills
<1> HIDE DEF fill
<1>6. /\ processingsdes' = sdes.full
      /\ processeditem' = IF sdes.full THEN sdes.processed ELSE {}
      /\ sentitems' = [item \in ItemSet |-> sentitems[item] + Count(sdes.pack, item)]
      /\ processed' \in SUBSET Range(Table)
      /\ UNCHANGED <<init, maxpacketsize, sender, leftover, sdesbuildcount, doitem>>
  <2>1. /\ processingsdes' = sdes.full
        /\ processeditem' = IF sdes.full THEN sdes.processed ELSE {}
        /\ CountItems(sentitems, sdes.pack)
        /\ IF sdes.full THEN Finish(sdes.pack, processed)
           ELSE Finish(fill.pack, IF AtEndOfList(fill) THEN {} ELSE fill.processed)
        /\ UNCHANGED <<sdesbuildcount, doitem>>
    BY Zenon DEF BuildSDES, sdes, fill, p
  <2>2. sentitems' = [item \in ItemSet |-> sentitems[item] + Count(sdes.pack, item)]
    BY <2>1 DEF CountItems, Count
  <2>3. /\ UNCHANGED <<init, maxpacketsize, sender, leftover>>
        /\ processed' = processed \/ processed' = {} \/ processed' = fill.processed
    BY <2>1 DEF Finish
  <2> QED
    BY <1>1, <1>5, <2>1, <2>2, <2>3
<1>7. /\ sdesbuildcount > 0
      /\ \A item \in ItemSet :
           sentitems[item] = IF item \in processeditem /\ ~(sdesbuildcount = 1 /\ item \in leftover)
                             THEN 1 ELSE 0
      /\ sdesbuildcount = 1 => leftover \subseteq processeditem
      /\ \A item \in processeditem :
           item \in doitem \/ (sdesbuildcount = 1 /\ item \in leftover)
  BY <1>1 DEF BuilderInv, RoundInv, Sent
<1>8. BuilderTypes'
  BY <1>1, <1>4, <1>6 DEF BuilderInv, BuilderTypes
<1>9. RoundInv'
  <2>1. /\ processingsdes' => \E item \in doitem' : item \notin processeditem'
        /\ sdesbuildcount' # 0
        /\ sdesbuildcount' > 0 /\ ~processingsdes' => processeditem' = {}
    BY <1>1, <1>3, <1>6, <1>7
  <2>2. sdesbuildcount' = 1 /\ processingsdes' => leftover' \subseteq processeditem'
    BY <1>3, <1>6, <1>7
  <2>3. ASSUME processingsdes', NEW item \in processeditem'
        PROVE  item \in doitem' \/ (sdesbuildcount' = 1 /\ item \in leftover')
    BY <1>3, <1>6, <1>7, <2>3
  <2>4. ASSUME NEW item \in ItemSet
        PROVE  sentitems'[item] = Sent(item)'
    <3>1. sentitems'[item] = sentitems[item] + Count(sdes.pack, item)
      BY <1>6
    <3>2. Count(sdes.pack, item) = IF item \in sdes.processed \ processeditem THEN 1 ELSE 0
      BY <1>2, <1>3
    <3>3. sentitems'[item] =
            IF item \in sdes.processed /\ ~(sdesbuildcount = 1 /\ item \in leftover) THEN 1 ELSE 0
      BY <1>3, <1>7, <3>1, <3>2
    <3>4. ~sdes.full /\ ~(sdesbuildcount = 1 /\ item \in leftover) =>
            (item \in sdes.processed <=> item \in doitem)
      BY <1>3, <1>7
    <3>5. Sent(item)' = IF /\ item \in (IF processingsdes' THEN processeditem' ELSE doitem')
                           /\ ~(sdesbuildcount' = 1 /\ item \in leftover')
                        THEN 1 ELSE 0
      BY DEF Sent
    <3> QED
      BY <1>4, <1>6, <3>3, <3>4, <3>5
  <2> QED
    BY <2>1, <2>2, <2>3, <2>4 DEF RoundInv
<1> QED
  BY <1>8, <1>9 DEF BuilderInv

\* Only Init and BuildNextPacket concern the round.
LEMMA SameRound ==
  ASSUME BuilderInv, init' \in BOOLEAN, sender' \in BOOLEAN, init' => maxpacketsize' \in Sizes,
         UNCHANGED <<processingsdes, sdesbuildcount, doitem, processeditem, leftover, sentitems>>,
         processed' \in SUBSET Range(Table)
  PROVE  BuilderInv'
<1>1. BuilderTypes'
  BY DEF BuilderInv, BuilderTypes
<1>2. \A item : Sent(item)' = Sent(item)
  BY DEF Sent
<1>3. RoundInv'
  BY <1>2 DEF BuilderInv, RoundInv
<1> QED
  BY <1>1, <1>3 DEF BuilderInv

\* Every call keeps the round in order.
LEMMA BuilderStep == BuilderInv /\ [BuilderNext]_buildervars => BuilderInv'
<1> SUFFICES ASSUME BuilderInv, [BuilderNext]_buildervars PROVE BuilderInv'
  OBVIOUS
<1>0. /\ init \in BOOLEAN /\ sender \in BOOLEAN /\ processed \in SUBSET Range(Table)
      /\ processeditem \in SUBSET ItemSet /\ doitem \in SUBSET ItemSet
      /\ (init => maxpacketsize \in Sizes)
  BY DEF BuilderInv, BuilderTypes
<1>1. ASSUME NEW size \in Sizes, InitBuilder(size) PROVE BuilderInv'
  <2>1. /\ init' = TRUE /\ maxpacketsize' = size /\ processingsdes' = FALSE /\ sdesbuildcount' = 0
        /\ processed' = {} /\ leftover' = processeditem
        /\ UNCHANGED <<doitem, processeditem, sender>>
    BY <1>1 DEF InitBuilder, sourcevars
  <2>2. BuilderTypes'
    BY <1>0, <2>1 DEF BuilderTypes
  <2>3. RoundInv'
    BY <2>1 DEF RoundInv
  <2> QED
    BY <2>2, <2>3 DEF BuilderInv
<1>2. ASSUME NEW size \in Sizes, SetMaximumPacketSize(size) PROVE BuilderInv'
  BY <1>0, <1>2, SameRound DEF SetMaximumPacketSize, flags, sourcevars
<1>3. CASE Destroy
  BY <1>0, <1>3, SameRound DEF Destroy, flags, sourcevars
<1>4. ASSUME NEW item \in ItemSet, NEW count \in Intervals, SetInterval(item, count)
      PROVE  BuilderInv'
  BY <1>0, <1>4, SameRound DEF SetInterval, flags, sourcevars
<1>5. ASSUME NEW s \in Range(Table), ReceiveRTP(s) PROVE BuilderInv'
  <2>1. /\ sender' \in BOOLEAN
        /\ UNCHANGED <<init, maxpacketsize, processingsdes, sdesbuildcount, doitem, processeditem,
                       processed, leftover, sentitems>>
    BY <1>0, <1>5 DEF ReceiveRTP, flags
  <2> QED
    BY <1>0, <2>1, SameRound
<1>6. CASE BuildNextPacket
  <2> DEFINE fill == FillInReportBlocks(StartPacket(sender), processed, Len(Table))
  <2>1. /\ init
        /\ IF processingsdes THEN BuildSDES ELSE BuildReports(fill) \/ BuildReportsAndSDES(fill)
    BY <1>6 DEF BuildNextPacket
  <2>2. CASE processingsdes
    BY <2>1, <2>2, SDESStep
  <2>3. CASE ~processingsdes /\ BuildReportsAndSDES(fill)
    BY <2>1, <2>3, ReportsAndSDESStep
  <2>4. CASE BuildReports(fill)
    <3>1. fill.processed \in SUBSET Range(Table)
      <4>1. /\ Len(Table) \in Nat /\ maxpacketsize \in Nat
        <5>1. Len(Table) \in Nat /\ Sizes \subseteq Nat
          BY BuilderAssumption
        <5> QED
          BY <1>0, <2>1, <5>1
      <4>2. StartPacket(sender) \in BuilderPacks
        BY <1>0, <4>1, StartShape
      <4>3. fill \in Fills
        BY <1>0, <4>1, <4>2, BlocksFilled
      <4> HIDE DEF fill
      <4> QED
        BY <4>3 DEF Fills
    <3> HIDE DEF fill
    <3>2. /\ processed' = fill.processed
          /\ UNCHANGED <<init, maxpacketsize, sender, leftover, processingsdes, sdesbuildcount,
                         doitem, processeditem, sentitems>>
      BY <2>4 DEF BuildReports, Finish
    <3> QED
      BY <1>0, <3>1, <3>2, SameRound
  <2> QED
    BY <2>1, <2>2, <2>3, <2>4
<1>7. ASSUME NEW usesr \in BOOLEAN, BuildBYEPacket(CNAMELength, usesr) PROVE BuilderInv'
  BY <1>0, <1>7, SameRound DEF BuildBYEPacket, flags, sourcevars
<1>8. CASE UNCHANGED buildervars
  BY <1>0, <1>8, SameRound DEF buildervars, flags, sourcevars
<1> QED
  BY <1>1, <1>2, <1>3, <1>4, <1>5, <1>6, <1>7, <1>8 DEF BuilderNext

\* And it is in order to begin with.
LEMMA BuilderStart == BuilderInit => BuilderInv
<1> SUFFICES ASSUME BuilderInit PROVE BuilderInv
  OBVIOUS
<1>1. BuilderTypes
  BY DEF BuilderInit, BuilderTypes
<1>2. RoundInv
  BY DEF BuilderInit, RoundInv
<1> QED
  BY <1>1, <1>2 DEF BuilderInv

\* BuildNextPacket never fails for want of space: whenever it is called, be it
\* half way through the SDES items and with another maximum size than before, at
\* least one report block or item that is to be sent fits (RTCPPacketBuilder).
THEOREM BuildersSafe == BuilderSpec => []BuildSucceeds
BY BuilderStart, BuilderStep, BuildersSucceed, PTL DEF BuilderSpec

\* Every SDES item that is due in a round is sent exactly once in it, over
\* however many packets, and no other is; only those that a round cut short by
\* Destroy had sent are not sent in the first round after the next Init, which
\* leaves their flags (RTCPPacketBuilder).
THEOREM ItemsSafe == BuilderSpec => []ItemsOnce
<1>1. BuilderInv => ItemsOnce
  BY DEF BuilderInv, RoundInv, ItemsOnce, Sent
<1> QED
  BY BuilderStart, BuilderStep, <1>1, PTL DEF BuilderSpec

-----------------------------------------------------------------------------
(* The sources that are left out: what FillInReportBlocks reports *)

\* What was reported in the first k turns of filling p.
Reported(f, p, flagged, maxcount, k) ==
  /\ f.maxcount = maxcount /\ f.added <= k
  /\ flagged \subseteq f.processed
  /\ f.processed \ flagged \subseteq Reporters \cap Range(f.pack.blocks)
  /\ Range(p.blocks) \subseteq Range(f.pack.blocks)
  /\ f.added > 0 => f.processed # flagged
  /\ ~f.full /\ maxcount >= Len(Table) =>
       \A j \in 1..k : ShouldProcess(Table[j]) => Table[j] \in f.processed

\* A block more reports its source.
LEMMA BlockReports ==
  ASSUME NEW p \in BuilderPacks, NEW s \in Range(Table), BlockFits(p)
  PROVE  Range(WithBlock(p, s).blocks) = Range(p.blocks) \cup {s}
<1>1. p.blocks \in Seq(Range(Table)) /\ WithBlock(p, s).blocks = Append(p.blocks, s)
  <2>1. p \in Packs(Range(Table), Ids)
    BY DEF BuilderPacks
  <2>2. p.blocks \in Seq(Range(Table))
    BY <2>1 DEF Packs
  <2>3. WithBlock(p, s).blocks = Append(p.blocks, s)
    BY <2>1 DEF WithBlock, Packs
  <2> QED
    BY <2>2, <2>3
<1> DEFINE t == p.blocks
           u == Append(t, s)
<1>2. /\ Len(t) \in Nat /\ DOMAIN t = 1..Len(t) /\ DOMAIN u = 1..(Len(t) + 1)
      /\ u[Len(t) + 1] = s /\ \A i \in 1..Len(t) : u[i] = t[i]
  BY <1>1
<1> HIDE DEF t, u
<1>3. \A x : x \in Range(u) <=> x \in Range(t) \/ x = s
  <2> TAKE x
  <2>1. x \in Range(u) <=> \E i \in 1..(Len(t) + 1) : u[i] = x
    BY <1>2 DEF Range
  <2>2. x \in Range(t) <=> \E i \in 1..Len(t) : t[i] = x
    BY <1>2 DEF Range
  <2>3. \A i : i \in 1..(Len(t) + 1) <=> i \in 1..Len(t) \/ i = Len(t) + 1
    BY <1>2
  <2> QED
    BY <1>2, <2>1, <2>2, <2>3
<1> QED
  BY <1>1, <1>3 DEF t, u

\* A turn more.
LEMMA ReportedStep ==
  ASSUME NEW p \in BuilderPacks, NEW flagged \in SUBSET Range(Table), NEW maxcount \in Nat,
         NEW f \in Fills, NEW k \in Nat, k + 1 \in 1..Len(Table),
         Reported(f, p, flagged, maxcount, k)
  PROVE  Reported(VisitSource(f, Table[k + 1]), p, flagged, maxcount, k + 1)
<1> DEFINE s == Table[k + 1]
           g == VisitSource(f, s)
           q == WithBlock(f.pack, s)
           d == f.processed \cup {s}
<1>1. /\ s \in Range(Table) /\ \A j \in 1..(k + 1) : j = k + 1 \/ j \in 1..k
      /\ Len(Table) \in Nat /\ k + 1 <= Len(Table)
  BY BuilderAssumption
<1>2. /\ f.pack \in BuilderPacks /\ f.added \in Nat /\ f.processed \in SUBSET Range(Table)
      /\ f.full \in BOOLEAN
  BY DEF Fills
<1>3. /\ f.maxcount = maxcount /\ f.added <= k
      /\ flagged \subseteq f.processed
      /\ f.processed \ flagged \subseteq Reporters \cap Range(f.pack.blocks)
      /\ Range(p.blocks) \subseteq Range(f.pack.blocks)
      /\ f.added > 0 => f.processed # flagged
      /\ ~f.full /\ maxcount >= Len(Table) =>
           \A j \in 1..k : ShouldProcess(Table[j]) => Table[j] \in f.processed
  BY DEF Reported
<1>4. f.added <= k + 1 /\ f.added + 1 <= k + 1 /\ f.added + 1 > 0
  BY <1>2, <1>3
<1>5. f.added >= f.maxcount => ~(maxcount >= Len(Table))
  BY <1>1, <1>2, <1>3
<1> HIDE DEF s
<1>6. (ShouldProcess(s) => s \in f.processed) /\ ~f.full /\ maxcount >= Len(Table) =>
        \A j \in 1..(k + 1) : ShouldProcess(Table[j]) => Table[j] \in f.processed
  BY <1>1, <1>3 DEF s
<1>7. CASE f.full \/ f.added >= f.maxcount \/ ~ShouldProcess(s)
  <2>1. g = f
    BY <1>7, Zenon DEF VisitSource
  <2>2. ~f.full /\ maxcount >= Len(Table) =>
          \A j \in 1..(k + 1) : ShouldProcess(Table[j]) => Table[j] \in f.processed
    BY <1>5, <1>6, <1>7, Zenon
  <2>3. Reported(f, p, flagged, maxcount, k + 1)
    BY <1>3, <1>4, <2>2, Zenon DEF Reported
  <2> QED
    BY <2>1, <2>3, Zenon DEF g, s
<1>8. CASE ~(f.full \/ f.added >= f.maxcount \/ ~ShouldProcess(s)) /\ s \in f.processed
  <2>1. g = [f EXCEPT !.skipped = @ + 1]
    BY <1>8, Zenon DEF VisitSource
  <2>2. /\ g.maxcount = f.maxcount /\ g.added = f.added /\ g.processed = f.processed
        /\ g.pack = f.pack /\ g.full = f.full
    BY <2>1 DEF Fills
  <2>3. ~f.full /\ maxcount >= Len(Table) =>
          \A j \in 1..(k + 1) : ShouldProcess(Table[j]) => Table[j] \in f.processed
    BY <1>6, <1>8, Zenon
  <2> HIDE DEF g
  <2>4. Reported(g, p, flagged, maxcount, k + 1)
    BY <1>3, <1>4, <2>2, <2>3, Zenon DEF Reported
  <2> QED
    BY <2>4 DEF g, s
<1>9. CASE /\ ~(f.full \/ f.added >= f.maxcount \/ ~ShouldProcess(s)) /\ s \notin f.processed
           /\ ~BlockFits(f.pack)
  <2>1. g = [f EXCEPT !.full = TRUE]
    BY <1>9, Zenon DEF VisitSource
  <2>2. /\ g.maxcount = f.maxcount /\ g.added = f.added /\ g.processed = f.processed
        /\ g.pack = f.pack /\ g.full = TRUE
    BY <2>1 DEF Fills
  <2> HIDE DEF g
  <2>3. Reported(g, p, flagged, maxcount, k + 1)
    BY <1>3, <1>4, <2>2, Zenon DEF Reported
  <2> QED
    BY <2>3 DEF g, s
<1>10. CASE /\ ~(f.full \/ f.added >= f.maxcount \/ ~ShouldProcess(s)) /\ s \notin f.processed
            /\ BlockFits(f.pack)
  <2>1. g = [f EXCEPT !.pack = q, !.added = @ + 1, !.processed = d]
    BY <1>10, Zenon DEF VisitSource
  <2>2. Range(q.blocks) = Range(f.pack.blocks) \cup {s} /\ s \in Reporters
    BY <1>1, <1>2, <1>10, BlockReports DEF ShouldProcess
  <2> HIDE DEF q, d, g
  <2>3. /\ g.maxcount = f.maxcount /\ g.added = f.added + 1 /\ g.processed = d
        /\ g.pack = q /\ g.full = f.full
    BY <2>1 DEF Fills
  <2>4. /\ flagged \subseteq d /\ d # flagged
        /\ d \ flagged \subseteq Reporters \cap Range(q.blocks)
        /\ Range(p.blocks) \subseteq Range(q.blocks)
    BY <1>3, <1>10, <2>2 DEF d
  <2>5. ~f.full /\ maxcount >= Len(Table) =>
          \A j \in 1..(k + 1) : ShouldProcess(Table[j]) => Table[j] \in d
    BY <1>1, <1>3 DEF d, s
  <2>6. Reported(g, p, flagged, maxcount, k + 1)
    BY <1>3, <1>4, <2>3, <2>4, <2>5, Zenon DEF Reported
  <2> QED
    BY <2>6 DEF g, s
<1> QED
  BY <1>7, <1>8, <1>9, <1>10

\* What FillInReportBlocks has reported.
ReportRulesOf(fill, p, flagged, maxcount) ==
  /\ flagged \subseteq fill.processed
  /\ fill.processed \ flagged \subseteq Reporters \cap Range(fill.pack.blocks)
  /\ Range(p.blocks) \subseteq Range(fill.pack.blocks)
  /\ fill.added > 0 => fill.processed # flagged
  /\ ~fill.full /\ maxcount >= Len(Table) =>
       \A s \in Range(Table) : ShouldProcess(s) => s \in fill.processed

\* So it is when the walk of a report is over.
LEMMA BlocksReported ==
  ASSUME NEW p \in BuilderPacks, NEW flagged \in SUBSET Range(Table), NEW maxcount \in Nat
  PROVE  ReportRulesOf(FillInReportBlocks(p, flagged, maxcount), p, flagged, maxcount)
<1> DEFINE base == [pack |-> p, processed |-> flagged, maxcount |-> maxcount, added |-> 0,
                    skipped |-> 0, full |-> FALSE]
           n == Len(Table)
<1>0. n \in Nat /\ DOMAIN Table = 1..n /\ \A s \in Range(Table) : \E j \in 1..n : Table[j] = s
  BY BuilderAssumption DEF Range
<1>1. /\ base \in Fills /\ base.pack = p /\ base.processed = flagged /\ base.added = 0
      /\ base.maxcount = maxcount
  BY DEF Fills
<1>2. FillInReportBlocks(p, flagged, maxcount) = FoldLeft(VisitSource, base, Table)
  BY DEF FillInReportBlocks
<1> HIDE DEF base
<1>3. PICK h \in [0..n -> Fills] :
           /\ h[0] = base /\ h[n] = FoldLeft(VisitSource, base, Table)
           /\ \A k \in 1..n : h[k] = VisitSource(h[k - 1], Table[k])
  BY <1>1, SourceRuns
<1> DEFINE A == {k \in 0..n : Reported(h[k], p, flagged, maxcount, k)}
<1>5. 0 \in A
  BY <1>0, <1>1, <1>3 DEF Reported
<1>6. \A k \in 0..n : k < n /\ k \in A => k + 1 \in A
  <2> TAKE k \in 0..n
  <2> HAVE k < n /\ k \in A
  <2>1. k + 1 \in 1..n /\ k + 1 \in 0..n /\ k + 1 - 1 = k /\ k \in Nat
    BY <1>0
  <2>2. h[k + 1] = VisitSource(h[k], Table[k + 1]) /\ h[k] \in Fills
    BY <1>3, <2>1
  <2>3. Reported(h[k], p, flagged, maxcount, k)
    OBVIOUS
  <2>4. Reported(h[k + 1], p, flagged, maxcount, k + 1)
    BY <2>1, <2>2, <2>3, ReportedStep, Zenon
  <2> QED
    BY <2>1, <2>4
<1>7. n \in A
  <2> HIDE DEF A
  <2>1. 0..n \subseteq A
    BY <1>0, <1>5, <1>6, Climb
  <2> QED
    BY <1>0, <2>1
<1> DEFINE fill == h[n]
<1>8. Reported(fill, p, flagged, maxcount, n)
  BY <1>7
<1> HIDE DEF fill
<1>9. /\ flagged \subseteq fill.processed
      /\ fill.processed \ flagged \subseteq Reporters \cap Range(fill.pack.blocks)
      /\ Range(p.blocks) \subseteq Range(fill.pack.blocks)
      /\ fill.added > 0 => fill.processed # flagged
      /\ ~fill.full /\ maxcount >= n =>
           \A j \in 1..n : ShouldProcess(Table[j]) => Table[j] \in fill.processed
  BY <1>8, Zenon DEF Reported
<1>10. ReportRulesOf(fill, p, flagged, maxcount)
  BY <1>0, <1>9 DEF ReportRulesOf
<1> QED
  BY <1>2, <1>3, <1>10 DEF fill

\* There are finitely many sources and items.
LEMMA RangeFinite ==
  ASSUME NEW s, s \in Seq(Range(s))
  PROVE  IsFiniteSet(Range(s))
<1>1. Len(s) \in Nat /\ DOMAIN s = 1..Len(s) /\ s \in [1..Len(s) -> Range(s)]
  OBVIOUS
<1>2. \A x \in Range(s) : \E i \in 1..Len(s) : s[i] = x
  BY <1>1 DEF Range
<1>3. s \in Surjection(1..Len(s), Range(s))
  BY <1>1, <1>2 DEF Surjection
<1>4. IsFiniteSet(1..Len(s))
  <2>1. 1 \in Int /\ Len(s) \in Int
    BY <1>1
  <2> QED
    BY <2>1, FS_Interval, Zenon
<1> QED
  BY <1>3, <1>4, FS_Surjection

\* The sources that can be reported and the items are finitely many.
LEMMA BuilderFinite == IsFiniteSet(Reporters) /\ IsFiniteSet(ItemSet)
<1>1. IsFiniteSet(Range(Table)) /\ IsFiniteSet(Range(Items))
  BY BuilderAssumption, RangeFinite
<1>2. Reporters \in SUBSET Range(Table)
  BY DEF Reporters
<1> QED
  BY <1>1, <1>2, FS_Subset DEF ItemSet

\* A part has no more members, and fewer if it is not all.
LEMMA Parts ==
  ASSUME NEW S, IsFiniteSet(S), NEW T \in SUBSET S
  PROVE  /\ Cardinality(T) \in Nat /\ Cardinality(S) \in Nat /\ Cardinality(T) <= Cardinality(S)
         /\ IsFiniteSet(T) /\ (T # S => Cardinality(T) < Cardinality(S))
<1>1. /\ IsFiniteSet(T) /\ Cardinality(T) <= Cardinality(S)
      /\ Cardinality(S) = Cardinality(T) => S = T
  BY FS_Subset
<1>2. Cardinality(T) \in Nat /\ Cardinality(S) \in Nat
  BY <1>1, FS_CardinalityType
<1> QED
  BY <1>1, <1>2

-----------------------------------------------------------------------------
(* The sources that are left out: the wait that remains.  A source with its *)
(* flag set waits for the others of this round, then for the items, then for*)
(* those before it in the next round; one without a flag for the others of  *)
(* this round.  Each packet takes one at least of them away.                *)

\* How many packets a source may still be left out of.
RemainingOf(sdes, due, sent, flagged, s) ==
  IF sdes THEN Cardinality(due \ sent) + Cardinality(Reporters) - 1
  ELSE IF s \in flagged
  THEN Cardinality(Reporters \ flagged) + Cardinality(ItemSet) + Cardinality(Reporters)
  ELSE Cardinality(Reporters \ flagged) - 1

Remaining(s) == RemainingOf(processingsdes, doitem, processeditem, processed, s)

StarveInv ==
  /\ processed \subseteq Reporters
  /\ processingsdes => processed = {}
  /\ waiting \in [Reporters -> Nat]
  /\ \A s \in Reporters :
       waiting[s] + Remaining(s) < 2 * Cardinality(Reporters) + Cardinality(ItemSet)

\* It is a number, and below the limit.
LEMMA RemainingBound ==
  ASSUME NEW sdes \in BOOLEAN, NEW due \in SUBSET ItemSet, NEW sent,
         NEW flagged \in SUBSET Reporters, NEW s \in Reporters
  PROVE  /\ RemainingOf(sdes, due, sent, flagged, s) \in Nat
         /\ RemainingOf(sdes, due, sent, flagged, s)
              < 2 * Cardinality(Reporters) + Cardinality(ItemSet)
<1> DEFINE r == Cardinality(Reporters)
           m == Cardinality(ItemSet)
           d == Cardinality(due \ sent)
           l == Cardinality(Reporters \ flagged)
<1>1. r \in Nat /\ m \in Nat /\ d \in Nat /\ d <= m
  <2>1. due \ sent \in SUBSET ItemSet
    OBVIOUS
  <2>2. Cardinality(due \ sent) \in Nat /\ Cardinality(ItemSet) \in Nat
        /\ Cardinality(due \ sent) <= Cardinality(ItemSet)
    BY <2>1, BuilderFinite, Parts, Zenon
  <2>3. r \in Nat
    BY BuilderFinite, FS_CardinalityType
  <2> QED
    BY <2>2, <2>3
<1>2. l \in Nat /\ l <= r /\ (s \in flagged => l < r) /\ r > 0
  <2>1. /\ Reporters \ flagged \in SUBSET Reporters
        /\ s \in flagged => Reporters \ flagged # Reporters
        /\ Reporters \ {s} \in SUBSET Reporters /\ Reporters \ {s} # Reporters
    OBVIOUS
  <2>2. l \in Nat /\ l <= r /\ (s \in flagged => l < r)
    BY <2>1, BuilderFinite, Parts, Zenon
  <2>3. Cardinality(Reporters \ {s}) \in Nat /\ Cardinality(Reporters \ {s}) < r
    BY <2>1, BuilderFinite, Parts, Zenon
  <2> QED
    BY <1>1, <2>2, <2>3
<1>3. s \notin flagged => l > 0
  <2>1. ASSUME s \notin flagged PROVE l > 0
    <3> DEFINE S == Reporters \ flagged
    <3>1. S \in SUBSET Reporters /\ S \ {s} \in SUBSET S /\ S \ {s} # S
      BY <2>1
    <3> HIDE DEF S
    <3>2. IsFiniteSet(S)
      BY <3>1, BuilderFinite, FS_Subset
    <3>3. Cardinality(S \ {s}) \in Nat /\ Cardinality(S \ {s}) < Cardinality(S)
      BY <3>1, <3>2, Parts, Zenon
    <3>4. Cardinality(S) \in Nat /\ Cardinality(S) > 0
      BY <3>2, <3>3, FS_CardinalityType
    <3> QED
      BY <3>4 DEF S
  <2> QED
    BY <2>1
<1>4. RemainingOf(sdes, due, sent, flagged, s) =
        IF sdes THEN d + r - 1 ELSE IF s \in flagged THEN l + m + r ELSE l - 1
  BY DEF RemainingOf
<1> HIDE DEF r, m, d, l
<1>5. RemainingOf(sdes, due, sent, flagged, s) \in Nat
      /\ RemainingOf(sdes, due, sent, flagged, s) < 2 * r + m
  BY <1>1, <1>2, <1>3, <1>4
<1> QED
  BY <1>5 DEF r, m

\* A packet that brings each source it leaves out nearer to its turn.
LEMMA PacketStarves ==
  ASSUME StarveInv, BuilderTypes, BuilderTypes', NEW pk, NEW flagged \in SUBSET Reporters,
         Finish(pk, flagged), processingsdes' => flagged = {},
         \A s \in Reporters :
           s \notin Range(pk.blocks) /\ ShouldProcess(s) => Remaining(s)' < Remaining(s)
  PROVE  StarveInv'
<1> DEFINE max == 2 * Cardinality(Reporters) + Cardinality(ItemSet)
<1>1. /\ processed' = flagged
      /\ waiting' = [s \in Reporters |->
           IF s \in Range(pk.blocks) \/ ~ShouldProcess(s) THEN 0 ELSE waiting[s] + 1]
  BY DEF Finish
<1>2. waiting \in [Reporters -> Nat] /\ processed \in SUBSET Reporters
  BY DEF StarveInv
<1>3. /\ \A s \in Reporters : Remaining(s)' \in Nat /\ Remaining(s)' < max
      /\ \A s \in Reporters : Remaining(s) \in Nat
  <2>1. /\ processingsdes \in BOOLEAN /\ doitem \in SUBSET ItemSet
        /\ processingsdes' \in BOOLEAN /\ doitem' \in SUBSET ItemSet
    BY DEF BuilderTypes
  <2>2. \A s \in Reporters : Remaining(s) \in Nat
    BY <1>2, <2>1, RemainingBound DEF Remaining
  <2>3. ASSUME NEW s \in Reporters
        PROVE  Remaining(s)' \in Nat /\ Remaining(s)' < max
    <3>1. Remaining(s)' = RemainingOf(processingsdes', doitem', processeditem', flagged, s)
      BY <1>1 DEF Remaining, RemainingOf
    <3> QED
      BY <2>1, <3>1, RemainingBound
  <2> QED
    BY <2>2, <2>3
<1>4. max \in Nat
  <2>1. Cardinality(Reporters) \in Nat /\ Cardinality(ItemSet) \in Nat
    BY BuilderFinite, FS_CardinalityType
  <2> QED
    BY <2>1
<1>5. \A s \in Reporters : waiting[s] + Remaining(s) < max
  BY DEF StarveInv
<1> HIDE DEF max
<1>6. waiting' \in [Reporters -> Nat]
  BY <1>1, <1>2
<1>7. ASSUME NEW s \in Reporters
      PROVE  waiting'[s] + Remaining(s)' < max
  <2>1. CASE s \in Range(pk.blocks) \/ ~ShouldProcess(s)
    <3>1. waiting'[s] = 0
      BY <1>1, <2>1
    <3> QED
      BY <1>3, <3>1
  <2>2. CASE ~(s \in Range(pk.blocks) \/ ~ShouldProcess(s))
    <3>1. waiting'[s] = waiting[s] + 1
      BY <1>1, <2>2
    <3>2. Remaining(s)' < Remaining(s)
      BY <2>2
    <3>3. waiting[s] + Remaining(s) < max /\ waiting[s] \in Nat
      BY <1>2, <1>5
    <3> DEFINE before == Remaining(s)
               after == Remaining(s)'
    <3>4. before \in Nat /\ after \in Nat
      BY <1>3
    <3> HIDE DEF before, after
    <3>5. after < before => waiting[s] + 1 + after <= waiting[s] + before
      BY <3>3, <3>4
    <3> QED
      BY <1>4, <3>1, <3>2, <3>3, <3>4, <3>5 DEF before, after
  <2> QED
    BY <2>1, <2>2
<1> QED
  BY <1>1, <1>6, <1>7 DEF StarveInv, max

\* The numbers that Remaining is made of.
LEMMA RemainingParts ==
  ASSUME NEW due \in SUBSET ItemSet, NEW sent, NEW flagged \in SUBSET Reporters
  PROVE  /\ Cardinality(Reporters) \in Nat /\ Cardinality(ItemSet) \in Nat
         /\ Cardinality(due \ sent) \in Nat
         /\ Cardinality(due \ sent) <= Cardinality(ItemSet)
         /\ Cardinality(Reporters \ flagged) \in Nat
         /\ Cardinality(Reporters \ flagged) <= Cardinality(Reporters)
<1>1. due \ sent \in SUBSET ItemSet /\ Reporters \ flagged \in SUBSET Reporters
  OBVIOUS
<1>2. /\ Cardinality(due \ sent) \in Nat /\ Cardinality(ItemSet) \in Nat
      /\ Cardinality(due \ sent) <= Cardinality(ItemSet)
  BY <1>1, BuilderFinite, Parts, Zenon
<1>3. /\ Cardinality(Reporters \ flagged) \in Nat /\ Cardinality(Reporters) \in Nat
      /\ Cardinality(Reporters \ flagged) <= Cardinality(Reporters)
  BY <1>1, BuilderFinite, Parts, Zenon
<1> QED
  BY <1>2, <1>3

\* A smaller part of the sources or of the items.
LEMMA FewerParts ==
  ASSUME NEW S, S \in SUBSET Reporters \/ S \in SUBSET ItemSet, NEW T \in SUBSET S, T # S
  PROVE  Cardinality(T) < Cardinality(S)
<1>1. IsFiniteSet(S)
  BY BuilderFinite, FS_Subset
<1> QED
  BY <1>1, Parts, Zenon

\* With report blocks for others a source comes nearer to its own.
LEMMA BlocksBefore ==
  ASSUME NEW due1 \in SUBSET ItemSet, NEW due2 \in SUBSET ItemSet, NEW sent1, NEW sent2,
         NEW more \in SUBSET Reporters, NEW flagged \in SUBSET more, flagged # more,
         NEW s, s \in flagged <=> s \in more
  PROVE  RemainingOf(FALSE, due2, sent2, more, s) < RemainingOf(FALSE, due1, sent1, flagged, s)
<1> DEFINE r == Cardinality(Reporters)
           m == Cardinality(ItemSet)
           l1 == Cardinality(Reporters \ flagged)
           l2 == Cardinality(Reporters \ more)
<1>1. l2 < l1
  <2>1. /\ Reporters \ flagged \in SUBSET Reporters
        /\ Reporters \ more \in SUBSET (Reporters \ flagged)
        /\ Reporters \ more # Reporters \ flagged
    OBVIOUS
  <2> QED
    BY <2>1, FewerParts, Zenon
<1>2. r \in Nat /\ m \in Nat /\ l1 \in Nat /\ l2 \in Nat
  <2>1. flagged \in SUBSET Reporters
    OBVIOUS
  <2> QED
    BY <2>1, RemainingParts
<1> HIDE DEF r, m, l1, l2
<1>3. CASE s \in flagged
  <2>1. l2 + m + r < l1 + m + r
    BY <1>1, <1>2
  <2> QED
    BY <1>3, <2>1 DEF RemainingOf, r, m, l1, l2
<1>4. CASE s \notin flagged
  <2>1. l2 - 1 < l1 - 1
    BY <1>1, <1>2
  <2> QED
    BY <1>4, <2>1 DEF RemainingOf, l1, l2
<1> QED
  BY <1>3, <1>4

\* A source that has to wait for the items waits for the reports before them too.
LEMMA ItemsBefore ==
  ASSUME NEW due1 \in SUBSET ItemSet, NEW due2 \in SUBSET ItemSet, NEW sent1, NEW sent2,
         NEW flagged \in SUBSET Reporters, NEW more \in SUBSET Reporters,
         NEW sdes \in BOOLEAN, NEW s, s \in flagged, s \notin more
  PROVE  RemainingOf(sdes, due2, sent2, more, s) < RemainingOf(FALSE, due1, sent1, flagged, s)
<1> DEFINE r == Cardinality(Reporters)
           m == Cardinality(ItemSet)
           l1 == Cardinality(Reporters \ flagged)
           l2 == Cardinality(Reporters \ more)
           d == Cardinality(due2 \ sent2)
<1>1. /\ r \in Nat /\ m \in Nat /\ l1 \in Nat /\ l2 \in Nat /\ l2 <= r /\ d \in Nat /\ d <= m
  BY RemainingParts
<1> HIDE DEF r, m, l1, l2, d
<1>2. d + r - 1 < l1 + m + r /\ l2 - 1 < l1 + m + r
  BY <1>1
<1> QED
  BY <1>2 DEF RemainingOf, r, m, l1, l2, d

\* With an item sent it comes nearer as well, and with the last one to the reports.
LEMMA ItemSent ==
  ASSUME NEW due \in SUBSET ItemSet, NEW sent, NEW after, sent \subseteq after,
         after \ sent \subseteq due, after # sent,
         NEW due2 \in SUBSET ItemSet, NEW sent2,
         NEW flagged \in SUBSET Reporters, NEW more \in SUBSET Reporters, NEW s, s \notin more
  PROVE  /\ RemainingOf(TRUE, due, after, more, s) < RemainingOf(TRUE, due, sent, flagged, s)
         /\ RemainingOf(FALSE, due2, sent2, more, s) < RemainingOf(TRUE, due, sent, flagged, s)
<1> DEFINE r == Cardinality(Reporters)
           l == Cardinality(Reporters \ more)
           d1 == Cardinality(due \ sent)
           d2 == Cardinality(due \ after)
<1>1. d2 < d1
  <2>1. /\ due \ sent \in SUBSET ItemSet /\ due \ after \in SUBSET (due \ sent)
        /\ due \ after # due \ sent
    OBVIOUS
  <2> QED
    BY <2>1, FewerParts, Zenon
<1>2. r \in Nat /\ d1 \in Nat /\ d2 \in Nat /\ l \in Nat /\ l <= r
  BY RemainingParts
<1> HIDE DEF r, l, d1, d2
<1>3. d2 + r - 1 < d1 + r - 1 /\ l - 1 < d1 + r - 1
  BY <1>1, <1>2
<1> QED
  BY <1>3 DEF RemainingOf, r, l, d1, d2

\* What the steps need to know of the numbers and the packet that is begun.
LEMMA StarveTypes ==
  ASSUME BuilderInv, StarveInv, init
  PROVE  /\ sender \in BOOLEAN /\ processeditem \in SUBSET ItemSet /\ doitem \in SUBSET ItemSet
         /\ processed \in SUBSET Reporters /\ processed \in SUBSET Range(Table)
         /\ Due \in SUBSET ItemSet /\ Len(Table) \in Nat
         /\ StartPacket(sender) \in OneChunk /\ StartPacket(sender) \in BuilderPacks
<1>1. Len(Table) \in Nat /\ Sizes \subseteq Nat
  BY BuilderAssumption
<1>2. /\ sender \in BOOLEAN /\ processeditem \in SUBSET ItemSet /\ doitem \in SUBSET ItemSet
      /\ processed \in SUBSET Range(Table) /\ maxpacketsize \in Nat
  BY <1>1 DEF BuilderInv, BuilderTypes
<1>3. processed \in SUBSET Reporters /\ Due \in SUBSET ItemSet
  BY DEF StarveInv, Due
<1>4. StartPacket(sender) \in OneChunk /\ StartPacket(sender) \in BuilderPacks
  BY <1>2, StartCount DEF OneChunk
<1> QED
  BY <1>1, <1>2, <1>3, <1>4

\* A packet with report blocks only.
LEMMA ReportsStarve ==
  ASSUME BuilderInv, BuilderInv', StarveInv, init, ~processingsdes,
         BuildReports(FillInReportBlocks(StartPacket(sender), processed, Len(Table)))
  PROVE  StarveInv'
<1> DEFINE p == StartPacket(sender)
           fill == FillInReportBlocks(p, processed, Len(Table))
<1>1. /\ processed \in SUBSET Reporters /\ processed \in SUBSET Range(Table)
      /\ doitem \in SUBSET ItemSet /\ Len(Table) \in Nat /\ p \in BuilderPacks
  BY StarveTypes
<1> HIDE DEF p
<1>2. /\ processed \subseteq fill.processed
      /\ fill.processed \ processed \subseteq Reporters \cap Range(fill.pack.blocks)
      /\ fill.added > 0 => fill.processed # processed
  <2>1. ReportRulesOf(fill, p, processed, Len(Table))
    BY <1>1, BlocksReported
  <2> HIDE DEF fill
  <2> QED
    BY <2>1, Zenon DEF ReportRulesOf
<1>3. BuildReports(fill)
  BY DEF fill, p
<1> HIDE DEF fill
<1>4. /\ fill.added > 0 /\ Finish(fill.pack, fill.processed)
      /\ processed' = fill.processed
      /\ UNCHANGED <<processingsdes, doitem, processeditem>>
  BY <1>3 DEF BuildReports, Finish
<1>5. fill.processed \in SUBSET Reporters /\ fill.processed # processed
  BY <1>1, <1>2, <1>4
<1>6. ASSUME NEW s \in Reporters, s \notin Range(fill.pack.blocks)
      PROVE  Remaining(s)' < Remaining(s)
  <2>1. s \in processed <=> s \in fill.processed
    BY <1>2, <1>6
  <2>2. RemainingOf(FALSE, doitem, processeditem, fill.processed, s)
          < RemainingOf(FALSE, doitem, processeditem, processed, s)
    BY <1>1, <1>2, <1>5, <2>1, BlocksBefore
  <2>3. /\ Remaining(s) = RemainingOf(FALSE, doitem, processeditem, processed, s)
        /\ Remaining(s)' = RemainingOf(FALSE, doitem, processeditem, fill.processed, s)
    BY <1>4 DEF Remaining, RemainingOf
  <2> QED
    BY <2>2, <2>3
<1> QED
  BY <1>4, <1>5, <1>6, PacketStarves DEF BuilderInv

\* A packet with the last report blocks and the first items.
LEMMA ReportsAndSDESStarve ==
  ASSUME BuilderInv, BuilderInv', StarveInv, init, ~processingsdes,
         BuildReportsAndSDES(FillInReportBlocks(StartPacket(sender), processed, Len(Table)))
  PROVE  StarveInv'
<1> DEFINE p == StartPacket(sender)
           fill == FillInReportBlocks(p, processed, Len(Table))
           sdes == FillInSDES(fill.pack, Due, processeditem)
           again == FillInReportBlocks(sdes.pack, {}, fill.skipped)
<1>1. /\ processed \in SUBSET Reporters /\ processed \in SUBSET Range(Table)
      /\ processeditem \in SUBSET ItemSet /\ Due \in SUBSET ItemSet
      /\ doitem \in SUBSET ItemSet /\ Len(Table) \in Nat
      /\ p \in OneChunk /\ p \in BuilderPacks
  BY StarveTypes
<1> HIDE DEF p
<1>2. /\ fill.processed \ processed \subseteq Reporters \cap Range(fill.pack.blocks)
      /\ ~fill.full => \A s \in Range(Table) : ShouldProcess(s) => s \in fill.processed
  <2>1. ReportRulesOf(fill, p, processed, Len(Table))
    BY <1>1, BlocksReported
  <2>2. Len(Table) >= Len(Table)
    BY <1>1
  <2> HIDE DEF fill
  <2> QED
    BY <2>1, <2>2, Zenon DEF ReportRulesOf
<1>3. fill.pack \in OneChunk /\ fill.skipped \in Nat
  <2>1. fill \in Fills /\ fill.pack.sdes = p.sdes
    BY <1>1, BlocksFilled
  <2> HIDE DEF fill
  <2> QED
    BY <1>1, <2>1 DEF Fills, OneChunk
<1>4. BuildReportsAndSDES(fill)
  BY DEF fill, p
<1> HIDE DEF fill
<1>5. sdes.pack \in BuilderPacks /\ sdes.full \in BOOLEAN /\ sdes.pack.blocks = fill.pack.blocks
  <2>1. SDESRules(sdes, fill.pack, Due, processeditem)
    BY <1>1, <1>3, SDESFilled
  <2> HIDE DEF sdes
  <2>2. sdes \in ItemFills /\ sdes.pack.blocks = fill.pack.blocks
    BY <2>1, Zenon DEF SDESRules
  <2> QED
    BY <2>2 DEF ItemFills, OneChunk
<1>6. /\ again.processed \subseteq Reporters \cap Range(again.pack.blocks)
      /\ Range(sdes.pack.blocks) \subseteq Range(again.pack.blocks)
  <2>1. {} \in SUBSET Range(Table)
    OBVIOUS
  <2>2. ReportRulesOf(again, sdes.pack, {}, fill.skipped)
    BY <1>3, <1>5, <2>1, BlocksReported
  <2> HIDE DEF again
  <2> QED
    BY <2>2 DEF ReportRulesOf
<1>7. /\ ~fill.full
      /\ doitem' = Due /\ processingsdes' = sdes.full
      /\ IF ~sdes.full /\ fill.skipped > 0
         THEN Finish(again.pack, again.processed)
         ELSE Finish(sdes.pack, {})
  BY <1>4, Zenon DEF BuildReportsAndSDES, sdes, again
<1> HIDE DEF sdes, again
<1>8. \E pk : \E flagged \in SUBSET Reporters :
           /\ Finish(pk, flagged) /\ (processingsdes' => flagged = {})
           /\ flagged \subseteq Range(pk.blocks) /\ Range(fill.pack.blocks) \subseteq Range(pk.blocks)
  <2>1. CASE ~sdes.full /\ fill.skipped > 0
    <3>1. again.processed \in SUBSET Reporters
      BY <1>6
    <3>2. /\ Finish(again.pack, again.processed) /\ (processingsdes' => again.processed = {})
          /\ again.processed \subseteq Range(again.pack.blocks)
          /\ Range(fill.pack.blocks) \subseteq Range(again.pack.blocks)
      BY <1>5, <1>6, <1>7, <2>1
    <3> QED
      BY <3>1, <3>2, Zenon
  <2>2. CASE ~(~sdes.full /\ fill.skipped > 0)
    <3>1. /\ Finish(sdes.pack, {}) /\ {} \in SUBSET Reporters
          /\ {} \subseteq Range(sdes.pack.blocks)
          /\ Range(fill.pack.blocks) \subseteq Range(sdes.pack.blocks)
      BY <1>5, <1>7, <2>2
    <3> QED
      BY <3>1, Zenon
  <2> QED
    BY <2>1, <2>2
<1>9. PICK pk : \E flagged \in SUBSET Reporters :
           /\ Finish(pk, flagged) /\ (processingsdes' => flagged = {})
           /\ flagged \subseteq Range(pk.blocks) /\ Range(fill.pack.blocks) \subseteq Range(pk.blocks)
  BY <1>8
<1>10. PICK flagged \in SUBSET Reporters :
           /\ Finish(pk, flagged) /\ (processingsdes' => flagged = {})
           /\ flagged \subseteq Range(pk.blocks) /\ Range(fill.pack.blocks) \subseteq Range(pk.blocks)
  BY <1>9
<1>11. ASSUME NEW s \in Reporters, s \notin Range(pk.blocks) /\ ShouldProcess(s)
      PROVE  Remaining(s)' < Remaining(s)
  <2>1. s \in Range(Table)
    BY DEF Reporters
  <2>2. s \in processed /\ s \notin flagged
    BY <1>2, <1>7, <1>10, <1>11, <2>1
  <2>3. RemainingOf(sdes.full, Due, processeditem', flagged, s)
          < RemainingOf(FALSE, doitem, processeditem, processed, s)
    BY <1>1, <1>5, <2>2, ItemsBefore
  <2>4. processed' = flagged
    BY <1>10 DEF Finish
  <2>5. /\ Remaining(s) = RemainingOf(FALSE, doitem, processeditem, processed, s)
        /\ Remaining(s)' = RemainingOf(sdes.full, Due, processeditem', flagged, s)
    BY <1>7, <2>4 DEF Remaining, RemainingOf
  <2> QED
    BY <2>3, <2>5
<1> QED
  BY <1>10, <1>11, PacketStarves DEF BuilderInv

\* A packet that goes on with the items.
LEMMA SDESStarve ==
  ASSUME BuilderInv, BuilderInv', StarveInv, init, processingsdes, BuildSDES
  PROVE  StarveInv'
<1> DEFINE p == StartPacket(sender)
           sdes == FillInSDES(p, doitem, processeditem)
           fill == FillInReportBlocks(sdes.pack, processed, Len(Table))
<1>1. /\ processed = {} /\ processed \in SUBSET Range(Table) /\ processed \in SUBSET Reporters
      /\ processeditem \in SUBSET ItemSet
      /\ doitem \in SUBSET ItemSet /\ Len(Table) \in Nat /\ p \in OneChunk
  BY StarveTypes DEF StarveInv
<1> HIDE DEF p
<1>2. /\ sdes.pack \in BuilderPacks /\ sdes.full \in BOOLEAN
      /\ processeditem \subseteq sdes.processed
      /\ sdes.processed \ processeditem \subseteq doitem
  <2>1. SDESRules(sdes, p, doitem, processeditem)
    BY <1>1, SDESFilled
  <2> HIDE DEF sdes
  <2>2. /\ sdes \in ItemFills
        /\ processeditem \subseteq sdes.processed
        /\ sdes.processed \ processeditem \subseteq doitem
    BY <2>1, Zenon DEF SDESRules
  <2> QED
    BY <2>2 DEF ItemFills, OneChunk
<1>3. fill.processed \subseteq Reporters \cap Range(fill.pack.blocks)
  <2>1. ReportRulesOf(fill, sdes.pack, processed, Len(Table))
    BY <1>1, <1>2, BlocksReported
  <2> HIDE DEF fill
  <2> QED
    BY <1>1, <2>1 DEF ReportRulesOf
<1>4. /\ sdes.processed # processeditem
      /\ processingsdes' = sdes.full
      /\ processeditem' = IF sdes.full THEN sdes.processed ELSE {}
      /\ IF sdes.full THEN Finish(sdes.pack, processed)
         ELSE Finish(fill.pack, IF AtEndOfList(fill) THEN {} ELSE fill.processed)
      /\ doitem' = doitem
  BY Zenon DEF BuildSDES, sdes, fill, p
<1> HIDE DEF sdes, fill
<1>5. \E pk : \E flagged \in SUBSET Reporters :
           /\ Finish(pk, flagged) /\ (processingsdes' => flagged = {})
           /\ flagged \subseteq Range(pk.blocks)
  <2>1. CASE sdes.full
    <3>1. Finish(sdes.pack, {}) /\ {} \in SUBSET Reporters /\ {} \subseteq Range(sdes.pack.blocks)
      BY <1>1, <1>4, <2>1
    <3> QED
      BY <3>1, Zenon
  <2>2. CASE ~sdes.full
    <3> DEFINE flagged == IF AtEndOfList(fill) THEN {} ELSE fill.processed
    <3>1. flagged \in SUBSET Reporters /\ flagged \subseteq Range(fill.pack.blocks)
      BY <1>3
    <3>2. Finish(fill.pack, flagged) /\ ~processingsdes'
      BY <1>2, <1>4, <2>2, Zenon
    <3> HIDE DEF flagged
    <3> QED
      BY <3>1, <3>2, Zenon
  <2> QED
    BY <1>2, <2>1, <2>2
<1>6. PICK pk : \E flagged \in SUBSET Reporters :
           /\ Finish(pk, flagged) /\ (processingsdes' => flagged = {})
           /\ flagged \subseteq Range(pk.blocks)
  BY <1>5
<1>7. PICK flagged \in SUBSET Reporters :
           /\ Finish(pk, flagged) /\ (processingsdes' => flagged = {})
           /\ flagged \subseteq Range(pk.blocks)
  BY <1>6
<1>8. ASSUME NEW s \in Reporters, s \notin Range(pk.blocks)
      PROVE  Remaining(s)' < Remaining(s)
  <2>1. s \notin flagged
    BY <1>7, <1>8
  <2>2. /\ RemainingOf(TRUE, doitem, sdes.processed, flagged, s)
             < RemainingOf(TRUE, doitem, processeditem, processed, s)
        /\ RemainingOf(FALSE, doitem, {}, flagged, s)
             < RemainingOf(TRUE, doitem, processeditem, processed, s)
    BY <1>1, <1>2, <1>4, <2>1, ItemSent
  <2>3. processed' = flagged
    BY <1>7 DEF Finish
  <2>4. Remaining(s) = RemainingOf(TRUE, doitem, processeditem, processed, s)
    BY DEF Remaining, RemainingOf
  <2>5. Remaining(s)' = IF sdes.full THEN RemainingOf(TRUE, doitem, sdes.processed, flagged, s)
                        ELSE RemainingOf(FALSE, doitem, {}, flagged, s)
    BY <1>2, <1>4, <2>3 DEF Remaining, RemainingOf
  <2> QED
    BY <1>2, <2>2, <2>4, <2>5
<1> QED
  BY <1>7, <1>8, PacketStarves DEF BuilderInv

\* Only Init and BuildNextPacket concern it.
LEMMA SameStarve ==
  ASSUME StarveInv,
         UNCHANGED <<processingsdes, doitem, processeditem, processed, waiting>>
  PROVE  StarveInv'
<1>1. \A s : Remaining(s)' = Remaining(s)
  BY DEF Remaining, RemainingOf
<1> QED
  BY <1>1 DEF StarveInv

\* The counts are all 0 after Init.
LEMMA StarveBegins ==
  ASSUME NEW due \in SUBSET ItemSet, NEW sent, NEW s \in Reporters
  PROVE  0 + RemainingOf(FALSE, due, sent, {}, s)
           < 2 * Cardinality(Reporters) + Cardinality(ItemSet)
<1> DEFINE n == RemainingOf(FALSE, due, sent, {}, s)
           max == 2 * Cardinality(Reporters) + Cardinality(ItemSet)
<1>1. n \in Nat /\ n < max
  <2>1. {} \in SUBSET Reporters /\ FALSE \in BOOLEAN
    OBVIOUS
  <2> QED
    BY <2>1, RemainingBound, Zenon
<1>2. 0 + n = n
  <2> HIDE DEF n
  <2> QED
    BY <1>1
<1> QED
  BY <1>1, <1>2, Zenon

\* Every packet brings the sources it leaves out nearer to their turn.
LEMMA StarveStep ==
  BuilderInv /\ BuilderInv' /\ StarveInv /\ [BuilderNext]_buildervars => StarveInv'
<1> SUFFICES ASSUME BuilderInv, BuilderInv', StarveInv, [BuilderNext]_buildervars
             PROVE  StarveInv'
  OBVIOUS
<1>1. ASSUME NEW size \in Sizes, InitBuilder(size) PROVE StarveInv'
  <2>1. /\ processingsdes' = FALSE /\ processed' = {}
        /\ waiting' = [s \in Reporters |-> 0]
        /\ doitem' = doitem /\ processeditem' = processeditem
    BY <1>1 DEF InitBuilder
  <2>2. doitem \in SUBSET ItemSet
    BY DEF BuilderInv, BuilderTypes
  <2>3. ASSUME NEW s \in Reporters
        PROVE  waiting'[s] + Remaining(s)'
                 < 2 * Cardinality(Reporters) + Cardinality(ItemSet)
    <3>1. waiting'[s] = 0
      BY <2>1
    <3>2. Remaining(s)' = RemainingOf(FALSE, doitem, processeditem, {}, s)
      BY <2>1 DEF Remaining, RemainingOf
    <3>3. 0 + RemainingOf(FALSE, doitem, processeditem, {}, s)
            < 2 * Cardinality(Reporters) + Cardinality(ItemSet)
      BY <2>2, StarveBegins
    <3> QED
      BY <3>1, <3>2, <3>3, Zenon
  <2>4. waiting' \in [Reporters -> Nat]
    BY <2>1
  <2> QED
    BY <2>1, <2>3, <2>4 DEF StarveInv
<1>2. ASSUME NEW size \in Sizes, SetMaximumPacketSize(size) PROVE StarveInv'
  BY <1>2, SameStarve DEF SetMaximumPacketSize, flags
<1>3. CASE Destroy
  BY <1>3, SameStarve DEF Destroy, flags
<1>4. ASSUME NEW item \in ItemSet, NEW count \in Intervals, SetInterval(item, count)
      PROVE  StarveInv'
  BY <1>4, SameStarve DEF SetInterval, flags
<1>5. ASSUME NEW s \in Range(Table), ReceiveRTP(s) PROVE StarveInv'
  BY <1>5, SameStarve DEF ReceiveRTP, flags
<1>6. CASE BuildNextPacket
  <2> DEFINE fill == FillInReportBlocks(StartPacket(sender), processed, Len(Table))
  <2>1. /\ init
        /\ IF processingsdes THEN BuildSDES ELSE BuildReports(fill) \/ BuildReportsAndSDES(fill)
    BY <1>6 DEF BuildNextPacket
  <2>2. processingsdes \in BOOLEAN
    BY DEF BuilderInv, BuilderTypes
  <2> QED
    BY <2>1, <2>2, SDESStarve, ReportsStarve, ReportsAndSDESStarve
<1>7. ASSUME NEW usesr \in BOOLEAN, BuildBYEPacket(CNAMELength, usesr) PROVE StarveInv'
  BY <1>7, SameStarve DEF BuildBYEPacket, flags
<1>8. CASE UNCHANGED buildervars
  BY <1>8, SameStarve DEF buildervars, flags
<1> QED
  BY <1>1, <1>2, <1>3, <1>4, <1>5, <1>6, <1>7, <1>8 DEF BuilderNext

\* Nobody waits to begin with.
LEMMA StarveStart == BuilderInit => StarveInv
<1> SUFFICES ASSUME BuilderInit PROVE StarveInv
  OBVIOUS
<1>1. /\ processingsdes = FALSE /\ processed = {} /\ doitem = {} /\ processeditem = {}
      /\ waiting = [s \in Reporters |-> 0]
  BY DEF BuilderInit
<1>2. ASSUME NEW s \in Reporters
      PROVE  waiting[s] + Remaining(s) < 2 * Cardinality(Reporters) + Cardinality(ItemSet)
  <2>1. waiting[s] = 0
    BY <1>1
  <2>2. Remaining(s) = RemainingOf(FALSE, {}, {}, {}, s)
    BY <1>1 DEF Remaining, RemainingOf
  <2>3. {} \in SUBSET ItemSet
    OBVIOUS
  <2>4. 0 + RemainingOf(FALSE, {}, {}, {}, s)
          < 2 * Cardinality(Reporters) + Cardinality(ItemSet)
    BY <2>3, StarveBegins
  <2> QED
    BY <2>1, <2>2, <2>4, Zenon
<1>3. waiting \in [Reporters -> Nat]
  BY <1>1
<1> QED
  BY <1>1, <1>2, <1>3 DEF StarveInv

\* What is left to wait is a number, so the wait is below the limit.
LEMMA StarvesNobody == BuilderInv /\ StarveInv => NobodyStarves
<1> SUFFICES ASSUME BuilderInv, StarveInv, NEW s \in Reporters
             PROVE  waiting[s] < 2 * Cardinality(Reporters) + Cardinality(ItemSet)
  BY DEF NobodyStarves
<1> DEFINE n == Remaining(s)
           max == 2 * Cardinality(Reporters) + Cardinality(ItemSet)
<1>1. n \in Nat
  <2>1. /\ processingsdes \in BOOLEAN /\ doitem \in SUBSET ItemSet
        /\ processed \in SUBSET Reporters
    BY DEF BuilderInv, BuilderTypes, StarveInv
  <2> QED
    BY <2>1, RemainingBound DEF Remaining
<1>2. waiting[s] \in Nat /\ waiting[s] + n < max
  BY DEF StarveInv
<1>3. max \in Nat
  <2>1. Cardinality(Reporters) \in Nat /\ Cardinality(ItemSet) \in Nat
    BY BuilderFinite, FS_CardinalityType
  <2> QED
    BY <2>1
<1> HIDE DEF n, max
<1>4. waiting[s] < max
  BY <1>1, <1>2, <1>3
<1> QED
  BY <1>4 DEF max

\* A source that is heard before every packet is reported in the end: fewer
\* packets than there are items and twice the sources go by without it, however
\* the maximum size and the intervals of the items are changed between them
\* (RTCPPacketBuilder).
THEOREM StarvesSafe == BuilderSpec => []NobodyStarves
<1>1. BuilderInit => BuilderInv /\ StarveInv
  BY BuilderStart, StarveStart
<1>2. BuilderInv /\ StarveInv /\ [BuilderNext]_buildervars => (BuilderInv /\ StarveInv)'
  BY BuilderStep, StarveStep
<1> QED
  BY <1>1, <1>2, StarvesNobody, PTL DEF BuilderSpec

-----------------------------------------------------------------------------
(* The distance of packets: RTCPScheduler                                   *)

\* The numbers are numbers.
Types ==
  /\ avgrtcppacksize \in Nat /\ avgbyepacketsize \in Nat /\ byemembers \in Nat
  /\ past \in Nat /\ pmembers \in Nat /\ since \in Nat
  /\ active \in Nat /\ senders \in Nat

TimeInv == Types /\ past <= since

\* A quotient is a number.
LEMMA QuotientNat ==
  ASSUME NEW a \in Nat, NEW d \in Nat \ {0}
  PROVE  a \div d \in Nat
<1> QED OBVIOUS

\* A time that is scaled with fewer members does not grow.
LEMMA ScaledDown ==
  ASSUME NEW now \in Nat, NEW before \in Nat, now < before, NEW time \in Nat
  PROVE  (now * time) \div before \in Nat /\ (now * time) \div before <= time
<1>1. now * time \in Nat /\ now * time <= before * time
  OBVIOUS
<1> DEFINE product == now * time
           quotient == product \div before
<1>2. quotient \in Nat /\ before * quotient <= product
  <2>1. product \in Nat
    BY <1>1
  <2> HIDE DEF product
  <2> QED BY <2>1
<1>3. before * quotient <= before * time
  BY <1>1, <1>2
<1>4. quotient <= time
  <2> HIDE DEF quotient
  <2>1. SUFFICES ASSUME time + 1 <= quotient PROVE FALSE
    BY <1>2
  <2>2. before * (time + 1) <= before * quotient
    BY <2>1, <1>2
  <2> QED BY <2>2, <1>3, <1>2
<1> QED BY <1>2, <1>4

\* CheckTimes are numbers.
LEMMA RandomizedNat ==
  ASSUME NEW wait \in Nat
  PROVE  Randomized(wait) \subseteq Nat
<1> QED BY DEF Randomized

\* The intervals of the moment are numbers.
LEMMA IntervalsNat ==
  ASSUME Types
  PROVE  CheckTimes \subseteq Nat
<1> USE SchedulerAssumption
<1>1. ASSUME NEW n \in Nat, NEW size \in Nat
      PROVE  /\ (n * size) \div Bandwidth \in Nat
             /\ (n * size * 4) \div Bandwidth \in Nat
             /\ (n * size * 4) \div (3 * Bandwidth) \in Nat
  <2>1. n * size \in Nat /\ n * size * 4 \in Nat
    OBVIOUS
  <2>2. Bandwidth \in Nat \ {0} /\ 3 * Bandwidth \in Nat \ {0}
    OBVIOUS
  <2> QED BY <2>1, <2>2, QuotientNat
<1>2. MinInterval \in Nat /\ MinInterval \div 2 \in Nat
  OBVIOUS
<1>3. AtLeast(active, 1) \in Nat
  BY DEF Types, AtLeast
<1>4. CalculateDeterministicInterval(aresender) \in Nat
  BY SMTT(60), <1>1, <1>2, <1>3 DEF CalculateDeterministicInterval, Types, AtLeast
<1>5. TransmissionIntervals \subseteq Nat
  BY <1>4, RandomizedNat DEF TransmissionIntervals
<1>6. BYEIntervals \subseteq Nat
  <2> DEFINE least == IF UseHalfAtStartup THEN MinInterval \div 2 ELSE MinInterval
             needed == (byemembers * avgbyepacketsize * 4) \div (3 * Bandwidth)
  <2>1. AtLeast(least, needed) \in Nat
    <3>1. least \in Nat
      BY <1>2
    <3>2. needed \in Nat
      BY <1>1 DEF Types
    <3> HIDE DEF least, needed
    <3> QED BY <3>1, <3>2 DEF AtLeast
  <2>2. Randomized(AtLeast(least, needed)) \subseteq Nat
    BY <2>1, RandomizedNat
  <2>3. BYEIntervals = IF sendbyenow THEN {0} ELSE Randomized(AtLeast(least, needed))
    BY DEF BYEIntervals, CalculateBYETransmissionInterval
  <2> HIDE DEF least, needed
  <2> QED BY <2>2, <2>3
<1> QED BY <1>5, <1>6 DEF CheckTimes

\* The sizes of packets are numbers.
LEMMA SizesNat == PacketSizes \subseteq Nat
<1> QED BY SchedulerAssumption

\* No step says more time has passed than has.
LEMMA StepInv ==
  ASSUME TimeInv, [SchedNext]_schedvars
  PROVE  TimeInv'
<1>1. ASSUME NEW size \in PacketSizes, AnalyseIncoming(size) PROVE TimeInv'
  BY SizesNat, <1>1 DEF TimeInv, Types, AnalyseIncoming, AverageIn, Averages, timers, byevars, members
<1>2. ASSUME NEW size \in PacketSizes, AnalyseOutgoing(size) PROVE TimeInv'
  BY SizesNat, <1>2 DEF TimeInv, Types, AnalyseOutgoing, AverageIn, Averages, timers, byevars, members
<1>3. ASSUME NEW size \in PacketSizes, AnalyseIncomingBYE(size) PROVE TimeInv'
  BY SizesNat, <1>3 DEF TimeInv, Types, AnalyseIncomingBYE, Averages, sizes, timers, members
<1>4. ASSUME NEW size \in PacketSizes, ScheduleBYEPacket(size) PROVE TimeInv'
  BY SizesNat, <1>4 DEF TimeInv, Types, ScheduleBYEPacket, sizes, members
<1>5. CASE FirstCall
  BY <1>5 DEF TimeInv, Types, FirstCall, sizes, byevars, members
<1>6. CASE PacketDue
  BY <1>6 DEF TimeInv, Types, PacketDue, NoBYE, sizes, members
<1>7. CASE Reconsider
  BY <1>7 DEF TimeInv, Types, Reconsider, sizes, byevars, members
<1>8. CASE Reset
  BY SizesNat, <1>8 DEF TimeInv, Types, Reset, NoBYE, timers, members
<1>9. CASE MemberComes
  BY <1>9 DEF TimeInv, Types, MemberComes, sizes, timers, byevars
<1>10. CASE MemberGoes
  <2>1. /\ active' = active - 1 /\ active' \in Nat
        /\ UNCHANGED <<firstcall, sizes, byevars, senders, since>>
    BY <1>10 DEF MemberGoes, TimeInv, Types
  <2>2. CASE ~firstcall /\ active - 1 < pmembers
    <3>1. PerformReverseReconsideration(active - 1)
      BY <1>10, <2>2 DEF MemberGoes, ActiveMemberDecrease
    <3>2. AtLeast(pmembers, 1) = pmembers
      BY <2>1, <2>2 DEF AtLeast, TimeInv, Types
    <3>3. past' \in Nat /\ past' <= past /\ pmembers' \in Nat
      BY <3>1, <3>2, <2>1, <2>2, ScaledDown
      DEF PerformReverseReconsideration, TimeInv, Types
    <3> QED BY <2>1, <3>3 DEF TimeInv, Types, sizes, byevars
  <2>3. CASE ~(~firstcall /\ active - 1 < pmembers)
    BY <1>10, <2>1, <2>3
    DEF MemberGoes, ActiveMemberDecrease, TimeInv, Types, sizes, timers, byevars
  <2> QED BY <2>2, <2>3
<1>11. CASE SendersChange
  BY <1>11 DEF TimeInv, Types, SendersChange, sizes, timers, byevars
<1>12. CASE Tick
  BY <1>12 DEF TimeInv, Types, Tick, sizes, byevars, members
<1>13. CASE UNCHANGED schedvars
  BY <1>13 DEF TimeInv, Types, schedvars, sizes, timers, byevars, members
<1> QED
  BY <1>1, <1>2, <1>3, <1>4, <1>5, <1>6, <1>7, <1>8, <1>9, <1>10, <1>11,
     <1>12, <1>13 DEF SchedNext, IsTime

\* IsTime never takes more time to have passed than has.
LEMMA TimeSafe == SchedSpec => []TimeInv
<1>1. SchedInit => TimeInv
  BY SizesNat DEF SchedInit, TimeInv, Types
<1> QED BY <1>1, StepInv, PTL DEF SchedSpec

\* Between two packets at least the shortest interval passes that the members
\* and senders of the moment demand: timer reconsideration and reverse
\* reconsideration together never let a packet out early (RTCPScheduler).
THEOREM SpacingSafe == SchedSpec => PacketsSpaced
<1>1. TimeInv /\ PacketDue => EnoughTime
  <2> SUFFICES ASSUME TimeInv, PacketDue
               PROVE  EnoughTime
    OBVIOUS
  <2>1. PICK wait \in CheckTimes : wait <= past
    BY DEF PacketDue
  <2>2. wait \in Nat
    BY IntervalsNat DEF TimeInv
  <2> QED BY <2>1, <2>2 DEF TimeInv, Types, EnoughTime
<1> QED BY <1>1, TimeSafe, PTL DEF SchedSpec, PacketsSpaced

=============================================================================
