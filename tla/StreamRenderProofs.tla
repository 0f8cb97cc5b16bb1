------------------------- MODULE StreamRenderProofs -------------------------
(***************************************************************************)
(* What the guard and the renderers do to texts of any length: where the   *)
(* first fence is and what the guard forwards of a text, the blocks of a   *)
(* stream, and what a client that joins the deltas has read.  The last     *)
(* part is about loops and sequences, whatever they are of.                *)
(*                                                                         *)
(* The facts about all the texts or all the blocks of a sequence go by     *)
(* induction on its length, which LeastExists gives: a set of numbers that *)
(* has an element has a least one.                                         *)
(***************************************************************************)
EXTENDS StreamRender, Selection, FiniteSetTheorems, SequenceTheorems, TLAPS

-----------------------------------------------------------------------------
(* Texts: the least position of something, the first fence, the guard.     *)

\* A set of numbers that has an element has a least one.
LEMMA LeastExists ==
  ASSUME NEW P \in SUBSET Nat, P # {}
  PROVE  \E i \in P : \A j \in P : i <= j
<1> DEFINE Less == {ss \in Nat \X Nat : ss[1] < ss[2]}
<1>1. IsWellFoundedOn(Less, Nat)
  BY NatLessThanWellFounded DEF OpToRel
<1>2. PICK i \in P : \A j \in P : <<j, i>> \notin Less
  <2> HIDE DEF Less
  <2> QED BY <1>1, WFMin
<1>3. \A j \in P : ~(j < i)
  BY <1>2
<1> QED BY <1>3

LEMMA FirstIsLeast ==
  ASSUME NEW P \in SUBSET Nat, P # {}
  PROVE  First(P) \in P /\ \A j \in P : First(P) <= j
BY LeastExists DEF First

\* Three backticks in a row.
FenceAt(t, i) == i \in 1..(Len(t) - 2) /\ t[i] = "k" /\ t[i + 1] = "k" /\ t[i + 2] = "k"

LEMMA FenceIsFirst ==
  ASSUME NEW t \in Seq(Letters)
  PROVE  /\ Fence(t) \in 0..Len(t)
         /\ Fence(t) # 0 => FenceAt(t, Fence(t))
         /\ \A i \in 1..Len(t) : FenceAt(t, i) => Fence(t) # 0 /\ Fence(t) <= i
<1> DEFINE P == {i \in 1..(Len(t) - 2) : \A j \in i..(i + 2) : t[j] = "k"}
<1>1. Len(t) \in Nat
  OBVIOUS
<1>2. P \in SUBSET Nat
  BY <1>1
<1>3. \A i \in P : FenceAt(t, i)
  <2> SUFFICES ASSUME NEW i \in P PROVE FenceAt(t, i)
    OBVIOUS
  <2>1. i \in i..(i + 2) /\ i + 1 \in i..(i + 2) /\ i + 2 \in i..(i + 2)
    BY <1>1
  <2> QED BY <2>1 DEF FenceAt
<1>4. \A i \in Nat : FenceAt(t, i) => i \in P
  <2> SUFFICES ASSUME NEW i \in Nat, FenceAt(t, i) PROVE i \in P
    OBVIOUS
  <2>1. \A j \in i..(i + 2) : j = i \/ j = i + 1 \/ j = i + 2
    OBVIOUS
  <2> QED BY <2>1 DEF FenceAt
<1>5. Fence(t) = First(P)
  BY DEF Fence
<1>6. CASE P = {}
  <2>1. Fence(t) = 0
    BY <1>5, <1>6 DEF First
  <2> HIDE DEF P
  <2> QED BY <2>1, <1>1, <1>4, <1>6
<1>7. CASE P # {}
  <2>1. Fence(t) \in P /\ \A j \in P : Fence(t) <= j
    <3> HIDE DEF P
    <3> QED BY <1>2, <1>5, <1>7, FirstIsLeast
  <2>2. Fence(t) \in 1..(Len(t) - 2)
    BY <2>1
  <2> HIDE DEF P
  <2> QED BY <2>1, <2>2, <1>1, <1>3, <1>4
<1> QED BY <1>6, <1>7

\* The match of PSEUDO_FENCE begins before the last two letters.
LEMMA PseudoFenceInside ==
  ASSUME NEW t \in Seq(Letters)
  PROVE  PseudoFence(t) \in 0..Len(t) /\ (PseudoFence(t) # 0 => PseudoFence(t) <= Len(t) - 2)
<1> DEFINE P == {i \in 1..(Len(t) - 2) :
                   /\ t[i] \in {"p", "q"} /\ t[i + 1] = "w" /\ t[i + 2] = "c"
                   /\ \A j \in (i + 3)..Len(t) : t[j] # "w"}
<1>1. Len(t) \in Nat /\ P \in SUBSET Nat
  OBVIOUS
<1>2. First(P) = 0 \/ First(P) \in 1..(Len(t) - 2)
  <2>1. CASE P = {}
    BY <2>1 DEF First
  <2>2. CASE P # {}
    <3>1. First(P) \in P
      <4> HIDE DEF P
      <4> QED BY <1>1, <2>2, FirstIsLeast
    <3> QED BY <3>1
  <2> QED BY <2>1, <2>2
<1>3. PseudoFence(t) = IF First(P) > 1 /\ t[First(P) - 1] = "w" THEN First(P) - 1 ELSE First(P)
  BY DEF PseudoFence
<1> HIDE DEF P
<1> QED BY <1>1, <1>2, <1>3

LEMMA SubText ==
  ASSUME NEW t \in Seq(Letters), NEW m \in Nat \ {0}, NEW n \in Nat, n <= Len(t)
  PROVE  /\ SubSeq(t, m, n) \in Seq(Letters)
         /\ Len(SubSeq(t, m, n)) = IF m <= n THEN n - m + 1 ELSE 0
         /\ \A i \in 1..(n - m + 1) : SubSeq(t, m, n)[i] = t[m + i - 1]
OBVIOUS

GuardType == [pending : Seq(Letters), hit : BOOLEAN]

\* The guard lets a prefix of what is pending and new go, short of any fence,
\* and keeps the rest.
LEMMA ForwardSplits ==
  ASSUME NEW g \in GuardType, NEW delta \in Seq(Letters)
  PROVE  LET f == Forward(g, delta)
             all == g.pending \o delta
         IN  /\ f.guard \in GuardType /\ f.out \in Seq(Letters)
             /\ g.hit => f.guard = g /\ f.out = <<>>
             /\ ~g.hit => \E n \in 0..Len(all) :
                  /\ f.out = SubSeq(all, 1, n)
                  /\ f.guard.pending = SubSeq(all, n + 1, Len(all))
                  /\ n = 0 \/ n + 2 <= Len(all)
                  /\ \A i \in 1..n : ~FenceAt(all, i)
<1> DEFINE all == g.pending \o delta
           cut == IF Fence(all) # 0 THEN Fence(all) ELSE PseudoFence(all)
           safe == IF cut # 0 THEN cut - 1 ELSE IF Len(all) > Hold THEN Len(all) - Hold ELSE 0
           closes == cut # 0
<1>1. g.pending \in Seq(Letters) /\ g.hit \in BOOLEAN
  BY DEF GuardType
<1>2. CASE g.hit
  BY <1>1, <1>2 DEF Forward
<1>3. CASE ~g.hit
  <2>1. all \in Seq(Letters) /\ Len(all) \in Nat
    BY <1>1, ConcatProperties
  <2>2. Forward(g, delta) = [guard |-> [pending |-> Rest(all, safe), hit |-> cut # 0], out |-> SubSeq(all, 1, safe)]
    BY <1>3 DEF Forward
  <2> HIDE DEF all
  <2>3. safe \in 0..Len(all) /\ (safe = 0 \/ safe + 2 <= Len(all)) /\ \A i \in 1..safe : ~FenceAt(all, i)
    <3>1. CASE Fence(all) # 0
      <4>1. FenceAt(all, Fence(all)) /\ Fence(all) \in 0..Len(all)
        BY <2>1, <3>1, FenceIsFirst
      <4>2. safe = Fence(all) - 1
        BY <3>1
      <4>3. Fence(all) + 2 <= Len(all) /\ Fence(all) >= 1
        BY <2>1, <4>1 DEF FenceAt
      <4> HIDE DEF safe
      <4>4. \A i \in 1..safe : ~FenceAt(all, i)
        BY <2>1, <4>1, <4>2, FenceIsFirst
      <4> QED BY <2>1, <4>1, <4>2, <4>3, <4>4
    <3>2. CASE Fence(all) = 0
      <4>1. \A i \in 1..Len(all) : ~FenceAt(all, i)
        BY <2>1, <3>2, FenceIsFirst
      <4>2. safe \in 0..Len(all) /\ (safe = 0 \/ safe + 2 <= Len(all))
        BY <2>1, <3>2, PseudoFenceInside, HoldAssumption
      <4> HIDE DEF safe
      <4> QED BY <2>1, <4>1, <4>2
    <3> QED BY <3>1, <3>2
  <2>4. closes \in BOOLEAN
    OBVIOUS
  <2>5. Forward(g, delta) = [guard |-> [pending |-> Rest(all, safe), hit |-> closes], out |-> SubSeq(all, 1, safe)]
    BY <2>2
  <2> HIDE DEF safe, cut, closes
  <2>6. Rest(all, safe) = SubSeq(all, safe + 1, Len(all))
    BY DEF Rest
  <2>7. SubSeq(all, 1, safe) \in Seq(Letters) /\ SubSeq(all, safe + 1, Len(all)) \in Seq(Letters)
    BY <2>1, <2>3, SubText
  <2>8. /\ Forward(g, delta).guard \in GuardType /\ Forward(g, delta).guard.pending = SubSeq(all, safe + 1, Len(all))
        /\ Forward(g, delta).out = SubSeq(all, 1, safe)
    BY <2>4, <2>5, <2>6, <2>7 DEF GuardType
  <2>9. g.pending \o delta = all
    BY DEF all
  <2> QED BY <1>1, <1>3, <2>3, <2>7, <2>8, <2>9
<1> QED BY <1>1, <1>2, <1>3

\* A part of a part is a part; two adjacent parts make one.
LEMMA PartOfPart ==
  ASSUME NEW t \in Seq(Letters), NEW p \in Nat \ {0}, NEW q \in Nat, p <= q + 1, q <= Len(t),
         NEW m \in Nat \ {0}, NEW n \in Nat, m <= n + 1, n <= q - p + 1
  PROVE  SubSeq(SubSeq(t, p, q), m, n) = SubSeq(t, p + m - 1, p + n - 1)
<1> DEFINE u == SubSeq(t, p, q)
           l == SubSeq(u, m, n)
           r == SubSeq(t, p + m - 1, p + n - 1)
<1>1. u \in Seq(Letters) /\ Len(u) = q - p + 1 /\ \A i \in 1..(q - p + 1) : u[i] = t[p + i - 1]
  BY SubText
<1> HIDE DEF u
<1>2. l \in Seq(Letters) /\ Len(l) = n - m + 1 /\ \A i \in 1..(n - m + 1) : l[i] = u[m + i - 1]
  BY <1>1, SubText, SMTT(30)
<1>3. r \in Seq(Letters) /\ Len(r) = n - m + 1 /\ \A i \in 1..(n - m + 1) : r[i] = t[(p + m - 1) + i - 1]
  <2>1. p + m - 1 \in Nat \ {0} /\ p + n - 1 \in Nat /\ p + n - 1 <= Len(t)
    OBVIOUS
  <2>2. Len(r) = IF p + m - 1 <= p + n - 1 THEN (p + n - 1) - (p + m - 1) + 1 ELSE 0
    BY <2>1, SubText
  <2>3. r \in Seq(Letters) /\ \A i \in 1..((p + n - 1) - (p + m - 1) + 1) : r[i] = t[(p + m - 1) + i - 1]
    BY <2>1, SubText
  <2> QED BY <2>2, <2>3
<1> HIDE DEF l, r
<1>4. ASSUME NEW i \in 1..Len(l) PROVE l[i] = r[i]
  <2>1. i \in 1..(n - m + 1) /\ m + i - 1 \in 1..(q - p + 1)
    BY <1>2
  <2>2. l[i] = t[p + (m + i - 1) - 1]
    BY <1>1, <1>2, <2>1
  <2>3. r[i] = t[(p + m - 1) + i - 1]
    BY <1>3, <2>1
  <2>4. p + (m + i - 1) - 1 = (p + m - 1) + i - 1
    BY <2>1
  <2> QED BY <2>2, <2>3, <2>4
<1>5. l = r
  BY <1>2, <1>3, <1>4, SeqEqual
<1> QED BY <1>5 DEF l, r, u

LEMMA PartsJoin ==
  ASSUME NEW t \in Seq(Letters), NEW p \in Nat \ {0}, NEW q \in Nat, NEW r \in Nat,
         p <= q + 1, q <= r, r <= Len(t)
  PROVE  SubSeq(t, p, q) \o SubSeq(t, q + 1, r) = SubSeq(t, p, r)
<1>1. p \in 1..(Len(t) + 1) /\ q \in (p - 1)..Len(t) /\ r \in q..Len(t)
  OBVIOUS
<1> QED BY <1>1, ConcatAdjacentSubSeq

\* A delta of a text of which s letters were forwarded and a have arrived: the
\* guard lets go of m letters, and these begin no fence.
LEMMA ForwardInText ==
  ASSUME NEW t \in Seq(Letters), NEW s \in Nat, NEW a \in Nat, NEW n \in Nat, s <= a, a + n <= Len(t),
         NEW g \in GuardType, ~g.hit, g.pending = SubSeq(t, s + 1, a),
         Fence(t) = 0 \/ s < Fence(t)
  PROVE  LET f == Forward(g, SubSeq(t, a + 1, a + n)) IN
           \E m \in 0..(a + n - s) :
             /\ f.out = SubSeq(t, s + 1, s + m)
             /\ f.guard.pending = SubSeq(t, s + m + 1, a + n)
             /\ Fence(t) = 0 \/ s + m < Fence(t)
<1> DEFINE delta == SubSeq(t, a + 1, a + n)
           all == SubSeq(t, s + 1, a + n)
           f == Forward(g, delta)
<1>1. delta \in Seq(Letters)
  BY SubText
<1>2. g.pending \o delta = all
  BY PartsJoin
<1>3. all \in Seq(Letters) /\ Len(all) = a + n - s /\ \A i \in 1..(a + n - s) : all[i] = t[s + i]
  <2>1. s + 1 \in Nat \ {0} /\ a + n \in Nat /\ \A i \in 1..(a + n - s) : (s + 1) + i - 1 = s + i
    OBVIOUS
  <2>2. /\ all \in Seq(Letters) /\ Len(all) = IF s + 1 <= a + n THEN (a + n) - (s + 1) + 1 ELSE 0
        /\ \A i \in 1..((a + n) - (s + 1) + 1) : all[i] = t[(s + 1) + i - 1]
    BY <2>1, SubText
  <2> HIDE DEF all
  <2>3. (a + n) - (s + 1) + 1 = a + n - s /\ (~(s + 1 <= a + n) => a + n - s = 0)
    OBVIOUS
  <2>4. Len(all) = a + n - s
    BY <2>2, <2>3
  <2> QED BY <2>1, <2>2, <2>3, <2>4
<1>4. PICK m \in 0..Len(all) :
        /\ f.out = SubSeq(all, 1, m) /\ f.guard.pending = SubSeq(all, m + 1, Len(all))
        /\ m = 0 \/ m + 2 <= Len(all)
        /\ \A i \in 1..m : ~FenceAt(all, i)
  <2> HIDE DEF all, delta
  <2> QED BY <1>1, <1>2, ForwardSplits
<1> HIDE DEF f, delta
<1>5. m \in 0..(a + n - s) /\ (m = 0 \/ m + 2 <= a + n - s)
  <2> HIDE DEF all
  <2> QED BY <1>3, <1>4
<1>6. f.out = SubSeq(t, s + 1, s + m)
  <2>1. SubSeq(all, 1, m) = SubSeq(t, (s + 1) + 1 - 1, (s + 1) + m - 1)
    <3>1. s + 1 \in Nat \ {0} /\ a + n \in Nat /\ s + 1 <= a + n + 1 /\ 1 \in Nat \ {0} /\ m \in Nat
          /\ 1 <= m + 1 /\ m <= a + n - (s + 1) + 1
      BY <1>5
    <3> QED BY <3>1, PartOfPart
  <2>2. (s + 1) + 1 - 1 = s + 1 /\ (s + 1) + m - 1 = s + m
    BY <1>5
  <2> QED BY <1>4, <2>1, <2>2
<1>7. f.guard.pending = SubSeq(t, s + m + 1, a + n)
  <2>1. SubSeq(all, m + 1, a + n - s) = SubSeq(t, (s + 1) + (m + 1) - 1, (s + 1) + (a + n - s) - 1)
    <3>1. s + 1 \in Nat \ {0} /\ a + n \in Nat /\ s + 1 <= a + n + 1 /\ m + 1 \in Nat \ {0}
          /\ a + n - s \in Nat /\ m + 1 <= (a + n - s) + 1 /\ a + n - s <= a + n - (s + 1) + 1
      BY <1>5
    <3> QED BY <3>1, PartOfPart
  <2>2. (s + 1) + (m + 1) - 1 = s + m + 1 /\ (s + 1) + (a + n - s) - 1 = a + n
    BY <1>5
  <2> QED BY <1>3, <1>4, <2>1, <2>2
<1> HIDE DEF all
<1>8. Fence(t) = 0 \/ s + m < Fence(t)
  <2> SUFFICES ASSUME Fence(t) # 0, ~(s + m < Fence(t)) PROVE FALSE
    OBVIOUS
  <2> DEFINE i == Fence(t) - s
  <2>1. FenceAt(t, Fence(t)) /\ Fence(t) \in Nat
    BY FenceIsFirst
  <2>2. i \in 1..m /\ Fence(t) = s + i
    BY <1>5, <2>1
  <2> HIDE DEF i
  <2>3. i \in 1..(Len(all) - 2) /\ all[i] = t[s + i] /\ all[i + 1] = t[s + i + 1] /\ all[i + 2] = t[s + i + 2]
    <3>1. i \in 1..(a + n - s - 2)
      BY <1>5, <2>2
    <3>2. all[i] = t[s + i] /\ all[i + 1] = t[s + (i + 1)] /\ all[i + 2] = t[s + (i + 2)]
      <4>1. \A j \in 1..(a + n - s) : all[j] = t[s + j]
        BY <1>3
      <4>2. i \in 1..(a + n - s) /\ i + 1 \in 1..(a + n - s) /\ i + 2 \in 1..(a + n - s)
        BY <3>1
      <4> QED BY <4>1, <4>2
    <3> QED BY <1>3, <3>1, <3>2
  <2>4. FenceAt(all, i)
    BY <2>1, <2>2, <2>3 DEF FenceAt
  <2> QED BY <1>4, <2>2, <2>4
<1> QED BY <1>5, <1>6, <1>7, <1>8 DEF f, delta

LEMMA TrimType == ASSUME NEW t \in Seq(Letters) PROVE Trim(t) \in Seq(Letters)
<1> DEFINE solid == {i \in DOMAIN t : t[i] # "w"}
           last == CHOOSE i \in solid : \A j \in solid : j <= i
<1>1. CASE solid = {}
  BY <1>1 DEF Trim
<1>2. CASE solid # {}
  <2>1. solid \subseteq 1..Len(t) /\ Len(t) \in Nat
    OBVIOUS
  <2>2. Trim(t) = SubSeq(t, First(solid), last)
    BY <1>2 DEF Trim
  <2> HIDE DEF solid
  <2>3. First(solid) \in solid
    BY <1>2, <2>1, FirstIsLeast
  <2>4. last \in solid
    <3> DEFINE turned == {n \in Nat : \E i \in solid : n = Len(t) - i}
    <3>1. turned \in SUBSET Nat
      OBVIOUS
    <3>2. turned # {}
      <4>1. PICK i \in solid : TRUE
        BY <1>2
      <4>2. Len(t) - i \in turned
        BY <2>1, <4>1
      <4> QED BY <4>2
    <3>3. PICK k \in turned : \A j \in turned : k <= j
      <4> HIDE DEF turned
      <4> QED BY <3>1, <3>2, LeastExists
    <3>4. PICK i \in solid : k = Len(t) - i
      BY <3>3
    <3>5. ASSUME NEW j \in solid PROVE j <= i
      <4>1. Len(t) - j \in turned
        BY <2>1
      <4>2. k <= Len(t) - j
        BY <3>3, <4>1
      <4> QED BY <2>1, <3>4, <4>2
    <3>6. \E l \in solid : \A j \in solid : j <= l
      BY <3>5
    <3> HIDE DEF turned
    <3> QED BY <3>6
  <2> HIDE DEF last
  <2>5. First(solid) \in Nat \ {0} /\ last \in Nat /\ last <= Len(t)
    <3>1. First(solid) \in 1..Len(t) /\ last \in 1..Len(t)
      BY <2>1, <2>3, <2>4
    <3> QED BY <2>1, <3>1
  <2> QED BY <2>2, <2>5, SubText
<1> QED BY <1>1, <1>2

LEMMA StopType ==
  ASSUME NEW t \in Seq(Letters), NEW stops PROVE ApplyStopSequences(t, stops) \in Seq(Letters)
<1> DEFINE P == {i \in DOMAIN t : t[i] \in stops}
<1>1. P \in SUBSET Nat /\ Len(t) \in Nat
  OBVIOUS
<1>2. ApplyStopSequences(t, stops) = IF First(P) = 0 THEN t ELSE SubSeq(t, 1, First(P) - 1)
  BY DEF ApplyStopSequences
<1>3. First(P) \in 0..Len(t)
  <2>1. CASE P = {}
    BY <1>1, <2>1 DEF First
  <2>2. CASE P # {}
    <3>1. First(P) \in P
      <4> HIDE DEF P
      <4> QED BY <1>1, <2>2, FirstIsLeast
    <3> QED BY <3>1
  <2> QED BY <2>1, <2>2
<1> HIDE DEF P
<1>4. CASE First(P) # 0
  BY <1>1, <1>2, <1>3, <1>4, SubText
<1> QED BY <1>2, <1>4

LEMMA CarriedType ==
  ASSUME NEW t \in Seq(Letters), NEW s \in Seq(Letters) PROVE Carried(t, s) \in Seq(Letters)
<1>1. CASE Fence(t) > 1
  <2>1. Fence(t) - 1 \in Nat /\ Fence(t) - 1 <= Len(t)
    BY <1>1, FenceIsFirst
  <2> QED BY <1>1, <2>1, SubText DEF Carried
<1> QED BY <1>1 DEF Carried

LEMMA RestType ==
  ASSUME NEW t \in Seq(Letters), NEW n \in Nat PROVE Rest(t, n) \in Seq(Letters)
BY DEF Rest
-----------------------------------------------------------------------------
(* The blocks of a streamed answer.  A stream is a sequence of events, the *)
(* next index and the blocks that are open: of those, only the renderer's  *)
(* text block stays open from one event to the next.                       *)

EventType == [event : {"start", "delta", "stop"}, block : Nat, text : Seq(Letters)]
Started(es, n) == {j \in 1..n : es[j].event = "start"}
Stops(es, b) == \E j \in 1..Len(es) : es[j].event = "stop" /\ es[j].block = b
Starts(es, b) == \E j \in 1..Len(es) : es[j].event = "start" /\ es[j].block = b

\* WellNested at one event.
NestedAt(es, i) ==
  IF es[i].event = "start" THEN es[i].block = Cardinality(Started(es, i - 1))
  ELSE /\ \E j \in 1..(i - 1) : es[j].event = "start" /\ es[j].block = es[i].block
       /\ \A j \in 1..(i - 1) : ~(es[j].event = "stop" /\ es[j].block = es[i].block)

Sound(es, next, opens) ==
  /\ es \in Seq(EventType) /\ next \in Nat
  /\ IsFiniteSet(Started(es, Len(es))) /\ Cardinality(Started(es, Len(es))) = next
  /\ \A b \in Nat : (b < next <=> Starts(es, b)) /\ (b < next /\ b \notin opens <=> Stops(es, b))
  /\ \A b \in opens : b \in Nat /\ b < next
  /\ \A i \in 1..Len(es) : NestedAt(es, i)

\* What one event more changes.
LEMMA AppendEvent ==
  ASSUME NEW es \in Seq(EventType), NEW e \in EventType
  PROVE  LET fs == Append(es, e)
         IN  /\ fs \in Seq(EventType) /\ Len(fs) = Len(es) + 1 /\ fs[Len(es) + 1] = e
             /\ \A i \in 1..Len(es) : fs[i] = es[i]
             /\ \A i \in 0..Len(es) : Started(fs, i) = Started(es, i)
             /\ \A i \in 1..Len(es) : NestedAt(es, i) => NestedAt(fs, i)
             /\ \A b : Starts(fs, b) <=> Starts(es, b) \/ (e.event = "start" /\ e.block = b)
             /\ \A b : Stops(fs, b) <=> Stops(es, b) \/ (e.event = "stop" /\ e.block = b)
             /\ Started(fs, Len(fs)) = IF e.event = "start" THEN Started(es, Len(es)) \cup {Len(es) + 1}
                                       ELSE Started(es, Len(es))
<1> DEFINE fs == Append(es, e)
           n == Len(es)
<1>1. fs \in Seq(EventType) /\ Len(fs) = n + 1 /\ fs[n + 1] = e /\ n \in Nat /\ \A i \in 1..n : fs[i] = es[i]
  BY AppendProperties
<1> HIDE DEF fs, n
<1>2. ASSUME NEW i \in 0..n PROVE Started(fs, i) = Started(es, i)
  <2>1. \A j \in 1..i : j \in 1..n
    BY <1>1
  <2> QED BY <1>1, <2>1 DEF Started
<1>3. ASSUME NEW i \in 1..n, NestedAt(es, i) PROVE NestedAt(fs, i)
  <2>1. fs[i] = es[i] /\ i - 1 \in 0..n /\ \A j \in 1..(i - 1) : j \in 1..n
    BY <1>1
  <2>2. Started(fs, i - 1) = Started(es, i - 1) /\ \A j \in 1..(i - 1) : fs[j] = es[j]
    BY <1>1, <1>2, <2>1
  <2> QED BY <1>3, <2>1, <2>2 DEF NestedAt
<1>4. \A j \in 1..(n + 1) : j \in 1..n \/ j = n + 1
  BY <1>1
<1>5. 1..n \subseteq 1..(n + 1) /\ n + 1 \in 1..(n + 1) /\ n + 1 \notin 1..n
  BY <1>1
<1>6. \A b : Starts(fs, b) <=> Starts(es, b) \/ (e.event = "start" /\ e.block = b)
  BY <1>1, <1>4, <1>5 DEF Starts, n
<1>7. \A b : Stops(fs, b) <=> Stops(es, b) \/ (e.event = "stop" /\ e.block = b)
  BY <1>1, <1>4, <1>5 DEF Stops, n
<1>8. Started(fs, Len(fs)) = IF e.event = "start" THEN Started(es, n) \cup {n + 1} ELSE Started(es, n)
  BY <1>1, <1>4, <1>5 DEF Started
<1> QED BY <1>1, <1>2, <1>3, <1>6, <1>7, <1>8 DEF fs, n

LEMMA AddStart ==
  ASSUME NEW es, NEW next, NEW opens, Sound(es, next, opens)
  PROVE  Sound(Append(es, Start(next)), next + 1, opens \cup {next})
<1> DEFINE e == Start(next)
           fs == Append(es, e)
<1>1. es \in Seq(EventType) /\ next \in Nat /\ Len(es) \in Nat
  BY DEF Sound
<1>2. e \in EventType /\ e.event = "start" /\ e.block = next
  BY <1>1 DEF Start, EventType
<1> HIDE DEF e
<1>3. /\ fs \in Seq(EventType) /\ Len(fs) = Len(es) + 1 /\ fs[Len(es) + 1] = e
      /\ \A i \in 0..Len(es) : Started(fs, i) = Started(es, i)
      /\ \A i \in 1..Len(es) : NestedAt(es, i) => NestedAt(fs, i)
      /\ \A b : Starts(fs, b) <=> Starts(es, b) \/ b = next
      /\ \A b : Stops(fs, b) <=> Stops(es, b)
      /\ Started(fs, Len(fs)) = Started(es, Len(es)) \cup {Len(es) + 1}
  <2>1. /\ fs \in Seq(EventType) /\ Len(fs) = Len(es) + 1 /\ fs[Len(es) + 1] = e
        /\ \A i \in 0..Len(es) : Started(fs, i) = Started(es, i)
        /\ \A i \in 1..Len(es) : NestedAt(es, i) => NestedAt(fs, i)
    BY <1>1, <1>2, AppendEvent
  <2>2. /\ \A b : Starts(fs, b) <=> Starts(es, b) \/ (e.event = "start" /\ e.block = b)
        /\ \A b : Stops(fs, b) <=> Stops(es, b) \/ (e.event = "stop" /\ e.block = b)
    BY <1>1, <1>2, AppendEvent
  <2>3. Started(fs, Len(fs)) = IF e.event = "start" THEN Started(es, Len(es)) \cup {Len(es) + 1}
                               ELSE Started(es, Len(es))
    BY <1>1, <1>2, AppendEvent
  <2> HIDE DEF fs
  <2> QED BY <1>2, <2>1, <2>2, <2>3
<1> HIDE DEF fs
<1>4. IsFiniteSet(Started(fs, Len(fs))) /\ Cardinality(Started(fs, Len(fs))) = next + 1
  <2>1. Len(es) + 1 \notin Started(es, Len(es))
    BY <1>1 DEF Started
  <2>2. IsFiniteSet(Started(es, Len(es))) /\ Cardinality(Started(es, Len(es))) = next
    BY DEF Sound
  <2> QED BY <1>3, <2>1, <2>2, FS_AddElement
<1>5. \A i \in 1..Len(fs) : NestedAt(fs, i)
  <2>1. NestedAt(fs, Len(es) + 1)
    <3>1. Started(fs, Len(es)) = Started(es, Len(es)) /\ (Len(es) + 1) - 1 = Len(es)
      BY <1>1, <1>3
    <3>2. Cardinality(Started(es, Len(es))) = next
      BY DEF Sound
    <3> QED BY <1>2, <1>3, <3>1, <3>2 DEF NestedAt
  <2>2. \A i \in 1..Len(fs) : i \in 1..Len(es) \/ i = Len(es) + 1
    BY <1>1, <1>3
  <2> QED BY <1>3, <2>1, <2>2 DEF Sound
<1>6. ASSUME NEW b \in Nat
      PROVE  (b < next + 1 <=> Starts(fs, b)) /\ (b < next + 1 /\ b \notin opens \cup {next} <=> Stops(fs, b))
  <2>1. (b < next <=> Starts(es, b)) /\ (b < next /\ b \notin opens <=> Stops(es, b))
    BY DEF Sound
  <2>2. b < next + 1 <=> b < next \/ b = next
    BY <1>1
  <2>3. ~(next < next)
    BY <1>1
  <2> QED BY <1>3, <2>1, <2>2, <2>3
<1>7. \A b \in opens \cup {next} : b \in Nat /\ b < next + 1
  BY <1>1 DEF Sound
<1>8. Sound(fs, next + 1, opens \cup {next})
  BY <1>1, <1>3, <1>4, <1>5, <1>6, <1>7 DEF Sound
<1> QED BY <1>8 DEF fs, e

LEMMA AddDelta ==
  ASSUME NEW es, NEW next, NEW opens, Sound(es, next, opens), NEW b \in opens, NEW t \in Seq(Letters)
  PROVE  Sound(Append(es, Delta(b, t)), next, opens)
<1> DEFINE e == Delta(b, t)
           fs == Append(es, e)
<1>1. es \in Seq(EventType) /\ next \in Nat /\ Len(es) \in Nat /\ b \in Nat /\ b < next
  BY DEF Sound
<1>2. e \in EventType /\ e.event = "delta" /\ e.block = b
  BY <1>1 DEF Delta, EventType
<1> HIDE DEF e
<1>3. /\ fs \in Seq(EventType) /\ Len(fs) = Len(es) + 1 /\ fs[Len(es) + 1] = e
      /\ \A i \in 1..Len(es) : fs[i] = es[i]
      /\ \A i \in 1..Len(es) : NestedAt(es, i) => NestedAt(fs, i)
      /\ \A c : Starts(fs, c) <=> Starts(es, c)
      /\ \A c : Stops(fs, c) <=> Stops(es, c)
      /\ Started(fs, Len(fs)) = Started(es, Len(es))
  BY <1>1, <1>2, AppendEvent
<1> HIDE DEF fs
<1>4. NestedAt(fs, Len(es) + 1)
  <2>1. Starts(es, b) /\ ~Stops(es, b)
    BY <1>1 DEF Sound
  <2>2. (Len(es) + 1) - 1 = Len(es)
    BY <1>1
  <2> QED BY <1>2, <1>3, <2>1, <2>2 DEF NestedAt, Starts, Stops
<1>5. \A i \in 1..Len(fs) : i \in 1..Len(es) \/ i = Len(es) + 1
  BY <1>1, <1>3
<1>6. Sound(fs, next, opens)
  BY <1>1, <1>3, <1>4, <1>5 DEF Sound
<1> QED BY <1>6 DEF fs, e

LEMMA AddStop ==
  ASSUME NEW es, NEW next, NEW opens, Sound(es, next, opens), NEW b \in opens
  PROVE  Sound(Append(es, Stop(b)), next, opens \ {b})
<1> DEFINE e == Stop(b)
           fs == Append(es, e)
<1>1. es \in Seq(EventType) /\ next \in Nat /\ Len(es) \in Nat /\ b \in Nat /\ b < next
  BY DEF Sound
<1>2. e \in EventType /\ e.event = "stop" /\ e.block = b
  BY <1>1 DEF Stop, EventType
<1> HIDE DEF e
<1>3. /\ fs \in Seq(EventType) /\ Len(fs) = Len(es) + 1 /\ fs[Len(es) + 1] = e
      /\ \A i \in 1..Len(es) : fs[i] = es[i]
      /\ \A i \in 1..Len(es) : NestedAt(es, i) => NestedAt(fs, i)
      /\ \A c : Starts(fs, c) <=> Starts(es, c)
      /\ \A c : Stops(fs, c) <=> Stops(es, c) \/ c = b
      /\ Started(fs, Len(fs)) = Started(es, Len(es))
  BY <1>1, <1>2, AppendEvent
<1> HIDE DEF fs
<1>4. NestedAt(fs, Len(es) + 1)
  <2>1. Starts(es, b) /\ ~Stops(es, b)
    BY <1>1 DEF Sound
  <2>2. (Len(es) + 1) - 1 = Len(es)
    BY <1>1
  <2> QED BY <1>2, <1>3, <2>1, <2>2 DEF NestedAt, Starts, Stops
<1>5. \A i \in 1..Len(fs) : i \in 1..Len(es) \/ i = Len(es) + 1
  BY <1>1, <1>3
<1>6. \A c \in Nat : (c < next <=> Starts(fs, c)) /\ (c < next /\ c \notin opens \ {b} <=> Stops(fs, c))
  BY <1>1, <1>3 DEF Sound
<1>7. Sound(fs, next, opens \ {b})
  BY <1>1, <1>3, <1>4, <1>5, <1>6 DEF Sound
<1> QED BY <1>7 DEF fs, e

\* A stream of which only the texts differ.
LEMMA SameShape ==
  ASSUME NEW es, NEW next, NEW opens, Sound(es, next, opens),
         NEW fs \in Seq(EventType), Len(fs) = Len(es),
         \A i \in 1..Len(es) : fs[i].event = es[i].event /\ fs[i].block = es[i].block
  PROVE  Sound(fs, next, opens)
<1>1. es \in Seq(EventType) /\ Len(es) \in Nat
  BY DEF Sound
<1>2. ASSUME NEW i \in 0..Len(es) PROVE Started(fs, i) = Started(es, i)
  <2>1. \A j \in 1..i : j \in 1..Len(es)
    BY <1>1
  <2> QED BY <2>1 DEF Started
<1>3. ASSUME NEW i \in 1..Len(es) PROVE NestedAt(fs, i)
  <2>1. NestedAt(es, i)
    BY DEF Sound
  <2>2. i - 1 \in 0..Len(es) /\ \A j \in 1..(i - 1) : j \in 1..Len(es)
    BY <1>1
  <2>3. Started(fs, i - 1) = Started(es, i - 1)
    BY <1>2, <2>2
  <2> QED BY <2>1, <2>2, <2>3 DEF NestedAt
<1>4. \A b : (Starts(fs, b) <=> Starts(es, b)) /\ (Stops(fs, b) <=> Stops(es, b))
  BY DEF Starts, Stops
<1>5. Started(fs, Len(fs)) = Started(es, Len(es))
  BY <1>1, <1>2
<1> QED BY <1>3, <1>4, <1>5 DEF Sound

\* A set of numbers with 0 that is closed under successor has them all.
LEMMA Induction ==
  ASSUME NEW T, 0 \in T, \A n \in Nat : n \in T => n + 1 \in T
  PROVE  \A n \in Nat : n \in T
<1> DEFINE P == {n \in Nat : n \notin T}
<1>1. ASSUME P # {} PROVE FALSE
  <2>1. PICK i \in P : \A j \in P : i <= j
    BY <1>1, LeastExists
  <2>2. i - 1 \in Nat /\ i - 1 \notin P
    BY <2>1
  <2>3. i - 1 \in T /\ (i - 1) + 1 = i
    BY <2>2
  <2> QED BY <2>1, <2>2, <2>3
<1> QED BY <1>1

LEMMA WholeEventIs ==
  ASSUME NEW next \in Nat, NEW i \in Nat \ {0}, NEW b, b = next + (i - 1) \div 3
  PROVE  /\ i % 3 = 1 => WholeEvent(next, i) = Start(b)
         /\ i % 3 = 2 => WholeEvent(next, i) = Delta(b, <<>>)
         /\ i % 3 = 0 => WholeEvent(next, i) = Stop(b)
<1>1. WholeEvent(next, i) = CASE i % 3 = 1 -> Start(b) [] i % 3 = 2 -> Delta(b, <<>>) [] i % 3 = 0 -> Stop(b)
  BY Zenon DEF WholeEvent
<1>2. CASE i % 3 = 1
  BY <1>1, <1>2
<1>3. CASE i % 3 = 2
  BY <1>1, <1>3
<1>4. CASE i % 3 = 0
  BY <1>1, <1>4
<1> QED BY <1>2, <1>3, <1>4

LEMMA WholeEventType ==
  ASSUME NEW next \in Nat, NEW i \in Nat \ {0}
  PROVE  WholeEvent(next, i) \in EventType
<1> DEFINE b == next + (i - 1) \div 3
<1>1. b \in Nat /\ i % 3 \in 0..2
  OBVIOUS
<1> HIDE DEF b
<1>2. Start(b) \in EventType /\ Delta(b, <<>>) \in EventType /\ Stop(b) \in EventType
  BY <1>1 DEF Start, Delta, Stop, EventType
<1>3. i % 3 = 0 \/ i % 3 = 1 \/ i % 3 = 2
  BY <1>1
<1>4. /\ i % 3 = 1 => WholeEvent(next, i) = Start(b)
      /\ i % 3 = 2 => WholeEvent(next, i) = Delta(b, <<>>)
      /\ i % 3 = 0 => WholeEvent(next, i) = Stop(b)
  BY WholeEventIs DEF b
<1> QED BY <1>2, <1>3, <1>4

\* The three events of the block after n others.
LEMMA WholeEventOf ==
  ASSUME NEW next \in Nat, NEW n \in Nat
  PROVE  /\ WholeEvent(next, 3 * n + 1) = Start(next + n)
         /\ WholeEvent(next, 3 * n + 2) = Delta(next + n, <<>>)
         /\ WholeEvent(next, 3 * n + 3) = Stop(next + n)
<1>1. /\ (3 * n + 1) % 3 = 1 /\ ((3 * n + 1) - 1) \div 3 = n /\ 3 * n + 1 \in Nat \ {0}
      /\ (3 * n + 2) % 3 = 2 /\ ((3 * n + 2) - 1) \div 3 = n /\ 3 * n + 2 \in Nat \ {0}
      /\ (3 * n + 3) % 3 = 0 /\ ((3 * n + 3) - 1) \div 3 = n /\ 3 * n + 3 \in Nat \ {0}
  OBVIOUS
<1> QED BY <1>1, WholeEventIs

WholeEvents(next, n) == [i \in 1..(3 * n) |-> WholeEvent(next, i)]

LEMMA WholeEventsType ==
  ASSUME NEW next \in Nat, NEW n \in Nat
  PROVE  /\ WholeEvents(next, n) \in Seq(EventType) /\ Len(WholeEvents(next, n)) = 3 * n
         /\ \A i \in 1..(3 * n) : WholeEvents(next, n)[i] = WholeEvent(next, i)
<1>1. 3 * n \in Nat /\ \A i \in 1..(3 * n) : WholeEvent(next, i) \in EventType
  BY WholeEventType
<1> DEFINE k == 3 * n
<1> HIDE DEF k
<1>2. [i \in 1..k |-> WholeEvent(next, i)] \in Seq(EventType)
  BY <1>1 DEF k
<1> QED BY <1>1, <1>2 DEF WholeEvents, k

LEMMA OneMoreBlock ==
  ASSUME NEW es \in Seq(EventType), NEW next \in Nat, NEW n \in Nat
  PROVE  es \o WholeEvents(next, n + 1)
           = Append(Append(Append(es \o WholeEvents(next, n), Start(next + n)), Delta(next + n, <<>>)), Stop(next + n))
<1> DEFINE k == 3 * n
           b == next + n
           w == WholeEvents(next, n)
           u == WholeEvents(next, n + 1)
           m == es \o w
           m1 == Append(m, Start(b))
           m2 == Append(m1, Delta(b, <<>>))
           m3 == Append(m2, Stop(b))
           l == es \o u
           e == Len(es)
<1>1. b \in Nat /\ k \in Nat /\ 3 * (n + 1) = k + 3 /\ e \in Nat
  OBVIOUS
<1>2. w \in Seq(EventType) /\ Len(w) = k /\ \A i \in 1..k : w[i] = WholeEvent(next, i)
  BY WholeEventsType
<1>3. u \in Seq(EventType) /\ Len(u) = k + 3 /\ \A i \in 1..(k + 3) : u[i] = WholeEvent(next, i)
  <2>1. n + 1 \in Nat
    OBVIOUS
  <2> HIDE DEF k
  <2> QED BY <1>1, <2>1, WholeEventsType
<1>4. Start(b) \in EventType /\ Delta(b, <<>>) \in EventType /\ Stop(b) \in EventType
  BY <1>1 DEF Start, Delta, Stop, EventType
<1>5. u[k + 1] = Start(b) /\ u[k + 2] = Delta(b, <<>>) /\ u[k + 3] = Stop(b)
  <2>1. k + 1 \in 1..(k + 3) /\ k + 2 \in 1..(k + 3) /\ k + 3 \in 1..(k + 3)
    BY <1>1
  <2>2. WholeEvent(next, k + 1) = Start(b) /\ WholeEvent(next, k + 2) = Delta(b, <<>>)
        /\ WholeEvent(next, k + 3) = Stop(b)
    BY WholeEventOf
  <2> HIDE DEF k, u, b
  <2> QED BY <1>3, <2>1, <2>2
<1> HIDE DEF k, w, u, b
<1>6. m \in Seq(EventType) /\ Len(m) = e + k /\ l \in Seq(EventType) /\ Len(l) = e + k + 3
  <2>1. m \in Seq(EventType) /\ Len(m) = Len(es) + Len(w)
    BY <1>2, ConcatProperties
  <2>2. l \in Seq(EventType) /\ Len(l) = Len(es) + Len(u)
    BY <1>3, ConcatProperties
  <2> HIDE DEF m, l
  <2> QED BY <1>1, <1>2, <1>3, <2>1, <2>2
<1>7. /\ \A i \in 1..e : m[i] = es[i] /\ l[i] = es[i]
      /\ \A i \in 1..k : m[e + i] = w[i]
      /\ \A i \in 1..(k + 3) : l[e + i] = u[i]
  BY <1>1, <1>2, <1>3
<1>8. \A i \in 1..(e + k) : m[i] = l[i]
  <2> SUFFICES ASSUME NEW i \in 1..(e + k) PROVE m[i] = l[i]
    OBVIOUS
  <2>1. CASE i <= e
    BY <1>1, <1>7, <2>1
  <2>2. CASE ~(i <= e)
    <3>1. i - e \in 1..k /\ i - e \in 1..(k + 3) /\ e + (i - e) = i
      BY <1>1, <2>2
    <3>2. m[i] = w[i - e] /\ l[i] = u[i - e]
      <4> HIDE DEF m, l
      <4> QED BY <1>7, <3>1
    <3> HIDE DEF m, l
    <3> QED BY <1>2, <1>3, <3>1, <3>2
  <2> QED BY <2>1, <2>2
<1>9. l[e + k + 1] = Start(b) /\ l[e + k + 2] = Delta(b, <<>>) /\ l[e + k + 3] = Stop(b)
  <2>1. /\ k + 1 \in 1..(k + 3) /\ k + 2 \in 1..(k + 3) /\ k + 3 \in 1..(k + 3)
        /\ e + (k + 1) = e + k + 1 /\ e + (k + 2) = e + k + 2 /\ e + (k + 3) = e + k + 3
    BY <1>1
  <2> HIDE DEF m, l
  <2> QED BY <1>5, <1>7, <2>1
<1> HIDE DEF m, l, e
<1>10. /\ m3 \in Seq(EventType) /\ Len(m3) = e + k + 3
       /\ \A i \in 1..(e + k) : m3[i] = m[i]
       /\ m3[e + k + 1] = Start(b) /\ m3[e + k + 2] = Delta(b, <<>>) /\ m3[e + k + 3] = Stop(b)
  <2>1. m1 \in Seq(EventType) /\ Len(m1) = e + k + 1 /\ m1[e + k + 1] = Start(b)
        /\ \A i \in 1..(e + k) : m1[i] = m[i]
    BY <1>1, <1>4, <1>6, AppendProperties
  <2> HIDE DEF m1
  <2>2. m2 \in Seq(EventType) /\ Len(m2) = e + k + 2 /\ m2[e + k + 2] = Delta(b, <<>>)
        /\ \A i \in 1..(e + k + 1) : m2[i] = m1[i]
    BY <1>1, <1>4, <2>1, AppendProperties
  <2> HIDE DEF m2
  <2>3. m3 \in Seq(EventType) /\ Len(m3) = e + k + 3 /\ m3[e + k + 3] = Stop(b)
        /\ \A i \in 1..(e + k + 2) : m3[i] = m2[i]
    BY <1>1, <1>4, <2>2, AppendProperties
  <2> HIDE DEF m3
  <2> QED BY <1>1, <2>1, <2>2, <2>3
<1> HIDE DEF m3
<1>11. l = m3
  <2>1. \A i \in 1..(e + k + 3) : i \in 1..(e + k) \/ i = e + k + 1 \/ i = e + k + 2 \/ i = e + k + 3
    BY <1>1
  <2>2. ASSUME NEW i \in 1..(e + k + 3) PROVE l[i] = m3[i]
    <3>1. CASE i \in 1..(e + k)
      BY <1>8, <1>10, <3>1
    <3>2. CASE i = e + k + 1
      <4>1. l[e + k + 1] = m3[e + k + 1]
        BY <1>9, <1>10
      <4> QED BY <3>2, <4>1
    <3>3. CASE i = e + k + 2
      <4>1. l[e + k + 2] = m3[e + k + 2]
        BY <1>9, <1>10
      <4> QED BY <3>3, <4>1
    <3>4. CASE i = e + k + 3
      <4>1. l[e + k + 3] = m3[e + k + 3]
        BY <1>9, <1>10
      <4> QED BY <3>4, <4>1
    <3> QED BY <2>1, <3>1, <3>2, <3>3, <3>4
  <2> QED BY <1>6, <1>10, <2>2, SeqEqual
<1> QED BY <1>11 DEF l, m3, m2, m1, m, u, w, b

\* Any number of whole blocks, whatever is open around them.
LEMMA AddWholeBlocks ==
  ASSUME NEW es, NEW next, NEW opens, Sound(es, next, opens), NEW n \in Nat
  PROVE  Sound(es \o WholeEvents(next, n), next + n, opens)
<1> DEFINE T == {k \in Nat : Sound(es \o WholeEvents(next, k), next + k, opens)}
<1>1. es \in Seq(EventType) /\ next \in Nat
  BY DEF Sound
<1>2. 0 \in T
  <2>1. WholeEvents(next, 0) \in Seq(EventType) /\ Len(WholeEvents(next, 0)) = 0
    <3>1. 0 \in Nat /\ 3 * 0 = 0
      OBVIOUS
    <3> QED BY <1>1, <3>1, WholeEventsType
  <2>2. WholeEvents(next, 0) = <<>>
    BY <2>1
  <2>3. es \o WholeEvents(next, 0) = es /\ next + 0 = next
    BY <1>1, <2>2, ConcatEmptySeq
  <2> QED BY <2>3
<1>3. ASSUME NEW k \in Nat, k \in T PROVE k + 1 \in T
  <2> DEFINE b == next + k
             m == es \o WholeEvents(next, k)
  <2>1. Sound(m, b, opens)
    BY <1>3
  <2>2. b \in Nat /\ b \notin opens /\ next + (k + 1) = b + 1 /\ b \in opens \cup {b} /\ <<>> \in Seq(Letters)
    BY <1>1, <2>1 DEF Sound
  <2> HIDE DEF m, b
  <2>3. Sound(Append(m, Start(b)), b + 1, opens \cup {b})
    BY <2>1, AddStart
  <2>4. Sound(Append(Append(m, Start(b)), Delta(b, <<>>)), b + 1, opens \cup {b})
    BY <2>2, <2>3, AddDelta
  <2>5. Sound(Append(Append(Append(m, Start(b)), Delta(b, <<>>)), Stop(b)), b + 1, (opens \cup {b}) \ {b})
    BY <2>2, <2>4, AddStop
  <2>6. (opens \cup {b}) \ {b} = opens
    BY <2>2
  <2>7. es \o WholeEvents(next, k + 1) = Append(Append(Append(m, Start(b)), Delta(b, <<>>)), Stop(b))
    BY <1>1, OneMoreBlock DEF m, b
  <2>8. Sound(es \o WholeEvents(next, k + 1), next + (k + 1), opens)
    BY <2>2, <2>5, <2>6, <2>7
  <2> QED BY <2>8
<1>4. \A k \in Nat : k \in T
  <2> HIDE DEF T
  <2> QED BY <1>2, <1>3, Induction
<1> QED BY <1>4

ViewType == [events : Seq(EventType), next : Nat, open : Nat \cup {NoBlock}]
Opens(v) == IF v.open = NoBlock THEN {} ELSE {v.open}
ViewSound(v) == v \in ViewType /\ Sound(v.events, v.next, Opens(v))

LEMMA NoEventsSound == ViewSound(NoEvents) /\ NoEvents.open = NoBlock
<1>1. NoEvents \in ViewType /\ NoEvents.events = <<>> /\ NoEvents.next = 0 /\ NoEvents.open = NoBlock
  BY DEF NoEvents, ViewType
<1>2. /\ <<>> \in Seq(EventType) /\ Len(<<>>) = 0 /\ 1..0 = {}
  OBVIOUS
<1>3. Started(<<>>, Len(<<>>)) = {}
  BY <1>2 DEF Started
<1>4. \A b \in Nat : ~(b < 0) /\ ~Starts(<<>>, b) /\ ~Stops(<<>>, b)
  BY <1>2 DEF Starts, Stops
<1>5. Sound(<<>>, 0, {})
  BY <1>2, <1>3, <1>4, FS_EmptySet DEF Sound
<1> QED BY <1>1, <1>5 DEF ViewSound, Opens

\* In a sound stream the only blocks that take a delta are the open ones.
LEMMA LastDeltaIsOpen ==
  ASSUME NEW es, NEW next, NEW opens, Sound(es, next, opens), es # <<>>, Last(es).event = "delta"
  PROVE  Last(es).block \in opens
<1> DEFINE n == Len(es)
           b == es[n].block
<1>1. es \in Seq(EventType) /\ n \in Nat \ {0} /\ n \in 1..n /\ Last(es) = es[n]
  BY DEF Sound, Last
<1>2. NestedAt(es, n) /\ es[n].event = "delta" /\ es[n] \in EventType
  BY <1>1 DEF Sound
<1>3. /\ \E j \in 1..(n - 1) : es[j].event = "start" /\ es[j].block = b
      /\ \A j \in 1..(n - 1) : ~(es[j].event = "stop" /\ es[j].block = b)
  BY <1>2 DEF NestedAt
<1>4. b \in Nat
  BY <1>2 DEF EventType
<1>5. \A j \in 1..n : j \in 1..(n - 1) \/ j = n
  BY <1>1
<1>6. 1..(n - 1) \subseteq 1..n
  BY <1>1
<1>7. Starts(es, b)
  BY <1>3, <1>6 DEF Starts
<1>8. ~Stops(es, b)
  BY <1>2, <1>3, <1>5 DEF Stops
<1>9. b < next /\ ~(b < next /\ b \notin opens)
  BY <1>4, <1>7, <1>8 DEF Sound
<1> QED BY <1>1, <1>9

LEMMA OpenTextBlockSound ==
  ASSUME NEW v, ViewSound(v)
  PROVE  LET w == OpenTextBlock(v)
         IN  ViewSound(w) /\ w.open # NoBlock /\ w.open \in Nat /\ w.events # <<>>
<1>1. v \in ViewType /\ Sound(v.events, v.next, Opens(v))
  BY DEF ViewSound
<1>2. v.events \in Seq(EventType) /\ v.next \in Nat /\ v.open \in Nat \cup {NoBlock} /\ ~(NoBlock \in Nat)
  BY <1>1 DEF ViewType, NoBlock
<1>3. CASE v.open # NoBlock
  <2>1. OpenTextBlock(v) = v
    BY <1>3 DEF OpenTextBlock
  <2>2. v.open < v.next
    BY <1>1, <1>3 DEF Sound, Opens
  <2>3. Starts(v.events, v.open)
    BY <1>1, <1>2, <1>3, <2>2 DEF Sound
  <2>4. v.events # <<>>
    BY <2>3 DEF Starts
  <2> QED BY <1>2, <1>3, <2>1, <2>4
<1>4. CASE v.open = NoBlock
  <2> DEFINE es == Append(v.events, Start(v.next))
  <2>1. OpenTextBlock(v) = [events |-> es, next |-> v.next + 1, open |-> v.next]
    BY <1>4 DEF OpenTextBlock
  <2>2. Sound(es, v.next + 1, {v.next})
    <3>1. Opens(v) = {} /\ {} \cup {v.next} = {v.next}
      BY <1>4 DEF Opens
    <3>2. Sound(es, v.next + 1, {} \cup {v.next})
      BY <1>1, <3>1, AddStart
    <3> QED BY <3>1, <3>2
  <2>3. es # <<>> /\ es \in Seq(EventType)
    <3>1. es \in Seq(EventType)
      BY <2>2 DEF Sound
    <3>2. Start(v.next) \in EventType
      BY <1>2 DEF Start, EventType
    <3> QED BY <1>2, <3>1, <3>2, AppendProperties
  <2> HIDE DEF es
  <2>4. OpenTextBlock(v) \in ViewType
    BY <1>2, <2>1, <2>3 DEF ViewType
  <2>5. Opens(OpenTextBlock(v)) = {v.next}
    BY <1>2, <2>1 DEF Opens
  <2>6. /\ OpenTextBlock(v).events = es /\ OpenTextBlock(v).next = v.next + 1
        /\ OpenTextBlock(v).open = v.next /\ v.next # NoBlock
    BY <1>2, <2>1
  <2>7. ViewSound(OpenTextBlock(v))
    BY <2>2, <2>4, <2>5, <2>6 DEF ViewSound
  <2> QED BY <1>2, <2>3, <2>6, <2>7
<1> QED BY <1>3, <1>4

LEMMA TextDeltaSound ==
  ASSUME NEW v, ViewSound(v), NEW t \in Seq(Letters)
  PROVE  ViewSound(TextDelta(v, t))
<1> DEFINE w == OpenTextBlock(v)
           last == Last(w.events)
           es == w.events
           n == Len(es)
<1>1. ViewSound(w) /\ w.open # NoBlock /\ w.open \in Nat /\ es # <<>>
  BY OpenTextBlockSound
<1>2. TextDelta(v, t) = IF last.event = "delta"
                        THEN [w EXCEPT !.events = Append(Front(es), Delta(w.open, last.text \o t))]
                        ELSE [w EXCEPT !.events = Append(es, Delta(w.open, t))]
  BY DEF TextDelta
<1> HIDE DEF w
<1>3. w \in ViewType /\ Sound(es, w.next, {w.open}) /\ es \in Seq(EventType) /\ w.next \in Nat
  BY <1>1 DEF ViewSound, Opens, ViewType
<1>4. CASE last.event = "delta"
  <2> DEFINE e == Delta(w.open, last.text \o t)
             fs == Append(Front(es), e)
  <2>1. last \in EventType /\ last = es[n] /\ n \in Nat \ {0}
    BY <1>1, <1>3 DEF Last
  <2>2. last.block = w.open
    BY <1>1, <1>3, <1>4, LastDeltaIsOpen
  <2>3. last.text \o t \in Seq(Letters)
    BY <2>1, ConcatProperties DEF EventType
  <2>4. e \in EventType /\ e.event = "delta" /\ e.block = w.open
    BY <1>1, <2>3 DEF Delta, EventType
  <2>5. Front(es) \in Seq(EventType) /\ Len(Front(es)) = n - 1 /\ \A i \in 1..(n - 1) : Front(es)[i] = es[i]
    BY <1>3, <2>1 DEF Front
  <2> HIDE DEF e
  <2>6. /\ fs \in Seq(EventType) /\ Len(fs) = n /\ fs[n] = e
        /\ \A i \in 1..(n - 1) : fs[i] = es[i]
    BY <2>1, <2>4, <2>5, AppendProperties
  <2>7. ASSUME NEW i \in 1..n PROVE fs[i].event = es[i].event /\ fs[i].block = es[i].block
    <3>1. CASE i = n
      BY <1>4, <2>1, <2>2, <2>4, <2>6, <3>1
    <3>2. CASE i # n
      BY <2>1, <2>6, <3>2, SMTT(30)
    <3> QED BY <3>1, <3>2
  <2>8. Sound(fs, w.next, {w.open})
    <3> HIDE DEF fs
    <3> QED BY <1>3, <2>6, <2>7, SameShape
  <2>9. TextDelta(v, t) = [w EXCEPT !.events = fs]
    BY <1>2, <1>4 DEF e
  <2> HIDE DEF fs
  <2> QED BY <1>1, <1>3, <2>6, <2>8, <2>9 DEF ViewSound, ViewType, Opens
<1>5. CASE last.event # "delta"
  <2> DEFINE fs == Append(es, Delta(w.open, t))
  <2>1. Sound(fs, w.next, {w.open})
    BY <1>3, AddDelta
  <2>2. TextDelta(v, t) = [w EXCEPT !.events = fs]
    BY <1>2, <1>5
  <2>3. fs \in Seq(EventType)
    BY <2>1 DEF Sound
  <2> HIDE DEF fs
  <2> QED BY <1>1, <1>3, <2>1, <2>2, <2>3 DEF ViewSound, ViewType, Opens
<1> QED BY <1>4, <1>5

LEMMA CloseOpenBlocksSound ==
  ASSUME NEW v, ViewSound(v)
  PROVE  ViewSound(CloseOpenBlocks(v)) /\ CloseOpenBlocks(v).open = NoBlock
<1>1. v \in ViewType /\ Sound(v.events, v.next, Opens(v)) /\ v.next \in Nat
  BY DEF ViewSound, ViewType
<1>2. CASE v.open = NoBlock
  BY <1>2 DEF CloseOpenBlocks
<1>3. CASE v.open # NoBlock
  <2> DEFINE es == Append(v.events, Stop(v.open))
  <2>1. Sound(es, v.next, {v.open} \ {v.open})
    BY <1>1, <1>3, AddStop DEF Opens
  <2>2. {v.open} \ {v.open} = {}
    OBVIOUS
  <2>3. CloseOpenBlocks(v) = [v EXCEPT !.events = es, !.open = NoBlock]
    BY <1>3 DEF CloseOpenBlocks
  <2>4. Sound(es, v.next, {}) /\ es \in Seq(EventType)
    BY <2>1, <2>2 DEF Sound
  <2> HIDE DEF es
  <2>5. /\ CloseOpenBlocks(v) \in ViewType /\ CloseOpenBlocks(v).events = es
        /\ CloseOpenBlocks(v).next = v.next /\ CloseOpenBlocks(v).open = NoBlock
    BY <1>1, <2>3, <2>4 DEF ViewType
  <2> QED BY <2>4, <2>5 DEF ViewSound, Opens
<1> QED BY <1>2, <1>3

LEMMA WholeBlocksSound ==
  ASSUME NEW v, ViewSound(v), NEW n \in Nat
  PROVE  ViewSound(WholeBlocks(v, n)) /\ WholeBlocks(v, n).open = v.open
<1> DEFINE es == v.events \o WholeEvents(v.next, n)
<1>1. v \in ViewType /\ Sound(v.events, v.next, Opens(v)) /\ v.next \in Nat
  BY DEF ViewSound, ViewType
<1>2. Sound(es, v.next + n, Opens(v))
  BY <1>1, AddWholeBlocks
<1>3. WholeBlocks(v, n) = [v EXCEPT !.events = es, !.next = v.next + n]
  BY DEF WholeBlocks, WholeEvents
<1>4. es \in Seq(EventType) /\ v.next + n \in Nat
  BY <1>2 DEF Sound
<1> HIDE DEF es
<1>5. /\ WholeBlocks(v, n) \in ViewType /\ WholeBlocks(v, n).events = es
      /\ WholeBlocks(v, n).next = v.next + n /\ WholeBlocks(v, n).open = v.open
  BY <1>1, <1>3, <1>4 DEF ViewType
<1> QED BY <1>2, <1>5 DEF ViewSound, Opens

LEMMA WithTextSound ==
  ASSUME NEW v, ViewSound(v), NEW t \in Seq(Letters)
  PROVE  ViewSound(WithText(v, t))
BY TextDeltaSound DEF WithText

\* Whatever the answer is, the renderer closes every block.
LEMMA RenderToolsSound ==
  ASSUME NEW v, ViewSound(v), NEW s \in Seq(Letters), NEW t \in Seq(Letters), NEW calls \in Nat,
         NEW thinking \in BOOLEAN
  PROVE  LET w == RenderTools(v, s, t, calls, thinking) IN ViewSound(w) /\ w.open = NoBlock
<1> DEFINE remainder == IF IsPrefix(s, t) THEN Rest(t, Len(s)) ELSE t
           texts == CloseOpenBlocks(WithText(CloseOpenBlocks(v), remainder))
           blocks == calls + IF thinking THEN 1 ELSE 0
<1>1. remainder \in Seq(Letters) /\ blocks \in Nat
  BY RestType
<1> HIDE DEF remainder, blocks
<1>2. ViewSound(texts) /\ texts.open = NoBlock
  BY <1>1, CloseOpenBlocksSound, WithTextSound
<1> HIDE DEF texts
<1>3. ViewSound(WholeBlocks(texts, blocks)) /\ WholeBlocks(texts, blocks).open = NoBlock
  BY <1>1, <1>2, WholeBlocksSound
<1> QED BY <1>3 DEF RenderTools, texts, remainder, blocks

LEMMA RenderTextSound ==
  ASSUME NEW v, ViewSound(v), NEW s \in Seq(Letters), NEW t \in Seq(Letters), NEW thinking \in BOOLEAN
  PROVE  LET w == RenderText(v, s, t, thinking) IN ViewSound(w) /\ w.open = NoBlock
<1> DEFINE thought == IF thinking THEN WholeBlocks(v, 1) ELSE v
           texts == IF IsPrefix(s, t) THEN WithText(thought, Rest(t, Len(s)))
                    ELSE IF IsPrefix(t, s) THEN thought
                    ELSE WithText(CloseOpenBlocks(thought), t)
<1>1. ViewSound(thought)
  BY WholeBlocksSound
<1> HIDE DEF thought
<1>2. ViewSound(texts)
  <2>1. Rest(t, Len(s)) \in Seq(Letters)
    BY RestType
  <2>2. ViewSound(WithText(thought, Rest(t, Len(s))))
    BY <1>1, <2>1, WithTextSound
  <2>3. ViewSound(CloseOpenBlocks(thought))
    BY <1>1, CloseOpenBlocksSound
  <2>4. ViewSound(WithText(CloseOpenBlocks(thought), t))
    BY <2>3, WithTextSound
  <2> QED BY <1>1, <2>2, <2>4
<1> HIDE DEF texts
<1>3. ViewSound(CloseOpenBlocks(texts)) /\ CloseOpenBlocks(texts).open = NoBlock
  BY <1>2, CloseOpenBlocksSound
<1> QED BY <1>3 DEF RenderText, texts, thought

LEMMA RenderErrorSound ==
  ASSUME NEW v, ViewSound(v), NEW disengaged
  PROVE  LET w == RenderError(v, disengaged) IN ViewSound(w) /\ w.open = NoBlock
<1>1. <<"q">> \in Seq(Letters)
  <2>1. "q" \in Letters
    BY DEF Letters
  <2> QED BY <2>1
<1>2. ViewSound(CloseOpenBlocks(v)) /\ CloseOpenBlocks(v).open = NoBlock
  BY CloseOpenBlocksSound
<1>3. ViewSound(TextDelta(CloseOpenBlocks(v), <<"q">>))
  BY <1>1, <1>2, TextDeltaSound
<1>4. /\ ViewSound(CloseOpenBlocks(TextDelta(CloseOpenBlocks(v), <<"q">>)))
      /\ CloseOpenBlocks(TextDelta(CloseOpenBlocks(v), <<"q">>)).open = NoBlock
  BY <1>3, CloseOpenBlocksSound
<1> QED BY <1>2, <1>4 DEF RenderError
-----------------------------------------------------------------------------
(* Texts joined: FlattenSeq chooses a function that joins one text more at *)
(* each index; any two of them agree, so that one more text is joined last. *)

\* A function that joins more and more of the texts of s.
Joins(f, s, n) == \A i \in 1..n : f[i] = IF i = 1 THEN s[i] ELSE f[i - 1] \o s[i]

LEMMA JoinsAre ==
  ASSUME NEW s, NEW n, NEW f, \A i \in 1..n : f[i] = IF i = 1 THEN s[i] ELSE f[i - 1] \o s[i]
  PROVE  Joins(f, s, n)
  BY DEF Joins

LEMMA JoinsExist ==
  ASSUME NEW S, NEW s \in Seq(Seq(S)), NEW n \in 0..Len(s)
  PROVE  \E f \in [1..n -> Seq(S)] : Joins(f, s, n)
<1> DEFINE T == {k \in Nat : k <= Len(s) => \E f \in [1..k -> Seq(S)] : Joins(f, s, k)}
<1>0. \A i \in 1..Len(s) : s[i] \in Seq(S)
  OBVIOUS
<1>1. 0 \in T
  <2> DEFINE f == [i \in 1..0 |-> <<>>]
  <2>1. 1..0 = {}
    OBVIOUS
  <2>2. f \in [1..0 -> Seq(S)]
    BY <2>1
  <2>3. Joins(f, s, 0)
    BY <2>1 DEF Joins
  <2> QED BY <2>2, <2>3
<1>2. ASSUME NEW k \in Nat, k \in T PROVE k + 1 \in T
  <2>1. CASE ~(k + 1 <= Len(s))
    BY <2>1
  <2>2. CASE k + 1 <= Len(s)
    <3>1. PICK f \in [1..k -> Seq(S)] : Joins(f, s, k)
      BY <1>2, <2>2
    <3> DEFINE last == IF k = 0 THEN s[k + 1] ELSE f[k] \o s[k + 1]
               g == [i \in 1..(k + 1) |-> IF i = k + 1 THEN last ELSE f[i]]
    <3>2. last \in Seq(S)
      <4>1. s[k + 1] \in Seq(S)
        BY <1>0, <2>2
      <4>2. CASE k # 0
        <5>1. f[k] \in Seq(S)
          BY <3>1, <4>2
        <5> QED BY <4>1, <5>1
      <4> QED BY <4>1, <4>2
    <3> HIDE DEF last
    <3>3. g \in [1..(k + 1) -> Seq(S)]
      BY <3>1, <3>2
    <3>4. \A i \in 1..k : f[i] = IF i = 1 THEN s[i] ELSE f[i - 1] \o s[i]
      BY <3>1 DEF Joins
    <3>5. \A i \in 1..(k + 1) : g[i] = IF i = 1 THEN s[i] ELSE g[i - 1] \o s[i]
      <4> SUFFICES ASSUME NEW i \in 1..(k + 1) PROVE g[i] = IF i = 1 THEN s[i] ELSE g[i - 1] \o s[i]
        OBVIOUS
      <4>1. CASE i = k + 1
        <5>1. CASE k = 0
          BY <4>1, <5>1 DEF last
        <5>2. CASE k # 0
          <6>1. g[i] = last /\ g[i - 1] = f[k] /\ i # 1
            BY <4>1, <5>2
          <6> QED BY <4>1, <5>2, <6>1 DEF last
        <5> QED BY <5>1, <5>2
      <4>2. CASE i # k + 1
        <5>1. i \in 1..k /\ g[i] = f[i]
          BY <4>2
        <5>2. i # 1 => g[i - 1] = f[i - 1]
          BY <5>1
        <5> HIDE DEF g
        <5> QED BY <3>4, <5>1, <5>2
      <4> QED BY <4>1, <4>2
    <3>6. Joins(g, s, k + 1)
      <4> HIDE DEF g
      <4> QED BY <3>5, JoinsAre
    <3>7. \E h \in [1..(k + 1) -> Seq(S)] : Joins(h, s, k + 1)
      <4> HIDE DEF g
      <4> QED BY <3>3, <3>6
    <3> QED BY <3>7
  <2> QED BY <2>1, <2>2
<1>3. \A k \in Nat : k \in T
  <2> HIDE DEF T
  <2> QED BY <1>1, <1>2, Induction
<1> QED BY <1>3

\* FlattenSeq takes one of them.
LEMMA FlattenJoins ==
  ASSUME NEW S, NEW s \in Seq(Seq(S)), Len(s) # 0
  PROVE  \E f : Joins(f, s, Len(s)) /\ FlattenSeq(s) = f[Len(s)]
<1> DEFINE f == CHOOSE g : g = [i \in 1..Len(s) |-> IF i = 1 THEN s[i] ELSE g[i - 1] \o s[i]]
<1>1. FlattenSeq(s) = f[Len(s)]
  BY DEF FlattenSeq
<1>2. \E g : g = [i \in 1..Len(s) |-> IF i = 1 THEN s[i] ELSE g[i - 1] \o s[i]]
  <2>1. Len(s) \in 0..Len(s)
    OBVIOUS
  <2>2. PICK g \in [1..Len(s) -> Seq(S)] : Joins(g, s, Len(s))
    BY <2>1, JoinsExist
  <2>3. g = [i \in 1..Len(s) |-> IF i = 1 THEN s[i] ELSE g[i - 1] \o s[i]]
    BY <2>2 DEF Joins
  <2> QED BY <2>3
<1>3. f = [i \in 1..Len(s) |-> IF i = 1 THEN s[i] ELSE f[i - 1] \o s[i]]
  BY <1>2
<1> HIDE DEF f
<1>4. Joins(f, s, Len(s))
  BY <1>3 DEF Joins
<1> QED BY <1>1, <1>4

\* The empty sequence has no text; one more element adds its text at the end.
LEMMA FlattenType ==
  ASSUME NEW S, NEW s \in Seq(Seq(S)), NEW f, Joins(f, s, Len(s)), NEW n \in 1..Len(s)
  PROVE  f[n] \in Seq(S)
<1> DEFINE T == {k \in Nat : k \in 1..Len(s) => f[k] \in Seq(S)}
<1>0. (\A i \in 1..Len(s) : s[i] \in Seq(S)) /\ Len(s) \in Nat
  OBVIOUS
<1>1. 0 \in T
  OBVIOUS
<1>2. ASSUME NEW k \in Nat, k \in T PROVE k + 1 \in T
  <2> SUFFICES ASSUME k + 1 \in 1..Len(s) PROVE f[k + 1] \in Seq(S)
    OBVIOUS
  <2>1. f[k + 1] = IF k + 1 = 1 THEN s[k + 1] ELSE f[(k + 1) - 1] \o s[k + 1]
    BY DEF Joins
  <2>2. k + 1 # 1 => k \in 1..Len(s) /\ (k + 1) - 1 = k
    BY <1>0
  <2>3. k + 1 # 1 => f[k] \in Seq(S)
    BY <1>2, <2>2
  <2> QED BY <1>0, <2>1, <2>2, <2>3
<1>3. \A k \in Nat : k \in T
  <2> HIDE DEF T
  <2> QED BY <1>1, <1>2, Induction
<1> QED BY <1>0, <1>3

\* Two such functions of sequences with a common prefix agree on it.
LEMMA JoinsAgree ==
  ASSUME NEW S, NEW s \in Seq(Seq(S)), NEW t \in Seq(Seq(S)), Len(s) <= Len(t),
         \A i \in 1..Len(s) : s[i] = t[i],
         NEW f, Joins(f, s, Len(s)), NEW g, Joins(g, t, Len(t))
  PROVE  \A m \in 1..Len(s) : f[m] = g[m]
<1> DEFINE T == {k \in Nat : k \in 1..Len(s) => f[k] = g[k]}
<1>1. 0 \in T
  OBVIOUS
<1>2. ASSUME NEW k \in Nat, k \in T PROVE k + 1 \in T
  <2> SUFFICES ASSUME k + 1 \in 1..Len(s) PROVE f[k + 1] = g[k + 1]
    OBVIOUS
  <2>0. k + 1 \in 1..Len(s) /\ k + 1 \in 1..Len(t)
    OBVIOUS
  <2>1. f[k + 1] = IF k + 1 = 1 THEN s[k + 1] ELSE f[(k + 1) - 1] \o s[k + 1]
    BY <2>0 DEF Joins
  <2>2. g[k + 1] = IF k + 1 = 1 THEN t[k + 1] ELSE g[(k + 1) - 1] \o t[k + 1]
    BY <2>0 DEF Joins
  <2>3. k + 1 # 1 => k \in 1..Len(s) /\ (k + 1) - 1 = k
    OBVIOUS
  <2>4. k + 1 # 1 => f[k] = g[k]
    BY <1>2, <2>3
  <2>5. s[k + 1] = t[k + 1]
    OBVIOUS
  <2> QED BY <2>1, <2>2, <2>3, <2>4, <2>5
<1>3. \A k \in Nat : k \in T
  <2> HIDE DEF T
  <2> QED BY <1>1, <1>2, Induction
<1> QED BY <1>3

LEMMA FlattenSeqType ==
  ASSUME NEW S, NEW s \in Seq(Seq(S))
  PROVE  FlattenSeq(s) \in Seq(S) /\ (Len(s) = 0 => FlattenSeq(s) = <<>>)
<1>1. CASE Len(s) = 0
  <2>1. FlattenSeq(s) = s
    BY <1>1 DEF FlattenSeq
  <2>2. s = <<>>
    BY <1>1
  <2> QED BY <2>1, <2>2
<1>2. CASE Len(s) # 0
  <2>1. PICK f : Joins(f, s, Len(s)) /\ FlattenSeq(s) = f[Len(s)]
    BY <1>2, FlattenJoins
  <2>2. Len(s) \in 1..Len(s)
    BY <1>2
  <2> QED BY <1>2, <2>1, <2>2, FlattenType
<1> QED BY <1>1, <1>2

LEMMA FlattenAppend ==
  ASSUME NEW S, NEW s \in Seq(Seq(S)), NEW x \in Seq(S)
  PROVE  FlattenSeq(Append(s, x)) = FlattenSeq(s) \o x
<1> DEFINE t == Append(s, x)
           n == Len(s)
<1>1. t \in Seq(Seq(S)) /\ Len(t) = n + 1 /\ t[n + 1] = x /\ n \in Nat /\ \A i \in 1..n : t[i] = s[i]
  BY AppendProperties
<1> HIDE DEF t
<1>2. PICK g : Joins(g, t, Len(t)) /\ FlattenSeq(t) = g[Len(t)]
  <2>1. Len(t) # 0
    BY <1>1
  <2> QED BY <1>1, <2>1, FlattenJoins
<1>3. g[n + 1] = IF n + 1 = 1 THEN x ELSE g[(n + 1) - 1] \o x
  <2>1. n + 1 \in 1..Len(t)
    BY <1>1
  <2> QED BY <1>1, <1>2, <2>1 DEF Joins
<1>4. CASE n = 0
  <2>1. FlattenSeq(s) = <<>>
    BY <1>4, FlattenSeqType
  <2>3. FlattenSeq(t) = x
    BY <1>1, <1>2, <1>3, <1>4
  <2>2. <<>> \o x = x
    BY ConcatEmptySeq
  <2> QED BY <2>1, <2>2, <2>3 DEF t
<1>5. CASE n # 0
  <2>1. PICK f : Joins(f, s, n) /\ FlattenSeq(s) = f[n]
    BY <1>5, FlattenJoins
  <2>2. f[n] = g[n]
    <3>1. n \in 1..n /\ n = Len(s) /\ Len(s) <= Len(t) /\ \A i \in 1..Len(s) : s[i] = t[i]
      BY <1>1, <1>5
    <3>2. \A m \in 1..Len(s) : f[m] = g[m]
      <4>1. Joins(f, s, Len(s)) /\ Joins(g, t, Len(t)) /\ Len(s) <= Len(t)
        BY <1>2, <2>1, <3>1
      <4>2. \A i \in 1..Len(s) : s[i] = t[i]
        BY <3>1
      <4>3. t \in Seq(Seq(S))
        BY <1>1
      <4> QED BY <4>1, <4>2, <4>3, JoinsAgree, SMTT(30)
    <3> QED BY <3>1, <3>2
  <2>3. (n + 1) - 1 = n /\ n + 1 # 1
    BY <1>1, <1>5
  <2> QED BY <1>1, <1>2, <1>3, <2>1, <2>2, <2>3 DEF t
<1> QED BY <1>4, <1>5
-----------------------------------------------------------------------------
(* What the client reads.                                                  *)

\* What has been read of a stream of events.
Parts(es) == [i \in DOMAIN es |-> es[i].text]
ReadOf(es) == FlattenSeq(Parts(es))

LEMMA AppendReads ==
  ASSUME NEW es \in Seq(EventType), NEW e \in EventType
  PROVE  /\ ReadOf(es) \in Seq(Letters)
         /\ ReadOf(Append(es, e)) = ReadOf(es) \o e.text
<1> DEFINE fs == Append(es, e)
           n == Len(es)
<1>1. n \in Nat /\ DOMAIN es = 1..n /\ \A i \in 1..n : es[i].text \in Seq(Letters)
  <2>1. \A i \in 1..n : es[i] \in EventType
    OBVIOUS
  <2> QED BY <2>1 DEF EventType
<1>2. Parts(es) \in Seq(Seq(Letters)) /\ Len(Parts(es)) = n /\ \A i \in 1..n : Parts(es)[i] = es[i].text
  <2>1. Parts(es) = [i \in 1..n |-> es[i].text]
    BY <1>1 DEF Parts
  <2> QED BY <1>1, <2>1
<1>3. fs \in Seq(EventType) /\ Len(fs) = n + 1 /\ fs[n + 1] = e /\ \A i \in 1..n : fs[i] = es[i]
  BY AppendProperties
<1>4. e.text \in Seq(Letters)
  BY DEF EventType
<1> DEFINE p == Append(Parts(es), e.text)
<1> HIDE DEF fs, n
<1>5. p \in Seq(Seq(Letters)) /\ Len(p) = n + 1 /\ p[n + 1] = e.text /\ \A i \in 1..n : p[i] = es[i].text
  BY <1>2, <1>4, AppendProperties
<1> HIDE DEF p
<1>6. Parts(fs) = p
  <2>1. DOMAIN fs = 1..(n + 1)
    BY <1>1, <1>3
  <2>2. Parts(fs) = [i \in 1..(n + 1) |-> fs[i].text]
    BY <2>1 DEF Parts
  <2>3. \A i \in 1..(n + 1) : i \in 1..n \/ i = n + 1
    BY <1>1
  <2>4. \A i \in 1..(n + 1) : fs[i].text = p[i]
    BY <1>3, <1>5, <2>3
  <2>5. p = [i \in 1..(n + 1) |-> p[i]]
    BY <1>1, <1>5
  <2> QED BY <2>2, <2>4, <2>5
<1>7. FlattenSeq(Parts(es)) \in Seq(Letters)
  BY <1>2, FlattenSeqType
<1>8. FlattenSeq(p) = FlattenSeq(Parts(es)) \o e.text
  BY <1>2, <1>4, FlattenAppend DEF p
<1> QED BY <1>6, <1>7, <1>8 DEF ReadOf, fs

LEMMA NothingRead == ReadOf(<<>>) = <<>>
<1>1. Parts(<<>>) \in Seq(Seq(Letters)) /\ Len(Parts(<<>>)) = 0
  BY DEF Parts
<1> QED BY <1>1, FlattenSeqType DEF ReadOf

\* Starts and stops are not read.
LEMMA AppendMark ==
  ASSUME NEW es \in Seq(EventType), NEW b \in Nat
  PROVE  /\ ReadOf(Append(es, Start(b))) = ReadOf(es) /\ Append(es, Start(b)) \in Seq(EventType)
         /\ ReadOf(Append(es, Stop(b))) = ReadOf(es) /\ Append(es, Stop(b)) \in Seq(EventType)
         /\ ReadOf(Append(es, Delta(b, <<>>))) = ReadOf(es) /\ Append(es, Delta(b, <<>>)) \in Seq(EventType)
<1>1. ASSUME NEW e \in EventType, e.text = <<>>
      PROVE  ReadOf(Append(es, e)) = ReadOf(es) /\ Append(es, e) \in Seq(EventType)
  <2>1. ReadOf(es) \in Seq(Letters) /\ ReadOf(Append(es, e)) = ReadOf(es) \o <<>>
    BY <1>1, AppendReads
  <2>2. ReadOf(es) \o <<>> = ReadOf(es)
    BY <2>1, ConcatEmptySeq
  <2> QED BY <2>1, <2>2, AppendProperties
<1>2. Start(b) \in EventType /\ Start(b).text = <<>>
  BY DEF Start, EventType
<1>3. Stop(b) \in EventType /\ Stop(b).text = <<>>
  BY DEF Stop, EventType
<1>4. Delta(b, <<>>) \in EventType /\ Delta(b, <<>>).text = <<>>
  BY DEF Delta, EventType
<1> QED BY <1>1, <1>2, <1>3, <1>4

LEMMA ReadsAre == ASSUME NEW v PROVE TextOf(v) = ReadOf(v.events)
BY DEF TextOf, ReadOf, Parts

LEMMA OpenTextBlockReads ==
  ASSUME NEW v, ViewSound(v) PROVE TextOf(OpenTextBlock(v)) = TextOf(v)
<1>1. v.events \in Seq(EventType) /\ v.next \in Nat
  BY DEF ViewSound, ViewType
<1>2. CASE v.open = NoBlock
  <2>1. OpenTextBlock(v).events = Append(v.events, Start(v.next))
    BY <1>2 DEF OpenTextBlock
  <2>2. ReadOf(Append(v.events, Start(v.next))) = ReadOf(v.events)
    BY <1>1, AppendMark
  <2> QED BY <2>1, <2>2, ReadsAre
<1>3. CASE v.open # NoBlock
  BY <1>3 DEF OpenTextBlock
<1> QED BY <1>2, <1>3

LEMMA TextDeltaReads ==
  ASSUME NEW v, ViewSound(v), NEW t \in Seq(Letters)
  PROVE  TextOf(TextDelta(v, t)) = TextOf(v) \o t
<1> DEFINE w == OpenTextBlock(v)
           es == w.events
           last == Last(es)
           n == Len(es)
<1>1. ViewSound(w) /\ w.open \in Nat /\ es # <<>> /\ TextOf(w) = TextOf(v)
  BY OpenTextBlockSound, OpenTextBlockReads
<1>2. TextDelta(v, t) = IF last.event = "delta"
                        THEN [w EXCEPT !.events = Append(Front(es), Delta(w.open, last.text \o t))]
                        ELSE [w EXCEPT !.events = Append(es, Delta(w.open, t))]
  BY DEF TextDelta
<1> HIDE DEF w
<1>3. w \in ViewType /\ es \in Seq(EventType)
  BY <1>1 DEF ViewSound, ViewType
<1>4. CASE last.event = "delta"
  <2> DEFINE f == Front(es)
  <2>1. last \in EventType /\ last = es[n] /\ n \in Nat \ {0}
    BY <1>1, <1>3 DEF Last
  <2>2. f \in Seq(EventType) /\ Len(f) = n - 1 /\ \A i \in 1..(n - 1) : f[i] = es[i]
    BY <1>3, <2>1 DEF Front
  <2>3. es = Append(f, last)
    <3> DEFINE g == Append(f, last)
    <3> HIDE DEF f
    <3>1. g \in Seq(EventType) /\ Len(g) = (n - 1) + 1 /\ g[(n - 1) + 1] = last /\ \A i \in 1..(n - 1) : g[i] = f[i]
      BY <2>1, <2>2, AppendProperties
    <3>2. (n - 1) + 1 = n /\ \A i \in 1..n : i \in 1..(n - 1) \/ i = n
      BY <2>1
    <3> HIDE DEF g
    <3>3. \A i \in 1..n : g[i] = es[i]
      BY <2>1, <2>2, <3>1, <3>2
    <3>4. g = es
      BY <1>3, <3>1, <3>2, <3>3, SeqEqual
    <3> QED BY <3>4 DEF g
  <2> HIDE DEF f
  <2> DEFINE e == Delta(w.open, last.text \o t)
  <2>4. last.text \in Seq(Letters)
    BY <2>1 DEF EventType
  <2>5. e \in EventType /\ e.text = last.text \o t
    <3>1. last.text \o t \in Seq(Letters)
      BY <2>4, ConcatProperties
    <3> QED BY <1>1, <3>1 DEF Delta, EventType
  <2>6. TextDelta(v, t).events = Append(f, e)
    BY <1>2, <1>3, <1>4 DEF f, ViewType
  <2> HIDE DEF e
  <2>7. ReadOf(f) \in Seq(Letters) /\ ReadOf(Append(f, e)) = ReadOf(f) \o (last.text \o t)
        /\ ReadOf(es) = ReadOf(f) \o last.text
    <3>1. ReadOf(Append(f, last)) = ReadOf(f) \o last.text
      BY <2>1, <2>2, AppendReads
    <3>2. ReadOf(f) \in Seq(Letters) /\ ReadOf(Append(f, e)) = ReadOf(f) \o e.text
      BY <2>2, <2>5, AppendReads
    <3> QED BY <2>3, <2>5, <3>1, <3>2
  <2>8. (ReadOf(f) \o last.text) \o t = ReadOf(f) \o (last.text \o t)
    <3> DEFINE r == ReadOf(f)
               l == last.text
    <3>1. r \in Seq(Letters) /\ l \in Seq(Letters)
      BY <2>4, <2>7
    <3> HIDE DEF r, l
    <3>2. (r \o l) \o t = r \o (l \o t)
      BY <3>1, ConcatAssociative, SMTT(30)
    <3> QED BY <3>2 DEF r, l
  <2>9. TextOf(TextDelta(v, t)) = ReadOf(Append(f, e)) /\ TextOf(v) = ReadOf(es)
    BY <1>1, <2>6, ReadsAre
  <2> QED BY <2>7, <2>8, <2>9
<1>5. CASE last.event # "delta"
  <2> DEFINE e == Delta(w.open, t)
  <2>1. e \in EventType /\ e.text = t
    BY <1>1 DEF Delta, EventType
  <2>2. TextDelta(v, t).events = Append(es, e)
    BY <1>2, <1>3, <1>5 DEF ViewType
  <2> HIDE DEF e
  <2>3. ReadOf(Append(es, e)) = ReadOf(es) \o t
    BY <1>3, <2>1, AppendReads
  <2> QED BY <1>1, <2>2, <2>3, ReadsAre
<1> QED BY <1>4, <1>5

LEMMA CloseReads ==
  ASSUME NEW v, ViewSound(v) PROVE TextOf(CloseOpenBlocks(v)) = TextOf(v)
<1>1. v \in ViewType /\ v.events \in Seq(EventType) /\ v.open \in Nat \cup {NoBlock}
  BY DEF ViewSound, ViewType
<1>2. CASE v.open # NoBlock
  <2>1. CloseOpenBlocks(v).events = Append(v.events, Stop(v.open)) /\ v.open \in Nat
    BY <1>1, <1>2 DEF CloseOpenBlocks, ViewType
  <2>2. ReadOf(Append(v.events, Stop(v.open))) = ReadOf(v.events)
    BY <1>1, <2>1, AppendMark
  <2> QED BY <2>1, <2>2, ReadsAre
<1>3. CASE v.open = NoBlock
  BY <1>3 DEF CloseOpenBlocks
<1> QED BY <1>2, <1>3

LEMMA WholeBlocksReads ==
  ASSUME NEW v, ViewSound(v), NEW n \in Nat
  PROVE  TextOf(WholeBlocks(v, n)) = TextOf(v)
<1> DEFINE es == v.events
           next == v.next
           T == {k \in Nat : ReadOf(es \o WholeEvents(next, k)) = ReadOf(es)}
<1>1. es \in Seq(EventType) /\ next \in Nat /\ v \in ViewType
  BY DEF ViewSound, ViewType
<1> HIDE DEF es, next
<1>2. 0 \in T
  <2>1. WholeEvents(next, 0) \in Seq(EventType) /\ Len(WholeEvents(next, 0)) = 0
    <3>1. 0 \in Nat /\ 3 * 0 = 0
      OBVIOUS
    <3> QED BY <1>1, <3>1, WholeEventsType
  <2>2. WholeEvents(next, 0) = <<>>
    BY <2>1
  <2>3. es \o WholeEvents(next, 0) = es
    BY <1>1, <2>2, ConcatEmptySeq
  <2> QED BY <2>3
<1>3. ASSUME NEW k \in Nat, k \in T PROVE k + 1 \in T
  <2> DEFINE b == next + k
             m == es \o WholeEvents(next, k)
  <2>1. m \in Seq(EventType) /\ b \in Nat
    <3>1. b \in Nat
      BY <1>1
    <3>2. WholeEvents(next, k) \in Seq(EventType)
      BY <1>1, WholeEventsType
    <3>3. es \o WholeEvents(next, k) \in Seq(EventType)
      BY <1>1, <3>2, ConcatProperties
    <3> QED BY <3>1, <3>3
  <2>2. ReadOf(m) = ReadOf(es)
    BY <1>3
  <2>3. es \o WholeEvents(next, k + 1) = Append(Append(Append(m, Start(b)), Delta(b, <<>>)), Stop(b))
    BY <1>1, OneMoreBlock
  <2> HIDE DEF m, b
  <2>4. ReadOf(Append(m, Start(b))) = ReadOf(m) /\ Append(m, Start(b)) \in Seq(EventType)
    BY <2>1, AppendMark
  <2>5. /\ ReadOf(Append(Append(m, Start(b)), Delta(b, <<>>))) = ReadOf(m)
        /\ Append(Append(m, Start(b)), Delta(b, <<>>)) \in Seq(EventType)
    BY <2>1, <2>4, AppendMark
  <2>6. ReadOf(Append(Append(Append(m, Start(b)), Delta(b, <<>>)), Stop(b))) = ReadOf(m)
    BY <2>1, <2>5, AppendMark
  <2>7. ReadOf(es \o WholeEvents(next, k + 1)) = ReadOf(es)
    BY <2>2, <2>3, <2>6
  <2> QED BY <2>7
<1>4. \A k \in Nat : k \in T
  <2> HIDE DEF T
  <2> QED BY <1>2, <1>3, Induction
<1>5. WholeBlocks(v, n).events = es \o WholeEvents(next, n)
  <2>1. WholeBlocks(v, n) = [v EXCEPT !.events = es \o WholeEvents(next, n), !.next = next + n]
    BY DEF WholeBlocks, WholeEvents, es, next
  <2> DEFINE fs == es \o WholeEvents(next, n)
  <2> HIDE DEF fs
  <2>2. WholeBlocks(v, n).events = fs
    BY <1>1, <2>1 DEF ViewType, fs
  <2> QED BY <2>2 DEF fs
<1>6. ReadOf(es \o WholeEvents(next, n)) = ReadOf(es)
  BY <1>4
<1>7. TextOf(WholeBlocks(v, n)) = ReadOf(WholeBlocks(v, n).events) /\ TextOf(v) = ReadOf(v.events)
  BY ReadsAre
<1> QED BY <1>5, <1>6, <1>7 DEF es

LEMMA TextOfType == ASSUME NEW v, ViewSound(v) PROVE TextOf(v) \in Seq(Letters)
<1>1. v.events \in Seq(EventType)
  BY DEF ViewSound, ViewType
<1>2. Start(0) \in EventType
  BY DEF Start, EventType
<1> QED BY <1>1, <1>2, AppendReads, ReadsAre

LEMMA WithTextReads ==
  ASSUME NEW v, ViewSound(v), NEW t \in Seq(Letters)
  PROVE  TextOf(WithText(v, t)) = TextOf(v) \o t
<1>1. CASE t = <<>>
  BY <1>1, TextOfType, ConcatEmptySeq DEF WithText
<1>2. CASE t # <<>>
  BY <1>2, TextDeltaReads DEF WithText
<1> QED BY <1>1, <1>2

\* What a reader finds in what it has read.
HasPart(read, final) ==
  \E i \in 0..(Len(read) - Len(final)) : SubSeq(read, i + 1, i + Len(final)) = final

LEMMA ConcatContains ==
  ASSUME NEW s \in Seq(Letters), NEW t \in Seq(Letters)
  PROVE  IsPrefix(s, s \o t) /\ HasPart(s \o t, t)
<1> DEFINE u == s \o t
           m == Len(s)
           n == Len(t)
<1>1. /\ u \in Seq(Letters) /\ Len(u) = m + n /\ m \in Nat /\ n \in Nat
      /\ \A i \in 1..(m + n) : u[i] = IF i <= m THEN s[i] ELSE t[i - m]
  BY ConcatProperties
<1> HIDE DEF u, m, n
<1>2. SubSeq(u, 1, m) = SubSeq(s, 1, m)
  <2>1. /\ SubSeq(u, 1, m) \in Seq(Letters) /\ Len(SubSeq(u, 1, m)) = m
        /\ \A i \in 1..m : SubSeq(u, 1, m)[i] = u[i]
    BY <1>1, SubText
  <2>2. SubSeq(s, 1, m) = s /\ Len(s) = m
    BY SubSeqFull DEF m
  <2>3. \A i \in 1..m : u[i] = s[i]
    BY <1>1
  <2>4. SubSeq(u, 1, m) = s
    BY <2>1, <2>2, <2>3, SeqEqual
  <2> QED BY <2>2, <2>4
<1>3. SubSeq(u, m + 1, m + n) = t
  <2> DEFINE w == SubSeq(u, m + 1, m + n)
  <2>1. w \in Seq(Letters) /\ Len(w) = n /\ \A i \in 1..n : w[i] = u[m + i]
    <3>1. m + 1 \in Nat \ {0} /\ m + n \in Nat /\ m + n <= Len(u) /\ (m + n) - (m + 1) + 1 = n
      BY <1>1
    <3>2. w \in Seq(Letters) /\ Len(w) = (IF m + 1 <= m + n THEN (m + n) - (m + 1) + 1 ELSE 0)
          /\ \A i \in 1..((m + n) - (m + 1) + 1) : w[i] = u[(m + 1) + i - 1]
      BY <1>1, <3>1, SubText
    <3>3. \A i \in 1..n : (m + 1) + i - 1 = m + i
      BY <1>1
    <3> HIDE DEF w
    <3> QED BY <1>1, <3>1, <3>2, <3>3
  <2> HIDE DEF w
  <2>2. \A i \in 1..n : u[m + i] = t[i]
    <3> SUFFICES ASSUME NEW i \in 1..n PROVE u[m + i] = t[i]
      OBVIOUS
    <3>1. m + i \in 1..(m + n) /\ ~(m + i <= m) /\ (m + i) - m = i
      BY <1>1
    <3> QED BY <1>1, <3>1
  <2>3. Len(t) = n
    BY DEF n
  <2>4. w = t
    BY <2>1, <2>2, <2>3, SeqEqual
  <2> QED BY <2>4 DEF w
<1>4. IsPrefix(s, u)
  BY <1>1, <1>2 DEF IsPrefix, m
<1>5. HasPart(u, t)
  <2>1. m \in 0..(Len(u) - n)
    BY <1>1
  <2> QED BY <1>3, <2>1 DEF HasPart, n
<1> QED BY <1>4, <1>5 DEF u

LEMMA PrefixContained ==
  ASSUME NEW s \in Seq(Letters), NEW t \in Seq(Letters), IsPrefix(t, s)
  PROVE  HasPart(s, t)
<1>1. Len(t) <= Len(s) /\ SubSeq(s, 1, Len(t)) = t
  BY SubSeqFull DEF IsPrefix
<1>2. 0 \in 0..(Len(s) - Len(t)) /\ 0 + 1 = 1 /\ 0 + Len(t) = Len(t)
  BY <1>1
<1>3. SubSeq(s, 0 + 1, 0 + Len(t)) = t
  BY <1>1, <1>2
<1> QED BY <1>2, <1>3 DEF HasPart

LEMMA PrefixReflexive == ASSUME NEW s \in Seq(Letters) PROVE IsPrefix(s, s)
BY DEF IsPrefix

LEMMA PrefixRest ==
  ASSUME NEW s \in Seq(Letters), NEW t \in Seq(Letters), IsPrefix(s, t)
  PROVE  s \o Rest(t, Len(s)) = t
<1>1. Len(s) \in Nat /\ Len(s) <= Len(t) /\ SubSeq(t, 1, Len(s)) = s
  BY SubSeqFull DEF IsPrefix
<1>2. SubSeq(t, 1, Len(s)) \o SubSeq(t, Len(s) + 1, Len(t)) = SubSeq(t, 1, Len(t))
  <2>1. 1 \in Nat \ {0} /\ 1 <= Len(s) + 1 /\ Len(t) \in Nat /\ Len(t) <= Len(t)
    BY <1>1
  <2> QED BY <1>1, <2>1, PartsJoin
<1>3. SubSeq(t, 1, Len(t)) = t
  BY SubSeqFull
<1> QED BY <1>1, <1>2, <1>3 DEF Rest

\* Reading on keeps what was read, and finds the whole answer.
Delivers(s, read, final) == IsPrefix(s, read) /\ HasPart(read, final)

LEMMA RenderTextReads ==
  ASSUME NEW v, ViewSound(v), NEW s \in Seq(Letters), NEW t \in Seq(Letters), NEW thinking \in BOOLEAN,
         TextOf(v) = s
  PROVE  Delivers(s, TextOf(RenderText(v, s, t, thinking)), t)
<1> DEFINE thought == IF thinking THEN WholeBlocks(v, 1) ELSE v
           texts == IF IsPrefix(s, t) THEN WithText(thought, Rest(t, Len(s)))
                    ELSE IF IsPrefix(t, s) THEN thought
                    ELSE WithText(CloseOpenBlocks(thought), t)
<1>1. ViewSound(thought) /\ TextOf(thought) = s
  BY WholeBlocksSound, WholeBlocksReads
<1> HIDE DEF thought
<1>2. ViewSound(CloseOpenBlocks(thought)) /\ TextOf(CloseOpenBlocks(thought)) = s
  BY <1>1, CloseOpenBlocksSound, CloseReads
<1>3. ViewSound(texts) /\ Delivers(s, TextOf(texts), t)
  <2>1. CASE IsPrefix(s, t)
    <3>1. Rest(t, Len(s)) \in Seq(Letters)
      BY RestType
    <3>2. texts = WithText(thought, Rest(t, Len(s)))
      BY <2>1
    <3> HIDE DEF texts
    <3>3. ViewSound(texts) /\ TextOf(texts) = s \o Rest(t, Len(s))
      BY <1>1, <3>1, <3>2, WithTextSound, WithTextReads
    <3>5. s \o Rest(t, Len(s)) = t
      BY <2>1, PrefixRest
    <3>4. HasPart(t, t)
      BY PrefixReflexive, PrefixContained
    <3> QED BY <2>1, <3>3, <3>4, <3>5 DEF Delivers
  <2>2. CASE ~IsPrefix(s, t) /\ IsPrefix(t, s)
    <3>1. texts = thought
      BY <2>2
    <3> HIDE DEF texts
    <3> QED BY <1>1, <2>2, <3>1, PrefixReflexive, PrefixContained DEF Delivers
  <2>3. CASE ~IsPrefix(s, t) /\ ~IsPrefix(t, s)
    <3>1. texts = WithText(CloseOpenBlocks(thought), t)
      BY <2>3
    <3> HIDE DEF texts
    <3>2. ViewSound(texts) /\ TextOf(texts) = s \o t
      BY <1>2, <3>1, WithTextSound, WithTextReads
    <3> QED BY <3>2, ConcatContains DEF Delivers
  <2> QED BY <2>1, <2>2, <2>3
<1> HIDE DEF texts
<1>4. TextOf(CloseOpenBlocks(texts)) = TextOf(texts)
  BY <1>3, CloseReads
<1> QED BY <1>3, <1>4 DEF RenderText, texts, thought

LEMMA RenderToolsReads ==
  ASSUME NEW v, ViewSound(v), NEW s \in Seq(Letters), NEW t \in Seq(Letters), NEW calls \in Nat,
         NEW thinking \in BOOLEAN, TextOf(v) = s
  PROVE  Delivers(s, TextOf(RenderTools(v, s, t, calls, thinking)), t)
<1> DEFINE remainder == IF IsPrefix(s, t) THEN Rest(t, Len(s)) ELSE t
           written == WithText(CloseOpenBlocks(v), remainder)
           texts == CloseOpenBlocks(written)
           blocks == calls + IF thinking THEN 1 ELSE 0
<1>1. remainder \in Seq(Letters) /\ blocks \in Nat
  BY RestType
<1>2. Delivers(s, s \o remainder, t)
  <2>1. CASE IsPrefix(s, t)
    <3>1. s \o remainder = t
      BY <2>1, PrefixRest
    <3>2. HasPart(t, t)
      BY PrefixReflexive, PrefixContained
    <3> HIDE DEF remainder
    <3> QED BY <2>1, <3>1, <3>2 DEF Delivers
  <2>2. CASE ~IsPrefix(s, t)
    BY <2>2, ConcatContains DEF Delivers
  <2> QED BY <2>1, <2>2
<1> HIDE DEF remainder, blocks
<1>3. ViewSound(CloseOpenBlocks(v)) /\ TextOf(CloseOpenBlocks(v)) = s
  BY CloseOpenBlocksSound, CloseReads
<1>4. ViewSound(written) /\ TextOf(written) = s \o remainder
  BY <1>1, <1>3, WithTextSound, WithTextReads
<1> HIDE DEF written
<1>5. ViewSound(texts) /\ TextOf(texts) = s \o remainder
  BY <1>4, CloseOpenBlocksSound, CloseReads
<1> HIDE DEF texts
<1>6. TextOf(WholeBlocks(texts, blocks)) = s \o remainder
  BY <1>1, <1>5, WholeBlocksReads
<1> QED BY <1>2, <1>6 DEF RenderTools, texts, written, remainder, blocks

LEMMA RenderErrorReads ==
  ASSUME NEW v, ViewSound(v), NEW d, TextOf(v) \in Seq(Letters)
  PROVE  IsPrefix(TextOf(v), TextOf(RenderError(v, d)))
<1> DEFINE c == CloseOpenBlocks(v)
           s == TextOf(v)
<1>1. <<"q">> \in Seq(Letters)
  <2>1. "q" \in Letters
    BY DEF Letters
  <2> QED BY <2>1
<1>2. ViewSound(c) /\ TextOf(c) = s
  BY CloseOpenBlocksSound, CloseReads
<1> HIDE DEF c, s
<1>3. ViewSound(TextDelta(c, <<"q">>)) /\ TextOf(TextDelta(c, <<"q">>)) = s \o <<"q">>
  BY <1>1, <1>2, TextDeltaSound, TextDeltaReads
<1>4. TextOf(CloseOpenBlocks(TextDelta(c, <<"q">>))) = s \o <<"q">>
  BY <1>3, CloseReads
<1>5. s \in Seq(Letters)
  BY DEF s
<1> QED BY <1>1, <1>2, <1>4, <1>5, PrefixReflexive, ConcatContains DEF RenderError, c, s

\* Without stop sequences nothing is cut.
LEMMA NoStops == ASSUME NEW t \in Seq(Letters) PROVE ApplyStopSequences(t, {}) = t
<1>1. {i \in DOMAIN t : t[i] \in {}} = {}
  OBVIOUS
<1>2. First({}) = 0
  BY DEF First
<1> QED BY <1>1, <1>2 DEF ApplyStopSequences

-----------------------------------------------------------------------------
(* Loops.  A recursive function is chosen among those that satisfy its      *)
(* equations: Iterates shows that there is one, and RunStays that any of    *)
(* them stays among the values that the body of the loop keeps.             *)

\* What a loop over the numbers from 1 to n computes, where G is its body, a
\* function of the number and the value so far.
RunOf(f, n, base, G) == f[0] = base /\ \A i \in 1..n : f[i] = G[<<i, f[i - 1]>>]

LEMMA Iterates ==
  ASSUME NEW S, NEW n \in Nat, NEW base \in S, NEW G,
         \A i \in 1..n, x \in S : G[<<i, x>>] \in S
  PROVE  \E f \in [0..n -> S] : RunOf(f, n, base, G)
<1> DEFINE Runs(f, k) == f[0] = base /\ \A i \in 1..k : f[i] = G[<<i, f[i - 1]>>]
           T == {k \in Nat : k <= n => \E f \in [0..k -> S] : Runs(f, k)}
<1>1. 0 \in T
  <2> DEFINE f == [i \in 0..0 |-> base]
  <2>1. f \in [0..0 -> S] /\ Runs(f, 0)
    OBVIOUS
  <2> QED BY <2>1
<1>2. ASSUME NEW k \in Nat, k \in T PROVE k + 1 \in T
  <2> SUFFICES ASSUME k + 1 <= n PROVE \E f \in [0..(k + 1) -> S] : Runs(f, k + 1)
    OBVIOUS
  <2>1. PICK f \in [0..k -> S] : Runs(f, k)
    BY <1>2
  <2> DEFINE last == G[<<k + 1, f[k]>>]
             g == [i \in 0..(k + 1) |-> IF i = k + 1 THEN last ELSE f[i]]
  <2>2. last \in S
    <3>1. f[k] \in S /\ k + 1 \in 1..n
      BY <2>1
    <3> QED BY <3>1
  <2> HIDE DEF last
  <2>3. g \in [0..(k + 1) -> S]
    BY <2>1, <2>2
  <2>4. g[0] = base
    BY <2>1
  <2>5. ASSUME NEW i \in 1..(k + 1) PROVE g[i] = G[<<i, g[i - 1]>>]
    <3>1. CASE i = k + 1
      <4>1. g[i] = last /\ g[i - 1] = f[k]
        BY <3>1
      <4> QED BY <3>1, <4>1 DEF last
    <3>2. CASE i # k + 1
      <4>1. i \in 1..k /\ g[i] = f[i] /\ g[i - 1] = f[i - 1]
        BY <3>2
      <4>2. f[i] = G[<<i, f[i - 1]>>]
        BY <2>1, <4>1
      <4> HIDE DEF g
      <4> QED BY <4>1, <4>2
    <3> QED BY <3>1, <3>2
  <2> HIDE DEF g
  <2>6. Runs(g, k + 1)
    BY <2>4, <2>5
  <2> HIDE DEF Runs
  <2> QED BY <2>3, <2>6
<1>3. \A k \in Nat : k \in T
  <2> HIDE DEF T
  <2> QED BY <1>1, <1>2, Induction
<1>4. n \in T
  BY <1>3
<1> QED BY <1>4 DEF RunOf

\* What satisfies the equations of a loop stays where its body stays.
LEMMA RunStays ==
  ASSUME NEW S, NEW n \in Nat, NEW F, F = [i \in 0..n |-> F[i]], F[0] \in S,
         \A i \in 1..n : F[i - 1] \in S => F[i] \in S
  PROVE  F \in [0..n -> S]
<1> DEFINE T == {k \in Nat : k <= n => F[k] \in S}
<1>1. 0 \in T
  OBVIOUS
<1>2. ASSUME NEW k \in Nat, k \in T PROVE k + 1 \in T
  <2> SUFFICES ASSUME k + 1 <= n PROVE F[k + 1] \in S
    OBVIOUS
  <2>1. k + 1 \in 1..n /\ F[k] \in S /\ (k + 1) - 1 = k
    BY <1>2
  <2> QED BY <2>1
<1>3. \A k \in Nat : k \in T
  <2> HIDE DEF T
  <2> QED BY <1>1, <1>2, Induction
<1>4. \A i \in 0..n : F[i] \in S
  BY <1>3
<1> QED BY <1>4

\* The values that Only goes through.
OnlyRun(f, s, S) ==
  f[0] = <<>> /\ \A i \in 1..Len(s) : f[i] = IF s[i] \in S THEN Append(f[i - 1], s[i]) ELSE f[i - 1]

LEMMA OnlyRuns ==
  ASSUME NEW E, NEW s \in Seq(E), NEW S
  PROVE  \E f \in [0..Len(s) -> Seq(E)] :
           Only(s, S) = f[Len(s)] /\ OnlyRun(f, s, S)
<1> DEFINE Step(i, x) == IF s[i] \in S THEN Append(x, s[i]) ELSE x
           Runs(f) == f = [i \in 0..Len(s) |-> IF i = 0 THEN <<>> ELSE IF s[i] \in S THEN Append(f[i - 1], s[i]) ELSE f[i - 1]]
           F == CHOOSE f : Runs(f)
<1>0. Len(s) \in Nat /\ <<>> \in Seq(E)
  OBVIOUS
<1>1. Only(s, S) = F[Len(s)]
  BY DEF Only
<1>2. \A i \in 1..Len(s), x \in Seq(E) : Step(i, x) \in Seq(E)
  <2>1. \A i \in 1..Len(s) : s[i] \in E
    BY ElementOfSeq
  <2> QED BY <2>1, AppendProperties
<1>3. PICK f \in [0..Len(s) -> Seq(E)] : f[0] = <<>> /\ \A i \in 1..Len(s) : f[i] = Step(i, f[i - 1])
  <2> DEFINE G == [p \in (1..Len(s)) \X Seq(E) |-> Step(p[1], p[2])]
  <2> HIDE DEF Step
  <2>1. \A i \in 1..Len(s), x \in Seq(E) : G[<<i, x>>] = Step(i, x)
    OBVIOUS
  <2> HIDE DEF G
  <2>2. \A i \in 1..Len(s), x \in Seq(E) : G[<<i, x>>] \in Seq(E)
    BY <1>2, <2>1
  <2>3. PICK f \in [0..Len(s) -> Seq(E)] : RunOf(f, Len(s), <<>>, G)
    BY <1>0, <2>2, Iterates
  <2>4. \A i \in 1..Len(s) : i - 1 \in 0..Len(s)
    BY <1>0
  <2>5. f[0] = <<>> /\ \A i \in 1..Len(s) : f[i] = G[<<i, f[i - 1]>>]
    BY <2>3 DEF RunOf
  <2>6. \A i \in 1..Len(s) : f[i - 1] \in Seq(E)
    BY <2>3, <2>4, Zenon
  <2>7. \A i \in 1..Len(s) : f[i] = Step(i, f[i - 1])
    <3> TAKE i \in 1..Len(s)
    <3>1. G[<<i, f[i - 1]>>] = Step(i, f[i - 1])
      BY <2>1, <2>6, Zenon
    <3> QED BY <2>5, <3>1, Zenon
  <2> QED BY <2>3, <2>5, <2>7, Zenon
<1>4. Runs(f)
  <2>1. \A i \in 0..Len(s) : f[i] = IF i = 0 THEN <<>> ELSE IF s[i] \in S THEN Append(f[i - 1], s[i]) ELSE f[i - 1]
    <3> HIDE DEF F
    <3> TAKE i \in 0..Len(s)
    <3>1. CASE i = 0
      BY <3>1, <1>3
    <3>2. CASE i # 0
      <4>1. i \in 1..Len(s)
        BY <1>0, <3>2
      <4> QED BY <4>1, <3>2, <1>3, Zenon
    <3> QED BY <3>1, <3>2
  <2> QED BY <2>1, <1>3, Zenon
<1>5. Runs(F)
  <2> HIDE DEF Runs
  <2> QED BY <1>4
<1>6. F[0] = <<>> /\ F = [i \in 0..Len(s) |-> F[i]] /\ \A i \in 1..Len(s) : F[i] = Step(i, F[i - 1])
  <2> HIDE DEF F
  <2>1. \A i \in 0..Len(s) : F[i] = IF i = 0 THEN <<>> ELSE IF s[i] \in S THEN Append(F[i - 1], s[i]) ELSE F[i - 1]
    BY <1>5, Zenon
  <2>2. F = [i \in 0..Len(s) |-> F[i]]
    BY <1>5, <2>1, Zenon
  <2>3. \A i \in 1..Len(s) : i \in 0..Len(s) /\ i # 0
    BY <1>0
  <2>4. 0 \in 0..Len(s)
    BY <1>0
  <2> QED BY <2>1, <2>2, <2>3, <2>4, Zenon
<1> HIDE DEF F, Runs
<1>7. F \in [0..Len(s) -> Seq(E)]
  <2> HIDE DEF Step
  <2>1. \A i \in 1..Len(s) : F[i - 1] \in Seq(E) => F[i] \in Seq(E)
    BY <1>2, <1>6
  <2> QED BY <1>0, <1>6, <2>1, RunStays, Zenon
<1> QED BY <1>1, <1>6, <1>7 DEF OnlyRun

\* An element is added to a sequence.
LEMMA AppendIs ==
  ASSUME NEW E, NEW t \in Seq(E), NEW e \in E
  PROVE  /\ Append(t, e) \in Seq(E) /\ Len(Append(t, e)) = Len(t) + 1
         /\ \A j \in 1..Len(t) : Append(t, e)[j] = t[j]
         /\ Append(t, e)[Len(t) + 1] = e
         /\ Range(Append(t, e)) = Range(t) \cup {e}
         /\ IsInjective(t) /\ e \notin Range(t) => IsInjective(Append(t, e))
<1> DEFINE u == Append(t, e)
<1>1. u \in Seq(E) /\ Len(u) = Len(t) + 1 /\ Len(t) \in Nat /\ u[Len(t) + 1] = e
  BY AppendProperties
<1>2. \A j \in 1..Len(t) : u[j] = t[j]
  BY AppendProperties
<1>3. DOMAIN u = 1..Len(u) /\ DOMAIN t = 1..Len(t)
  BY <1>1
<1> HIDE DEF u
<1>4. \A j \in 1..Len(u) : j \in 1..Len(t) \/ j = Len(t) + 1
  BY <1>1
<1>5. \A j \in 1..Len(t) : j \in 1..Len(u) /\ Len(t) + 1 \in 1..Len(u)
  BY <1>1
<1>6. Range(u) = Range(t) \cup {e}
  <2>1. ASSUME NEW x \in Range(u) PROVE x \in Range(t) \cup {e}
    BY <1>1, <1>2, <1>3, <1>4 DEF Range
  <2>2. ASSUME NEW x \in Range(t) \cup {e} PROVE x \in Range(u)
    <3>1. CASE x = e
      <4>1. Len(t) + 1 \in DOMAIN u
        BY <1>1, <1>3
      <4> QED BY <3>1, <4>1, <1>1 DEF Range
    <3>2. CASE x \in Range(t)
      <4>1. PICK j \in 1..Len(t) : t[j] = x
        BY <3>2, <1>3 DEF Range
      <4>2. j \in DOMAIN u /\ u[j] = x
        BY <4>1, <1>2, <1>3, <1>5
      <4> QED BY <4>2 DEF Range
    <3> QED BY <2>2, <3>1, <3>2
  <2> QED BY <2>1, <2>2
<1>7. ASSUME IsInjective(t), e \notin Range(t) PROVE IsInjective(u)
  <2> SUFFICES ASSUME NEW a \in 1..Len(u), NEW b \in 1..Len(u), u[a] = u[b] PROVE a = b
    BY <1>3 DEF IsInjective
  <2>1. \A j \in 1..Len(t) : u[j] # e
    BY <1>2, <1>3, <1>7 DEF Range
  <2>2. CASE a \in 1..Len(t) /\ b \in 1..Len(t)
    BY <2>2, <1>2, <1>3, <1>7 DEF IsInjective
  <2> QED BY <2>1, <2>2, <1>1, <1>4
<1> QED BY <1>1, <1>2, <1>6, <1>7 DEF u

\* i is where the first element of s that is in S stands.
IsFirst(s, S, i) == i \in 1..Len(s) /\ s[i] \in S /\ \A j \in 1..(i - 1) : s[j] \notin S

\* What Only keeps of a sequence.
LEMMA OnlySound ==
  ASSUME NEW E, NEW s \in Seq(E), NEW S
  PROVE  /\ Only(s, S) \in Seq(E) /\ Len(Only(s, S)) <= Len(s)
         /\ Range(Only(s, S)) = Range(s) \cap S
         /\ IsInjective(s) => IsInjective(Only(s, S))
         /\ \A i \in 1..Len(s) : IsFirst(s, S, i) => Only(s, S) # <<>> /\ Only(s, S)[1] = s[i]
<1>1. PICK f \in [0..Len(s) -> Seq(E)] :
        Only(s, S) = f[Len(s)] /\ OnlyRun(f, s, S)
  BY OnlyRuns
<1> DEFINE n == Len(s)
           Inv(k) == /\ f[k] \in Seq(E) /\ Len(f[k]) <= k
                     /\ \A x : x \in Range(f[k]) <=> x \in S /\ \E j \in 1..k : x = s[j]
                     /\ IsInjective(s) => IsInjective(f[k])
                     /\ \A i \in 1..k : IsFirst(s, S, i) => Len(f[k]) > 0 /\ f[k][1] = s[i]
                     /\ (\A j \in 1..k : s[j] \notin S) => f[k] = <<>>
           T == {k \in Nat : k <= n => Inv(k)}
<1>2. n \in Nat /\ DOMAIN s = 1..n /\ \A i \in 1..n : s[i] \in E
  BY ElementOfSeq
<1>3. 0 \in T
  BY <1>1 DEF Range, IsInjective, OnlyRun
<1>4. ASSUME NEW k \in Nat, k \in T PROVE k + 1 \in T
  <2> SUFFICES ASSUME k + 1 <= n PROVE Inv(k + 1)
    OBVIOUS
  <2> DEFINE t == f[k]
             e == s[k + 1]
  <2>1. k + 1 \in 1..n /\ Inv(k) /\ (k + 1) - 1 = k /\ e \in E
    BY <1>2, <1>4
  <2>2. f[k + 1] = IF e \in S THEN Append(t, e) ELSE t
    BY <1>1, <2>1 DEF OnlyRun
  <2>3. \A j \in 1..(k + 1) : j \in 1..k \/ j = k + 1
    OBVIOUS
  <2>4. \A j \in 1..k : j \in 1..(k + 1) /\ j \in 1..n
    BY <2>1, <1>2
  <2>5. k + 1 \in 1..(k + 1)
    OBVIOUS
  <2>6. /\ t \in Seq(E) /\ Len(t) <= k /\ Len(t) \in Nat
        /\ \A x : x \in Range(t) <=> x \in S /\ \E j \in 1..k : x = s[j]
        /\ IsInjective(s) => IsInjective(t)
        /\ \A i \in 1..k : IsFirst(s, S, i) => Len(t) > 0 /\ t[1] = s[i]
        /\ (\A j \in 1..k : s[j] \notin S) => t = <<>>
    BY <2>1
  <2>7. IsFirst(s, S, k + 1) => \A j \in 1..k : s[j] \notin S
    BY <2>1 DEF IsFirst
  <2>8. IsFirst(s, S, k + 1) => e \in S
    BY DEF IsFirst
  <2> HIDE DEF t, Inv, n
  <2>9. CASE e \notin S
    <3>1. f[k + 1] = t
      BY <2>2, <2>9
    <3>2. \A x : x \in S /\ (\E j \in 1..k : x = s[j]) <=> x \in S /\ \E j \in 1..(k + 1) : x = s[j]
      BY <2>3, <2>4, <2>9
    <3>3. \A i \in 1..(k + 1) : IsFirst(s, S, i) => Len(t) > 0 /\ t[1] = s[i]
      BY <2>3, <2>6, <2>8, <2>9
    <3> HIDE DEF e
    <3> QED BY <2>3, <2>4, <2>6, <3>1, <3>2, <3>3 DEF Inv
  <2>10. CASE e \in S
    <3> DEFINE u == Append(t, e)
    <3>1. /\ u \in Seq(E) /\ Len(u) = Len(t) + 1
          /\ \A j \in 1..Len(t) : u[j] = t[j]
          /\ u[Len(t) + 1] = e
          /\ Range(u) = Range(t) \cup {e}
          /\ IsInjective(t) /\ e \notin Range(t) => IsInjective(u)
      BY <2>1, <2>6, AppendIs
    <3> HIDE DEF u
    <3>2. \A x : x \in Range(u) <=> x \in S /\ \E j \in 1..(k + 1) : x = s[j]
      BY <2>3, <2>4, <2>5, <2>6, <2>10, <3>1
    <3>3. ASSUME IsInjective(s) PROVE IsInjective(u)
      <4>1. \A j \in 1..k : s[j] # e
        <5> SUFFICES ASSUME NEW j \in 1..k, s[j] = s[k + 1] PROVE FALSE
          OBVIOUS
        <5>1. j = k + 1
          BY <1>2, <2>1, <2>4, <3>3 DEF IsInjective, n
        <5> QED BY <5>1
      <4>2. e \notin Range(t)
        BY <2>6, <4>1
      <4> QED BY <2>6, <3>1, <3>3, <4>2
    <3>4. \A i \in 1..(k + 1) : IsFirst(s, S, i) => Len(u) > 0 /\ u[1] = s[i]
      <4> TAKE i \in 1..(k + 1)
      <4>1. CASE i \in 1..k
        BY <4>1, <2>6, <3>1
      <4>2. CASE i = k + 1
        <5>1. IsFirst(s, S, k + 1) => t = <<>> /\ Len(t) = 0
          BY <2>6, <2>7
        <5> QED BY <4>2, <5>1, <3>1
      <4> QED BY <2>3, <4>1, <4>2
    <3>5. ~\A j \in 1..(k + 1) : s[j] \notin S
      BY <2>5, <2>10
    <3>6. f[k + 1] = u /\ Len(u) <= k + 1
      BY <2>2, <2>6, <2>10, <3>1 DEF u
    <3> HIDE DEF e
    <3> QED BY <3>1, <3>2, <3>3, <3>4, <3>5, <3>6 DEF Inv
  <2> QED BY <2>9, <2>10
<1>5. Inv(n)
  <2>1. \A k \in Nat : k \in T
    <3> HIDE DEF T
    <3> QED BY <1>3, <1>4, Induction
  <2>2. n \in T
    BY <1>2, <2>1
  <2> HIDE DEF Inv
  <2> QED BY <1>2, <2>2
<1>6. Range(f[n]) = Range(s) \cap S
  <2>1. \A x : x \in Range(f[n]) <=> x \in S /\ \E j \in 1..n : x = s[j]
    BY <1>5
  <2>2. \A x : x \in Range(s) <=> \E j \in 1..n : x = s[j]
    BY <1>2 DEF Range
  <2> HIDE DEF n, Inv
  <2> QED BY <2>1, <2>2
<1> QED BY <1>1, <1>5, <1>6

\* Two sequences in a row.
LEMMA ConcatIs ==
  ASSUME NEW E, NEW s \in Seq(E), NEW t \in Seq(E)
  PROVE  /\ s \o t \in Seq(E) /\ Len(s \o t) = Len(s) + Len(t)
         /\ \A i \in 1..Len(s) : (s \o t)[i] = s[i]
         /\ \A i \in 1..Len(t) : (s \o t)[Len(s) + i] = t[i]
         /\ Range(s \o t) = Range(s) \cup Range(t)
         /\ IsInjective(s) /\ IsInjective(t) /\ Range(s) \cap Range(t) = {} => IsInjective(s \o t)
<1> DEFINE u == s \o t
<1>1. u \in Seq(E) /\ Len(u) = Len(s) + Len(t) /\ Len(s) \in Nat /\ Len(t) \in Nat
  BY ConcatProperties
<1>2. (\A i \in 1..Len(s) : u[i] = s[i]) /\ (\A i \in 1..Len(t) : u[Len(s) + i] = t[i])
  OBVIOUS
<1>3. DOMAIN u = 1..Len(u) /\ DOMAIN s = 1..Len(s) /\ DOMAIN t = 1..Len(t)
  BY <1>1
<1>4. \A i \in 1..Len(u) : i \in 1..Len(s) \/ \E j \in 1..Len(t) : i = Len(s) + j
  <2> TAKE i \in 1..Len(u)
  <2>1. i \in 1..Len(s) \/ (i - Len(s) \in 1..Len(t) /\ i = Len(s) + (i - Len(s)))
    BY <1>1
  <2> QED BY <2>1
<1>5. (\A i \in 1..Len(s) : i \in 1..Len(u)) /\ (\A i \in 1..Len(t) : Len(s) + i \in 1..Len(u))
  BY <1>1
<1> HIDE DEF u
<1>6. Range(u) = Range(s) \cup Range(t)
  <2>1. ASSUME NEW i \in 1..Len(u) PROVE u[i] \in Range(s) \cup Range(t)
    BY <1>2, <1>3, <1>4 DEF Range
  <2>2. ASSUME NEW i \in 1..Len(s) PROVE s[i] \in Range(u)
    BY <1>2, <1>3, <1>5 DEF Range
  <2>3. ASSUME NEW i \in 1..Len(t) PROVE t[i] \in Range(u)
    <3>1. Len(s) + i \in DOMAIN u /\ u[Len(s) + i] = t[i]
      BY <1>2, <1>3, <1>5
    <3> QED BY <3>1 DEF Range
  <2>4. \A x \in Range(u) : x \in Range(s) \cup Range(t)
    <3> TAKE x \in Range(u)
    <3>1. PICK i \in 1..Len(u) : x = u[i]
      BY <1>3 DEF Range
    <3> QED BY <2>1, <3>1
  <2>5. \A x \in Range(s) \cup Range(t) : x \in Range(u)
    <3> TAKE x \in Range(s) \cup Range(t)
    <3>1. (\E i \in 1..Len(s) : x = s[i]) \/ (\E i \in 1..Len(t) : x = t[i])
      BY <1>3 DEF Range
    <3> QED BY <2>2, <2>3, <3>1
  <2> QED BY <2>4, <2>5
<1>7. ASSUME IsInjective(s), IsInjective(t), Range(s) \cap Range(t) = {} PROVE IsInjective(u)
  <2> SUFFICES ASSUME NEW a \in 1..Len(u), NEW b \in 1..Len(u), u[a] = u[b] PROVE a = b
    BY <1>3 DEF IsInjective
  <2>1. (\A i \in 1..Len(s) : s[i] \in Range(s)) /\ (\A i \in 1..Len(t) : t[i] \in Range(t))
    BY <1>3 DEF Range
  <2>2. CASE a \in 1..Len(s) /\ b \in 1..Len(s)
    BY <2>2, <1>2, <1>3, <1>7 DEF IsInjective
  <2>3. ASSUME NEW c \in 1..Len(s), NEW d \in 1..Len(t) PROVE u[c] # u[Len(s) + d]
    <3>1. u[c] \in Range(s) /\ u[Len(s) + d] \in Range(t)
      BY <1>2, <2>1
    <3> QED BY <1>7, <3>1
  <2>4. ASSUME NEW c \in 1..Len(t), NEW d \in 1..Len(t), u[Len(s) + c] = u[Len(s) + d] PROVE c = d
    <3>1. t[c] = t[d]
      BY <2>4, <1>2
    <3>2. c \in DOMAIN t /\ d \in DOMAIN t
      BY <1>3
    <3> QED BY <1>7, <3>1, <3>2 DEF IsInjective
  <2> QED BY <1>4, <2>2, <2>3, <2>4
<1> QED BY <1>1, <1>2, <1>6, <1>7 DEF u

\* A part of a sequence.
LEMMA PartIs ==
  ASSUME NEW E, NEW s \in Seq(E), NEW a \in Nat \ {0}, NEW b \in Nat, b <= Len(s)
  PROVE  /\ SubSeq(s, a, b) \in Seq(E)
         /\ Len(SubSeq(s, a, b)) = IF a <= b THEN b - a + 1 ELSE 0
         /\ \A i \in 1..Len(SubSeq(s, a, b)) : a + i - 1 \in 1..Len(s) /\ SubSeq(s, a, b)[i] = s[a + i - 1]
         /\ \A x : x \in Range(SubSeq(s, a, b)) <=> \E i \in a..b : x = s[i]
         /\ IsInjective(s) => IsInjective(SubSeq(s, a, b))
<1> DEFINE u == SubSeq(s, a, b)
<1>1. u \in Seq(E) /\ Len(u) = (IF a <= b THEN b - a + 1 ELSE 0) /\ Len(s) \in Nat
  OBVIOUS
<1>2. \A i \in 1..Len(u) : u[i] = s[a + i - 1]
  BY <1>1
<1>3. DOMAIN u = 1..Len(u) /\ DOMAIN s = 1..Len(s)
  BY <1>1
<1> HIDE DEF u
<1>4. \A i \in 1..Len(u) : a + i - 1 \in 1..Len(s) /\ a + i - 1 \in a..b
  BY <1>1
<1>5. \A i \in a..b : i - a + 1 \in 1..Len(u) /\ a + (i - a + 1) - 1 = i
  BY <1>1
<1>6. \A x : x \in Range(u) <=> \E i \in a..b : x = s[i]
  <2>1. ASSUME NEW x \in Range(u) PROVE \E i \in a..b : x = s[i]
    <3>1. PICK i \in 1..Len(u) : x = u[i]
      BY <1>3 DEF Range
    <3> QED BY <1>2, <1>4, <3>1
  <2>2. ASSUME NEW i \in a..b PROVE s[i] \in Range(u)
    <3>1. i - a + 1 \in 1..Len(u) /\ u[i - a + 1] = s[i]
      BY <1>2, <1>5
    <3> QED BY <1>3, <3>1 DEF Range
  <2> QED BY <2>1, <2>2
<1>7. ASSUME IsInjective(s) PROVE IsInjective(u)
  <2> SUFFICES ASSUME NEW c \in 1..Len(u), NEW d \in 1..Len(u), u[c] = u[d] PROVE c = d
    BY <1>3 DEF IsInjective
  <2>1. s[a + c - 1] = s[a + d - 1] /\ a + c - 1 \in DOMAIN s /\ a + d - 1 \in DOMAIN s
    BY <1>2, <1>3, <1>4
  <2>2. a + c - 1 = a + d - 1
    BY <1>7, <2>1 DEF IsInjective
  <2> QED BY <2>2, <1>1
<1> QED BY <1>1, <1>2, <1>4, <1>6, <1>7 DEF u

\* An injective sequence over a finite set is no longer than the set, and its
\* elements are as many as it is long.
LEMMA InjectiveLength ==
  ASSUME NEW E, NEW s \in Seq(E), IsInjective(s), NEW S, IsFiniteSet(S), Range(s) \subseteq S
  PROVE  Len(s) <= Cardinality(S)
<1>1. s \in Injection(1..Len(s), S)
  <2>1. DOMAIN s = 1..Len(s) /\ s \in [1..Len(s) -> E]
    OBVIOUS
  <2>2. \A i \in 1..Len(s) : s[i] \in S
    BY <2>1 DEF Range
  <2>3. s \in [1..Len(s) -> S]
    BY <2>1, <2>2
  <2> QED BY <2>1, <2>3 DEF Injection, IsInjective
<1>2. Cardinality(1..Len(s)) <= Cardinality(S)
  BY <1>1, FS_Injection
<1>3. Cardinality(1..Len(s)) = Len(s)
  <2> DEFINE n == Len(s)
  <2>1. n \in Nat /\ n \in Int /\ 1 \in Int
    OBVIOUS
  <2> HIDE DEF n
  <2>2. Cardinality(1..n) = IF 1 > n THEN 0 ELSE n - 1 + 1
    BY <2>1, FS_Interval
  <2>3. Cardinality(1..n) = n
    BY <2>1, <2>2
  <2> QED BY <2>3 DEF n
<1> QED BY <1>2, <1>3

\* A sequence has finitely many elements.
LEMMA FiniteRange ==
  ASSUME NEW E, NEW s \in Seq(E)
  PROVE  IsFiniteSet(Range(s))
<1>1. s \in [1..Len(s) -> E] /\ Len(s) \in Nat /\ DOMAIN s = 1..Len(s)
  OBVIOUS
<1>2. s \in Surjection(1..Len(s), Range(s))
  <2>1. s \in [1..Len(s) -> Range(s)]
    BY <1>1 DEF Range
  <2>2. \A x \in Range(s) : \E i \in 1..Len(s) : s[i] = x
    BY <1>1 DEF Range
  <2> QED BY <2>1, <2>2 DEF Surjection
<1>3. IsFiniteSet(1..Len(s))
  BY <1>1, FS_Interval
<1> QED BY <1>2, <1>3, FS_Surjection

\* The first n elements of a sequence are at most n.
LEMMA FirstElements ==
  ASSUME NEW E, NEW s \in Seq(E), NEW n \in Int
  PROVE  LET S == {s[i] : i \in {j \in DOMAIN s : j <= n}} IN
         IsFiniteSet(S) /\ (n >= 0 => Cardinality(S) <= n) /\ (n <= 0 => S = {})
<1> DEFINE J == {j \in DOMAIN s : j <= n}
           S == {s[i] : i \in J}
           f == [i \in J |-> s[i]]
<1>1. DOMAIN s = 1..Len(s) /\ Len(s) \in Nat
  OBVIOUS
<1>2. CASE n <= 0
  <2>1. J = {}
    BY <1>1, <1>2
  <2>2. S = {}
    BY <2>1
  <2>3. IsFiniteSet({}) /\ Cardinality({}) = 0
    BY FS_EmptySet
  <2> HIDE DEF S
  <2>4. IsFiniteSet(S) /\ (n >= 0 => Cardinality(S) <= n)
    BY <2>2, <2>3
  <2> QED BY <2>2, <2>4 DEF S
<1>3. CASE n > 0
  <2>1. IsFiniteSet(1..n) /\ Cardinality(1..n) = n
    <3>1. Cardinality(1..n) = IF 1 > n THEN 0 ELSE n - 1 + 1
      BY FS_Interval
    <3> QED BY <1>3, <3>1, FS_Interval
  <2>2. J \subseteq 1..n
    BY <1>1, <1>3
  <2> HIDE DEF J
  <2>3. IsFiniteSet(J) /\ Cardinality(J) <= n
    BY <2>1, <2>2, FS_Subset
  <2>4. f \in Surjection(J, S)
    BY DEF Surjection
  <2> HIDE DEF S, f
  <2>5. IsFiniteSet(S) /\ Cardinality(S) <= Cardinality(J)
    BY <2>3, <2>4, FS_Surjection
  <2>6. Cardinality(S) \in Nat /\ Cardinality(J) \in Nat
    BY <2>3, <2>5, FS_CardinalityType
  <2>7. IsFiniteSet(S) /\ (n >= 0 => Cardinality(S) <= n) /\ (n <= 0 => S = {})
    BY <1>3, <2>3, <2>5, <2>6
  <2> QED BY <2>7 DEF S, J
<1> QED BY <1>2, <1>3
=============================================================================
