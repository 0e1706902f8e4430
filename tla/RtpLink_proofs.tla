--------------------------- MODULE RtpLink_proofs ---------------------------
(* Theorems about RtpLink and the TokenBucket it sends through, for every    *)
(* value of their constants.                                                 *)
EXTENDS RtpLink, FoldTheorems, SequenceTheorems

\* What waits is a finite set, no larger than the receiver's bound.
WInv == IsFiniteSet(DOMAIN rtpData) /\ WaitBound

\* With one packet more and, when that is too many, the first one less, as many
\* wait as before.
LEMMA WaitStep ==
  ASSUME NEW D, IsFiniteSet(D), NEW s, NEW key \in D \cup {s}, NEW W \in Nat,
         Cardinality(D) <= W
  PROVE  /\ IsFiniteSet(D \cup {s}) /\ IsFiniteSet((D \cup {s}) \ {key})
         /\ Cardinality(D \cup {s}) \in Nat
         /\ Cardinality((D \cup {s}) \ {key}) <= W
<1>1. Cardinality(D) \in Nat
  BY FS_CardinalityType
<1>2. /\ IsFiniteSet(D \cup {s})
      /\ Cardinality(D \cup {s}) = IF s \in D THEN Cardinality(D) ELSE Cardinality(D) + 1
  BY FS_AddElement
<1>3. /\ IsFiniteSet((D \cup {s}) \ {key})
      /\ Cardinality((D \cup {s}) \ {key}) = Cardinality(D \cup {s}) - 1
  BY <1>2, FS_RemoveElement
<1>4. QED BY <1>1, <1>2, <1>3

\* Packets that wait for one that never comes do not pile up: the receiver's map
\* never holds more than its bound, for any stream, network and bound.
THEOREM WaitBounded == Spec => []WaitBound
<1>1. Init => WInv
  <2> SUFFICES ASSUME Init PROVE WInv
    OBVIOUS
  <2>1. DOMAIN rtpData = {}
    BY DEF Init
  <2>2. IsFiniteSet({}) /\ Cardinality({}) = 0
    BY FS_EmptySet
  <2>3. MaxWait \in Nat
    BY RtpAssumption DEF RtpAssumption
  <2>4. QED BY <2>1, <2>2, <2>3 DEF WInv, WaitBound
<1>2. WInv /\ [Next]_vars => WInv'
  <2> SUFFICES ASSUME WInv, [Next]_vars PROVE WInv'
    OBVIOUS
  <2>1. ASSUME UNCHANGED rtpData PROVE WInv'
    BY <2>1 DEF WInv, WaitBound
  <2>2. ASSUME NEW k \in DOMAIN net, Receive(k) PROVE WInv'
    <3> DEFINE s == net[k].seq
               waiting == DOMAIN rtpData \cup {s}
    <3>1. PICK key \in waiting :
             \/ /\ DOMAIN rtpData' = waiting \ {key}
             \/ /\ DOMAIN rtpData' = waiting /\ ~IsNext(key, waiting)
      BY <2>2, Zenon DEF Receive
    <3>2. MaxWait \in Nat
      BY RtpAssumption DEF RtpAssumption
    <3>3. /\ IsFiniteSet(waiting) /\ IsFiniteSet(waiting \ {key})
          /\ Cardinality(waiting) \in Nat
          /\ Cardinality(waiting \ {key}) <= MaxWait
      BY <3>2, WaitStep DEF WInv, WaitBound
    <3>4. ~IsNext(key, waiting) => Cardinality(waiting) <= MaxWait
      BY <3>2, <3>3 DEF IsNext
    <3>5. QED BY <3>1, <3>3, <3>4 DEF WInv, WaitBound
  <2>3. QED
    BY <2>1, <2>2
       DEF Next, Send, Sends, SendPacket, Throttle, Time, Play, Stop, Miss, Start, Lose,
           vars, receiver
<1>3. WInv => WaitBound
  BY DEF WInv
<1>4. QED BY <1>1, <1>2, <1>3, PTL DEF Spec

-----------------------------------------------------------------------------
(* The token bucket *)

\* A sender whose packets have at most `largest' bytes, and the time.
Step(s, largest) == Elapse(s) \/ \E count \in 0..largest : Get(s, count) \/ Sleep(s, count)

\* The exact bucket is full or has all that the clock has not been asked for yet;
\* the leaky one's bytes and debt add up.
BInv(s, largest) ==
  /\ left \in Int /\ left <= s.b /\ since \in Nat /\ exact \in Int /\ window \in Nat
  /\ s.kind = "plain" =>
       /\ left >= 0 /\ exact <= s.b * Second
       /\ exact = s.b * Second \/ exact >= left * Second + s.r * since
  /\ s.kind = "leaky" => left + window = s.r /\ (left >= 0 \/ window <= largest)

LEMMA WrapBelow ==
  ASSUME NEW x \in Nat
  PROVE  Wrap(x) \in Int /\ Wrap(x) <= x /\ (x <= IntMax => Wrap(x) = x)
<1>1. IntMax \in Nat
  BY BucketAssumption DEF BucketAssumption
<1> DEFINE m == 2 * (IntMax + 1)
           y == x + IntMax + 1
<1>2. m \in Nat /\ m > 0 /\ y \in Nat
  BY <1>1
<1>3. y % m \in 0..m - 1
  BY <1>2
<1>4. y % m <= y /\ (y < m => y % m = y)
  BY <1>2, <1>3
<1>5. Wrap(x) = (y % m) - IntMax - 1
  BY DEF Wrap
<1>6. QED BY <1>1, <1>2, <1>3, <1>4, <1>5

LEMMA QuotientBelow ==
  ASSUME NEW x \in Int
  PROVE  /\ Quotient(x, Second) \in Int
         /\ x >= 0 => Quotient(x, Second) >= 0 /\ Quotient(x, Second) * Second <= x
         /\ x < 0 => Quotient(x, Second) <= 0
<1>1. Second \in Nat \ {0}
  BY BucketAssumption DEF BucketAssumption
<1>2. ASSUME NEW y \in Nat
      PROVE  y \div Second \in Nat /\ (y \div Second) * Second <= y
  BY <1>1
<1>3. CASE x >= 0
  <2>1. x \in Nat /\ Quotient(x, Second) = x \div Second
    BY <1>3 DEF Quotient
  <2>2. QED BY <1>2, <1>3, <2>1
<1>4. CASE x < 0
  <2>1. -x \in Nat /\ Quotient(x, Second) = -((-x) \div Second)
    BY <1>4 DEF Quotient
  <2>2. QED BY <1>2, <1>4, <2>1
<1>5. QED BY <1>3, <1>4

\* What multiplication by the clock's resolution keeps.
LEMMA Scaled ==
  ASSUME NEW x \in Int, NEW y \in Int
  PROVE  /\ x * Second \in Int
         /\ x <= y => x * Second <= y * Second
         /\ (x + y) * Second = x * Second + y * Second
         /\ (x - y) * Second = x * Second - y * Second
BY BucketAssumption DEF BucketAssumption

\* The types of the parameters.
LEMMA ShaperTyped ==
  ASSUME NEW s \in Shaper
  PROVE  /\ s.r \in Nat /\ s.b \in Nat /\ s.b * Second \in Nat /\ Second \in Nat
         /\ s.kind = "plain" => s.b * Second <= IntMax
         /\ s.kind = "leaky" => s.b = s.r
BY BucketAssumption DEF BucketAssumption, Shaper

\* A look at the clock finds no more than the exact bucket holds.
LEMMA RefilledBelow ==
  ASSUME NEW s \in Shaper, NEW largest \in Nat, BInv(s, largest), s.kind = "plain"
  PROVE  /\ Refilled(s) \in Nat /\ Refilled(s) <= s.b
         /\ Refilled(s) * Second <= exact
<1> DEFINE x == s.r * since
           q == Quotient(Wrap(x), Second)
<1>1. /\ s.r \in Nat /\ s.b \in Nat /\ s.b * Second \in Nat /\ s.b * Second <= IntMax
      /\ IntMax \in Nat /\ Second \in Nat
  BY ShaperTyped, BucketAssumption DEF BucketAssumption
<1>2. /\ left \in Int /\ left >= 0 /\ left <= s.b /\ since \in Nat /\ exact \in Int
      /\ exact <= s.b * Second
      /\ exact = s.b * Second \/ exact >= left * Second + x
  BY DEF BInv
<1>3. x \in Nat
  BY <1>1, <1>2
<1>4. Wrap(x) \in Int /\ Wrap(x) <= x /\ (x <= IntMax => Wrap(x) = x)
  BY <1>3, WrapBelow
<1>5. /\ q \in Int
      /\ Wrap(x) >= 0 => q >= 0 /\ q * Second <= Wrap(x)
      /\ Wrap(x) < 0 => q <= 0
  BY <1>4, QuotientBelow
<1>6. Earned(s) = left + q
  BY DEF Earned
<1> HIDE DEF x, q
<1>7. Refilled(s) \in Nat /\ Refilled(s) <= s.b
  BY <1>1, <1>2, <1>5, <1>6 DEF Refilled
<1>8. Refilled(s) * Second <= s.b * Second
  BY <1>1, <1>7, Scaled
<1>9. CASE exact = s.b * Second
  BY <1>7, <1>8, <1>9
<1>10. CASE exact >= left * Second + x
  <2>1. left * Second \in Nat
    BY <1>1, <1>2
  <2>2. x <= IntMax /\ Wrap(x) = x
    BY <1>1, <1>2, <1>3, <1>4, <1>10, <2>1
  <2>3. q >= 0 /\ q * Second <= x
    BY <1>3, <1>5, <2>2
  <2>4. Refilled(s) <= left + q
    BY <1>1, <1>2, <1>5, <1>6, <2>3 DEF Refilled
  <2>5. Refilled(s) * Second <= (left + q) * Second
    <3>1. Refilled(s) \in Int /\ left + q \in Int
      BY <1>2, <1>5, <1>7
    <3>2. QED BY <2>4, <3>1, Scaled
  <2>6. (left + q) * Second = left * Second + q * Second /\ q * Second \in Int
    BY <1>2, <1>5, Scaled
  <2>7. Refilled(s) * Second \in Int
    BY <1>7, Scaled
  <2>8. QED BY <1>2, <1>3, <1>7, <1>10, <2>1, <2>3, <2>5, <2>6, <2>7
<1>11. QED BY <1>2, <1>7, <1>9, <1>10

LEMMA StepBInv ==
  ASSUME NEW s \in Shaper, NEW largest \in Nat, BInv(s, largest),
         [Step(s, largest)]_bucket
  PROVE  BInv(s, largest)'
<1>1. /\ s.r \in Nat /\ s.b \in Nat /\ s.b * Second \in Nat /\ Second \in Nat
      /\ s.kind = "leaky" => s.b = s.r
  BY ShaperTyped
<1>2. CASE Elapse(s)
  <2>1. UNCHANGED <<left, sleeping, window>> /\ since' = since + 1 /\ since \in Nat
    BY <1>2 DEF Elapse, BInv
  <2>2. s.r * since' = s.r * since + s.r /\ s.r * since \in Int
    BY <1>1, <2>1
  <2>3. CASE s.kind = "plain"
    <3>1. /\ left >= 0 /\ left <= s.b /\ exact \in Int /\ exact <= s.b * Second
          /\ exact = s.b * Second \/ exact >= left * Second + s.r * since
      BY <2>3 DEF BInv
    <3>2. left * Second \in Int /\ left' * Second = left * Second
      BY <2>1, Scaled DEF BInv
    <3>3. exact' = IF exact + s.r > s.b * Second THEN s.b * Second ELSE exact + s.r
      BY <1>2, <2>3 DEF Elapse
    <3>4. exact' \in Int /\ exact' <= s.b * Second
      BY <1>1, <3>1, <3>3
    <3>5. exact' = s.b * Second \/ exact' >= left * Second + s.r * since'
      BY <1>1, <2>2, <3>1, <3>2, <3>3
    <3>6. left' >= 0 /\ left' <= s.b /\ left' \in Int /\ window' \in Nat
      BY <2>1, <3>1 DEF BInv
    <3>7. QED BY <2>1, <2>3, <3>2, <3>4, <3>5, <3>6 DEF BInv
  <2>4. CASE s.kind # "plain"
    <3>1. exact' = exact
      BY <1>2, <2>4 DEF Elapse
    <3>2. QED BY <2>1, <2>4, <3>1 DEF BInv
  <2>5. QED BY <2>3, <2>4
<1>3. ASSUME NEW count \in 0..largest, Get(s, count), s.kind = "plain"
      PROVE  BInv(s, largest)'
  <2>1. /\ Refilled(s) >= count /\ left' = Refilled(s) - count /\ since' = 0
        /\ exact' = exact - count * Second /\ UNCHANGED window
    BY <1>3 DEF Get, Enough
  <2>2. /\ Refilled(s) \in Nat /\ Refilled(s) <= s.b /\ Refilled(s) * Second <= exact
    BY <1>3, RefilledBelow
  <2>3. /\ left' * Second = Refilled(s) * Second - count * Second
        /\ count * Second \in Nat /\ Refilled(s) * Second \in Int /\ s.r * since' = 0
    BY <1>1, <2>1, <2>2, Scaled
  <2>4. QED BY <1>1, <1>3, <2>1, <2>2, <2>3 DEF BInv
<1>4. ASSUME NEW count \in 0..largest, Get(s, count), s.kind # "plain"
      PROVE  BInv(s, largest)'
  <2>1. /\ left \in Int /\ left <= s.b /\ since \in Nat /\ exact \in Int /\ window \in Nat
        /\ s.kind = "leaky" => left + window = s.r /\ (left >= 0 \/ window <= largest)
    BY DEF BInv
  <2>2. count \in Nat /\ count <= largest
    BY <1>4
  <2>3. CASE s.kind = "none"
    <3>1. UNCHANGED <<left, since, exact, window>>
      BY <1>4, <2>3 DEF Get, bucket
    <3>2. QED BY <1>4, <2>1, <2>3, <3>1 DEF BInv
  <2>4. CASE s.kind = "leaky" /\ left >= count
    <3>1. left' = left - count /\ window' = window + count /\ UNCHANGED <<since, exact>>
      BY <1>4, <2>4 DEF Get
    <3>2. QED BY <1>1, <1>4, <2>1, <2>2, <2>4, <3>1 DEF BInv
  <2>5. CASE s.kind = "leaky" /\ ~(left >= count)
    <3>1. left' = s.r - count /\ window' = count /\ since' = 0 /\ UNCHANGED exact
      BY <1>4, <2>5 DEF Get
    <3>2. QED BY <1>1, <1>4, <2>1, <2>2, <2>5, <3>1 DEF BInv
  <2>6. QED BY <1>4, <2>3, <2>4, <2>5 DEF Shaper
<1>5. ASSUME NEW count \in 0..largest, Sleep(s, count)
      PROVE  BInv(s, largest)'
  <2>1. /\ s.kind = "plain" /\ left' = Refilled(s) /\ since' = 0
        /\ UNCHANGED <<exact, window>>
    BY <1>5 DEF Sleep
  <2>2. /\ Refilled(s) \in Nat /\ Refilled(s) <= s.b /\ Refilled(s) * Second <= exact
    BY <2>1, RefilledBelow
  <2>3. s.r * since' = 0 /\ left' * Second = Refilled(s) * Second
        /\ Refilled(s) * Second \in Int
    BY <1>1, <2>1, <2>2, Scaled
  <2>4. QED BY <1>1, <2>1, <2>2, <2>3 DEF BInv
<1>6. CASE UNCHANGED bucket
  BY <1>6 DEF bucket, BInv
<1>7. QED BY <1>2, <1>3, <1>4, <1>5, <1>6 DEF Step

LEMMA BInvStarts ==
  ASSUME NEW s \in Shaper, NEW largest \in Nat, InitBucket(s)
  PROVE  BInv(s, largest)
<1>1. /\ s.r \in Nat /\ s.b \in Nat /\ s.b * Second \in Nat
      /\ s.kind = "leaky" => s.b = s.r
  BY ShaperTyped
<1>2. QED BY <1>1 DEF InitBucket, BInv

LEMMA BInvConforms ==
  ASSUME NEW s \in Shaper, NEW largest \in Nat, BInv(s, largest)
  PROVE  Conforms(s, largest)
<1>1. /\ s.r \in Nat /\ s.b \in Nat /\ s.b * Second \in Nat /\ Second \in Nat
  BY ShaperTyped
<1>2. left * Second \in Int /\ (left <= s.b => left * Second <= s.b * Second)
  BY <1>1, Scaled DEF BInv
<1>3. s.r * since \in Nat
  BY <1>1 DEF BInv
<1>4. QED BY <1>1, <1>2, <1>3 DEF BInv, Conforms

\* Traffic shaping keeps its rate for every parameter, clock and packet size: what
\* get() lets go never exceeds what an exact bucket would have let go, although the
\* code's products overflow and its quotients are cut.
THEOREM BucketConforms ==
  ASSUME NEW s \in Shaper, NEW largest \in Nat
  PROVE  InitBucket(s) /\ [][Step(s, largest)]_bucket => []Conforms(s, largest)
<1>1. InitBucket(s) => BInv(s, largest)
  BY BInvStarts
<1>2. BInv(s, largest) /\ [Step(s, largest)]_bucket => BInv(s, largest)'
  BY StepBInv
<1>3. BInv(s, largest) => Conforms(s, largest)
  BY BInvConforms
<1>4. QED BY <1>1, <1>2, <1>3, PTL

-----------------------------------------------------------------------------
(* The bytes of a packet are a fold of its pieces. *)

\* What a piece is, whatever the stream.
Spans == [nal: Nat, from: Nat \ {0}, to: Nat]
Headers(p) == CASE p.type = 1 -> 0 [] p.type = 24 -> 1 [] p.type = 28 -> IF p.start THEN 1 ELSE 2
Bytes(p, i) == p.pieces[i].to - p.pieces[i].from + 1 + (IF p.type = 24 THEN 2 ELSE 0)
Shape(p) == p.type \in {1, 24, 28} /\ p.pieces \in Seq(Spans)

\* The sums of the bytes of the first pieces.
Sums(g, p) ==
  /\ g[1..0] = Headers(p)
  /\ \A k \in 0..Len(p.pieces) : g[1..k] \in Int
  /\ \A k \in 0..Len(p.pieces) : k > 0 => g[1..k] = g[1..(k - 1)] + Bytes(p, k)

LEMMA PayloadSums ==
  ASSUME NEW p, Shape(p)
  PROVE  \E g : Sums(g, p) /\ PayloadSize(p) = g[1..Len(p.pieces)]
<1> DEFINE s == p.pieces
           n == Len(s)
           b == Headers(p)
           F == [i \in 1..n |-> [v \in Int |-> v + Bytes(p, i)]]
           Value(g, m) == g[m]
           G(g) == g = [t \in SUBSET (1..n) |->
                          IF t = {} THEN b
                          ELSE g[t \ {Max(t)}] + s[Max(t)].to - s[Max(t)].from + 1
                               + (IF p.type = 24 THEN 2 ELSE 0)]
<1>1. n \in Nat /\ DOMAIN s = 1..n /\ b \in Int
  BY DEF Shape, Headers
<1>2. \A i \in 1..n : s[i].to \in Int /\ s[i].from \in Int /\ Bytes(p, i) \in Int
  <2>1. \A i \in 1..n : s[i] \in Spans
    BY <1>1, ElementOfSeq DEF Shape
  <2>2. QED BY <2>1 DEF Spans, Bytes
<1>3. F \in [1..n -> [Int -> Int]]
  BY <1>2
<1>4. PayloadSize(p) = (CHOOSE g : g = [t \in SUBSET (DOMAIN s) |->
                          IF t = {} THEN b
                          ELSE g[t \ {Max(t)}] + s[Max(t)].to - s[Max(t)].from + 1
                               + (IF p.type = 24 THEN 2 ELSE 0)])[DOMAIN s]
  BY DEF PayloadSize, FoldLeft, MapThenFoldSet, Headers
<1>5. PayloadSize(p) = (CHOOSE g : G(g))[1..n]
  BY <1>1, <1>4, Zenon
<1>6. \A t \in SUBSET (1..n) : t # {} => Max(t) \in 1..n
  BY <1>1, LastChooses DEF Chooses
<1> HIDE DEF s, n, b
<1>7. \E g : G(g)
  <2>1. PICK g \in [SUBSET (1..n) -> Int] : Folds(g, F, b, n)
    <3> HIDE DEF F
    <3>1. QED BY <1>1, <1>3, LeftFoldExists, Zenon
  <2>2. ASSUME NEW t \in SUBSET (1..n), t # {}
        PROVE  F[Max(t)][g[t \ {Max(t)}]]
                 = g[t \ {Max(t)}] + s[Max(t)].to - s[Max(t)].from + 1
                   + (IF p.type = 24 THEN 2 ELSE 0)
    <3>1. Max(t) \in 1..n /\ g[t \ {Max(t)}] \in Int
      BY <1>6, <2>2
    <3>2. F[Max(t)][g[t \ {Max(t)}]] = g[t \ {Max(t)}] + Bytes(p, Max(t))
      BY <3>1
    <3>3. /\ s[Max(t)].to \in Int /\ s[Max(t)].from \in Int
          /\ Bytes(p, Max(t)) = s[Max(t)].to - s[Max(t)].from + 1
                                + (IF p.type = 24 THEN 2 ELSE 0)
      BY <1>2, <3>1 DEF Bytes, s
    <3> HIDE DEF F
    <3>4. QED BY <3>1, <3>2, <3>3
  <2> HIDE DEF F
  <2>3. G(g)
    BY <2>1, <2>2, Zenon DEF Folds, G
  <2>4. QED BY <2>3
<1> HIDE DEF G
<1>8. PICK g : G(g) /\ PayloadSize(p) = g[1..n]
  BY <1>5, <1>7
<1>9. Follows(g, F, Int, b, n)
  <2>1. g[{}] = b
    BY <1>8 DEF G
  <2>2. ASSUME NEW t \in SUBSET (1..n), t # {}, g[t \ {Max(t)}] \in Int
        PROVE  g[t] = F[Max(t)][g[t \ {Max(t)}]]
    <3>1. g[t] = g[t \ {Max(t)}] + s[Max(t)].to - s[Max(t)].from + 1
                 + (IF p.type = 24 THEN 2 ELSE 0)
      BY <1>8, <2>2 DEF G
    <3>2. Max(t) \in 1..n
      BY <1>6, <2>2
    <3>3. F[Max(t)][g[t \ {Max(t)}]] = g[t \ {Max(t)}] + Bytes(p, Max(t))
      BY <2>2, <3>2
    <3>4. /\ s[Max(t)].to \in Int /\ s[Max(t)].from \in Int
          /\ Bytes(p, Max(t)) = s[Max(t)].to - s[Max(t)].from + 1
                                + (IF p.type = 24 THEN 2 ELSE 0)
      BY <1>2, <3>2 DEF Bytes, s
    <3> HIDE DEF F
    <3>5. QED BY <2>2, <3>1, <3>3, <3>4
  <2> HIDE DEF F
  <2>3. QED BY <2>1, <2>2 DEF Follows
<1>10. Steps(g, F, b, n) /\ \A k \in 0..n : g[1..k] \in Int
  <2> HIDE DEF F
  <2>1. QED BY <1>1, <1>3, <1>9, LeftFoldSteps, Zenon
<1>11. ASSUME NEW k \in 0..n, k > 0 PROVE g[1..k] = g[1..(k - 1)] + Bytes(p, k)
  <2>1. k \in 1..n /\ g[1..(k - 1)] \in Int
    BY <1>1, <1>10, <1>11
  <2>2. g[1..k] = F[k][g[1..(k - 1)]]
    BY <1>10, <1>11 DEF Steps
  <2>3. QED BY <2>1, <2>2
<1>12. Sums(g, p)
  <2> HIDE DEF F
  <2>1. QED BY <1>10, <1>11 DEF Steps, Sums, n, b, s
<1>13. QED BY <1>8, <1>12 DEF n, s

Alike(p, q, n) == \A k \in 1..n : p.pieces[k] = q.pieces[k]

\* Packets with the same headers and pieces have the same sums.
LEMMA SumsAgree ==
  ASSUME NEW p, NEW q, Shape(p), Shape(q), p.type = q.type, Headers(p) = Headers(q),
         NEW g, NEW h, Sums(g, p), Sums(h, q),
         NEW n \in Nat, n <= Len(p.pieces), n <= Len(q.pieces),
         Alike(p, q, n)
  PROVE  g[1..n] = h[1..n] /\ g[1..n] \in Int
<1>1. \A k \in 1..n : Bytes(q, k) = Bytes(p, k)
  BY DEF Bytes, Alike
<1>2. Len(p.pieces) \in Nat /\ Len(q.pieces) \in Nat
  BY DEF Shape
<1>3. /\ g[1..0] = Headers(p) /\ h[1..0] = Headers(p)
      /\ \A k \in 0..n : g[1..k] \in Int /\ h[1..k] \in Int
      /\ \A k \in 0..n : k > 0 => /\ g[1..k] = g[1..(k - 1)] + Bytes(p, k)
                                  /\ h[1..k] = h[1..(k - 1)] + Bytes(q, k)
  BY <1>2 DEF Sums
<1> DEFINE F == [k \in 1..n |-> [v \in Int |-> v + Bytes(p, k)]]
<1>4. ASSUME NEW k \in 0..n, k > 0
      PROVE  g[1..k] = F[k][g[1..(k - 1)]] /\ h[1..k] = F[k][h[1..(k - 1)]]
  <2>1. k \in 1..n /\ k - 1 \in 0..n
    BY <1>4
  <2>2. g[1..(k - 1)] \in Int /\ h[1..(k - 1)] \in Int
    BY <1>3, <2>1
  <2>3. g[1..k] = g[1..(k - 1)] + Bytes(p, k) /\ h[1..k] = h[1..(k - 1)] + Bytes(p, k)
    BY <1>1, <1>3, <1>4, <2>1
  <2>4. QED BY <2>1, <2>2, <2>3
<1> HIDE DEF F
<1>5. Steps(g, F, Headers(p), n) /\ Steps(h, F, Headers(p), n)
  BY <1>3, <1>4 DEF Steps
<1>6. g[1..n] = h[1..n]
  BY <1>5, LeftFoldsAgree
<1>7. QED BY <1>3, <1>6

\* The place and the sequence number of a packet are not part of its payload.
LEMMA PayloadSame ==
  ASSUME NEW p, NEW q, Shape(p), q.type = p.type, q.start = p.start, q.pieces = p.pieces
  PROVE  PayloadSize(q) = PayloadSize(p)
<1>1. Shape(q) /\ Headers(q) = Headers(p) /\ Len(p.pieces) \in Nat
  BY DEF Shape, Headers
<1>2. PICK g : Sums(g, p) /\ PayloadSize(p) = g[1..Len(p.pieces)]
  BY PayloadSums
<1>3. PICK h : Sums(h, q) /\ PayloadSize(q) = h[1..Len(q.pieces)]
  BY <1>1, PayloadSums
<1>4. g[1..Len(p.pieces)] = h[1..Len(p.pieces)]
  <2>1. Alike(p, q, Len(p.pieces))
    BY DEF Alike
  <2>2. QED BY <1>1, <1>2, <1>3, <2>1, SumsAgree
<1>5. QED BY <1>2, <1>3, <1>4

LEMMA PayloadOfOne ==
  ASSUME NEW p, Shape(p), Len(p.pieces) = 1
  PROVE  PayloadSize(p) = Headers(p) + Bytes(p, 1)
<1>1. PICK g : Sums(g, p) /\ PayloadSize(p) = g[1..Len(p.pieces)]
  BY PayloadSums
<1>2. g[1..1] = g[1..(1 - 1)] + Bytes(p, 1) /\ g[1..0] = Headers(p) /\ 1 - 1 = 0
  BY <1>1 DEF Sums
<1>3. QED BY <1>1, <1>2

\* One more piece of an aggregate.
LEMMA PayloadOfMore ==
  ASSUME NEW p, NEW q, Shape(p), Shape(q), p.type = 24, q.type = 24,
         NEW piece \in Spans, q.pieces = Append(p.pieces, piece)
  PROVE  /\ PayloadSize(p) \in Int
         /\ PayloadSize(q) = PayloadSize(p) + (piece.to - piece.from + 3)
<1>1. PICK g : Sums(g, p) /\ PayloadSize(p) = g[1..Len(p.pieces)]
  BY PayloadSums
<1>2. PICK h : Sums(h, q) /\ PayloadSize(q) = h[1..Len(q.pieces)]
  BY PayloadSums
<1>3. PICK n \in Nat : n = Len(p.pieces) /\ Len(q.pieces) = n + 1
  BY DEF Shape
<1>4. Alike(p, q, n) /\ q.pieces[n + 1] = piece
  BY <1>3 DEF Shape, Alike
<1>5. Headers(p) = Headers(q)
  BY DEF Headers
<1>6. g[1..n] = h[1..n] /\ g[1..n] \in Int
  <2>1. n <= Len(p.pieces) /\ n <= Len(q.pieces) /\ p.type = q.type
    BY <1>3
  <2>2. QED BY <1>1, <1>2, <1>4, <1>5, <2>1, SumsAgree, Zenon
<1>7. h[1..(n + 1)] = h[1..n] + Bytes(q, n + 1)
  <2>1. n + 1 \in 0..(n + 1) /\ n + 1 > 0 /\ (n + 1) - 1 = n
    OBVIOUS
  <2>2. QED BY <1>2, <1>3, <2>1 DEF Sums
<1>8. Bytes(q, n + 1) = piece.to - piece.from + 3
  BY <1>4 DEF Bytes, Spans
<1>9. QED BY <1>1, <1>2, <1>3, <1>6, <1>7, <1>8

-----------------------------------------------------------------------------
(* The packets of a NAL unit: single, or in fragments. *)

Nals == [type: {"sps", "slice", "undefined"}, size: Nat \ {0}]

\* What the configuration is made of.
LEMMA SetupFacts ==
  ASSUME setup \in Setups
  PROVE  /\ setup.nals \in Seq(Nals)
         /\ setup.ends \in Seq(Nat \ {0}) /\ \A i \in DOMAIN setup.ends : setup.ends[i] \in DOMAIN setup.nals
         /\ setup.stap \in BOOLEAN /\ setup.first \subseteq Seqs /\ setup.shaper \in Shaper
         /\ setup.losses \in Nat /\ setup.stops \in Nat /\ setup.late \in BOOLEAN
BY RtpAssumption DEF Setup, ToSet, Nals

LEMMA Units ==
  ASSUME setup \in Setups, NEW n \in DOMAIN setup.nals
  PROVE  n \in Nat /\ Size(n) \in Nat \ {0}
<1>1. setup.nals \in Seq(Nals)
  BY SetupFacts
<1>2. PICK len \in Nat : len = Len(setup.nals) /\ DOMAIN setup.nals = 1..len
  BY <1>1
<1>3. n \in Nat /\ setup.nals[n] \in Nals
  BY <1>1, <1>2, ElementOfSeq
<1>4. QED BY <1>3 DEF Size, Nals

\* Packets that have no place and no number yet, and fit.
Made == {p \in [type: {1, 24, 28}, start: BOOLEAN, end: BOOLEAN, last: BOOLEAN,
                pieces: Seq(Pieces), unit: {0}, seq: {0}] : PayloadSize(p) \in 0..MaxPayload}

LEMMA PiecesAreSpans ==
  ASSUME setup \in Setups
  PROVE  Pieces \subseteq Spans /\ Seq(Pieces) \subseteq Seq(Spans)
<1>1. Pieces \subseteq Spans
  BY Units DEF Pieces, Spans
<1>2. ASSUME NEW s \in Seq(Pieces) PROVE s \in Seq(Spans)
  BY <1>1
<1>3. QED BY <1>1, <1>2

BytesOfOne(type, start, piece) ==
  piece.to - piece.from + 1 + (IF type = 1 THEN 0 ELSE IF start THEN 1 ELSE 2)

\* A packet of one piece.
LEMMA OnePiece ==
  ASSUME setup \in Setups, NEW type \in {1, 28}, NEW start \in BOOLEAN,
         NEW end \in BOOLEAN, NEW last \in BOOLEAN, NEW piece \in Pieces,
         BytesOfOne(type, start, piece) \in 0..MaxPayload
  PROVE  Packet(type, start, end, last, <<piece>>) \in Made
<1> DEFINE p == Packet(type, start, end, last, <<piece>>)
<1>1. /\ p.type = type /\ p.start = start /\ p.pieces = <<piece>> /\ p.pieces \in Seq(Pieces)
      /\ p \in [type: {1, 24, 28}, start: BOOLEAN, end: BOOLEAN, last: BOOLEAN,
                pieces: Seq(Pieces), unit: {0}, seq: {0}]
  BY DEF Packet
<1> HIDE DEF p
<1>2. Shape(p) /\ Len(p.pieces) = 1 /\ piece \in Spans
  BY <1>1, PiecesAreSpans DEF Shape
<1>3. PayloadSize(p) = Headers(p) + Bytes(p, 1)
  BY <1>2, PayloadOfOne
<1>4. Headers(p) = IF type = 1 THEN 0 ELSE IF start THEN 1 ELSE 2
  BY <1>1 DEF Headers
<1>5. Bytes(p, 1) = piece.to - piece.from + 1 /\ piece.to \in Int /\ piece.from \in Int
  BY <1>1, <1>2 DEF Bytes, Spans
<1>6. PayloadSize(p) \in 0..MaxPayload
  BY <1>3, <1>4, <1>5 DEF BytesOfOne
<1>7. QED BY <1>1, <1>6 DEF Made, p

LEMMA Division ==
  ASSUME NEW a \in Nat, NEW c \in Nat \ {0}
  PROVE  \E q \in Nat, r \in 0..c - 1 : q = a \div c /\ a = q * c + r
<1>1. a \div c \in Nat /\ a % c \in 0..c - 1 /\ a = c * (a \div c) + (a % c)
  OBVIOUS
<1>2. PICK q \in Nat, r \in 0..c - 1 : q = a \div c /\ r = a % c
  BY <1>1
<1>3. a = c * q + r /\ c * q = q * c
  BY <1>1, <1>2
<1>4. QED BY <1>2, <1>3

LEMMA NalPacketsMade ==
  ASSUME setup \in Setups, NEW n \in DOMAIN setup.nals
  PROVE  NalPackets(n) \in Seq(Made)
<1>1. MaxPayload \in Nat /\ MaxPayload > 3 /\ n \in Nat /\ Size(n) \in Nat \ {0}
  BY RtpAssumption, Units
<1>2. CASE Size(n) <= MaxPayload
  <2>1. Piece(n, 1, Size(n)) \in Pieces
    BY <1>1 DEF Piece, Pieces
  <2>2. Piece(n, 1, Size(n)).from = 1 /\ Piece(n, 1, Size(n)).to = Size(n)
    BY DEF Piece
  <2>3. Packet(1, FALSE, FALSE, TRUE, <<Piece(n, 1, Size(n))>>) \in Made
    <3> DEFINE piece == Piece(n, 1, Size(n))
    <3>1. piece \in Pieces /\ BytesOfOne(1, FALSE, piece) \in 0..MaxPayload
      BY <1>1, <1>2, <2>1, <2>2 DEF BytesOfOne
    <3> HIDE DEF piece
    <3>2. 1 \in {1, 28} /\ FALSE \in BOOLEAN /\ TRUE \in BOOLEAN
      OBVIOUS
    <3>3. Packet(1, FALSE, FALSE, TRUE, <<piece>>) \in Made
      BY <3>1, <3>2, OnePiece, Zenon
    <3>4. QED BY <3>3 DEF piece
  <2>4. PICK p : p = Packet(1, FALSE, FALSE, TRUE, <<Piece(n, 1, Size(n))>>)
    OBVIOUS
  <2>5. NalPackets(n) = <<p>>
    BY <1>2, <2>4, Zenon DEF NalPackets
  <2>6. p \in Made
    BY <2>3, <2>4, Zenon
  <2> HIDE DEF Made
  <2>7. <<p>> \in Seq(Made)
    BY <2>6
  <2>8. QED BY <2>5, <2>7
<1>3. CASE Size(n) > MaxPayload
  <2>1. PICK c \in Nat : c = MaxPayload - 2 /\ c >= 2
    BY <1>1
  <2>2. PICK q \in Nat, r \in 0..c - 1 : q = (Size(n) - 2) \div c /\ Size(n) - 2 = q * c + r
    <3>1. Size(n) - 2 \in Nat /\ c \in Nat \ {0}
      BY <1>1, <1>3, <2>1
    <3>2. QED BY <3>1, Division
  <2>3. q >= 1
    <3>1. q = 0 => q * c = 0
      BY <2>1
    <3>2. QED BY <1>1, <1>3, <2>1, <2>2, <3>1
  <2>4. Fragments(n) = q + 1
    BY <2>1, <2>2 DEF Fragments
  <2>5. ASSUME NEW j \in 1..(q + 1)
        PROVE  Packet(28, j = 1, j = q + 1, j = q + 1, <<Part(n, j, q + 1)>>) \in Made
    <3>1. PICK x \in Nat : x = (j - 1) * c
      BY <2>1
    <3>2. j * c = x + c
      BY <2>1, <3>1
    <3> DEFINE from == IF j = 1 THEN 1 ELSE x + 2
               to == IF j = q + 1 THEN Size(n) ELSE x + c + 1
               piece == Piece(n, from, to)
    <3>3. Part(n, j, q + 1) = piece
      BY <2>1, <3>1, <3>2 DEF Part
    <3>4. j = 1 => x = 0
      BY <2>1, <3>1
    <3>5. j = q + 1 => x = q * c
      BY <2>1, <3>1
    <3>6. from \in Nat \ {0} /\ to \in Nat
      BY <1>1, <2>1
    <3>7. to - from + 1 + (IF j = 1 THEN 1 ELSE 2) \in 0..MaxPayload
      <4>1. CASE j = q + 1
        <5>1. j # 1
          BY <2>3, <4>1
        <5>2. PICK y \in Nat : y = q * c /\ Size(n) = y + r + 2
          BY <1>1, <1>3, <2>1, <2>2
        <5>3. to = y + r + 2 /\ from = y + 2
          BY <3>5, <4>1, <5>1, <5>2
        <5> HIDE DEF from, to, piece
        <5>4. QED BY <1>1, <2>1, <5>1, <5>3
      <4>2. CASE j # q + 1 /\ j = 1
        <5>1. to = c + 1 /\ from = 1
          BY <3>4, <4>2
        <5> HIDE DEF from, to, piece
        <5>2. QED BY <1>1, <2>1, <4>2, <5>1
      <4>3. CASE j # q + 1 /\ j # 1
        <5>1. to = x + c + 1 /\ from = x + 2
          BY <4>3
        <5> HIDE DEF from, to, piece
        <5>2. QED BY <1>1, <2>1, <4>3, <5>1
      <4>4. QED BY <4>1, <4>2, <4>3
    <3> HIDE DEF from, to
    <3>8. piece \in Pieces /\ piece.from = from /\ piece.to = to
      BY <3>6 DEF Piece, Pieces
    <3> HIDE DEF piece
    <3>9. PICK start \in BOOLEAN, end \in BOOLEAN : start = (j = 1) /\ end = (j = q + 1)
      OBVIOUS
    <3>10. 28 \in {1, 28} /\ piece \in Pieces /\ BytesOfOne(28, start, piece) \in 0..MaxPayload
      <4>1. (IF j = 1 THEN 1 ELSE 2) = IF start THEN 1 ELSE 2
        BY <3>9
      <4>2. QED BY <3>7, <3>8, <4>1 DEF BytesOfOne
    <3>11. Packet(28, start, end, end, <<piece>>) \in Made
      BY <3>10, OnePiece, Zenon
    <3>12. QED BY <3>3, <3>9, <3>11, Zenon
  <2>6. NalPackets(n) = [j \in 1..(q + 1) |->
           Packet(28, j = 1, j = q + 1, j = q + 1, <<Part(n, j, q + 1)>>)]
    BY <1>1, <1>3, <2>4 DEF NalPackets
  <2>7. QED BY <2>5, <2>6
<1>4. QED BY <1>1, <1>2, <1>3

-----------------------------------------------------------------------------
(* The packets of a buffer. *)

\* A sequence of sequences, flattened, has what two of them one after the other have.
LEMMA FlattenedSteps ==
  ASSUME NEW W, <<>> \in W, \A a, b \in W : a \o b \in W, NEW seqs \in Seq(W)
  PROVE  \E e : /\ FlattenSeq(seqs) = IF Len(seqs) = 0 THEN <<>> ELSE e[Len(seqs)]
                /\ \A i \in 1..Len(seqs) : e[i] = IF i = 1 THEN seqs[i] ELSE e[i - 1] \o seqs[i]
<1> DEFINE n == Len(seqs)
           F == [i \in 1..n |-> [v \in W |-> IF i = 1 THEN seqs[i] ELSE v \o seqs[i]]]
           G(f) == f = [i \in 1..n |-> IF i = 1 THEN seqs[i] ELSE f[i - 1] \o seqs[i]]
<1>1. n \in Nat /\ \A i \in 1..n : seqs[i] \in W
  BY ElementOfSeq
<1>2. F \in [1..n -> [W -> W]]
  BY <1>1
<1>3. <<>> \in W
  OBVIOUS
<1>4. PICK g \in [SUBSET (1..n) -> W] : Folds(g, F, <<>>, n)
  <2> HIDE DEF F, n
  <2>1. QED BY <1>1, <1>2, <1>3, LeftFoldExists, Zenon
<1>5. Follows(g, F, W, <<>>, n)
  <2> HIDE DEF F, n
  <2>1. {} \in SUBSET (1..n) /\ \A s \in SUBSET (1..n) :
           g[s] = IF s = {} THEN <<>> ELSE F[Max(s)][g[s \ {Max(s)}]]
    BY <1>4, Zenon DEF Folds
  <2>2. QED BY <2>1, Zenon DEF Follows
<1>6. Steps(g, F, <<>>, n) /\ \A k \in 0..n : g[1..k] \in W
  <2> HIDE DEF F, n
  <2>1. QED BY <1>1, <1>2, <1>3, <1>5, LeftFoldSteps, Zenon
<1> DEFINE f == [i \in 1..n |-> g[1..i]]
<1>7. \A i \in 1..n : f[i] = IF i = 1 THEN seqs[i] ELSE f[i - 1] \o seqs[i]
  <2>1. TAKE i \in 1..n
  <2>2. i \in 0..n /\ i > 0 /\ i - 1 \in 0..n
    BY <1>1
  <2>3. g[1..i] = F[i][g[1..(i - 1)]] /\ g[1..(i - 1)] \in W
    BY <1>6, <2>2, Zenon DEF Steps
  <2>4. g[1..i] = IF i = 1 THEN seqs[i] ELSE g[1..(i - 1)] \o seqs[i]
    BY <2>3
  <2>5. i # 1 => i - 1 \in 1..n
    BY <1>1
  <2> HIDE DEF F, n
  <2>6. QED BY <2>4, <2>5
<1>8. G(f)
  <2> DEFINE h == [i \in 1..n |-> IF i = 1 THEN seqs[i] ELSE f[i - 1] \o seqs[i]]
  <2>1. \A i \in 1..n : f[i] = h[i]
    BY <1>7
  <2>2. QED BY <2>1
<1> HIDE DEF f
<1>9. PICK e : G(e) /\ FlattenSeq(seqs) = IF n = 0 THEN seqs ELSE e[n]
  <2>1. FlattenSeq(seqs) = IF n = 0 THEN seqs ELSE (CHOOSE e : G(e))[n]
    BY DEF FlattenSeq
  <2> HIDE DEF G, n
  <2>2. QED BY <1>8, <2>1
<1>10. \A i \in 1..n : e[i] = IF i = 1 THEN seqs[i] ELSE e[i - 1] \o seqs[i]
  BY <1>9
<1>11. n = 0 => seqs = <<>>
  OBVIOUS
<1> HIDE DEF G
<1>12. FlattenSeq(seqs) = IF n = 0 THEN <<>> ELSE e[n]
  BY <1>9, <1>11, Zenon
<1>13. QED BY <1>10, <1>12, Zenon

LEMMA FlattenedIn ==
  ASSUME NEW W, <<>> \in W, \A a, b \in W : a \o b \in W, NEW seqs \in Seq(W)
  PROVE  FlattenSeq(seqs) \in W
<1> DEFINE n == Len(seqs)
<1>1. n \in Nat /\ \A i \in 1..n : seqs[i] \in W
  BY ElementOfSeq
<1>2. PICK e : /\ FlattenSeq(seqs) = IF n = 0 THEN <<>> ELSE e[n]
               /\ \A i \in 1..n : e[i] = IF i = 1 THEN seqs[i] ELSE e[i - 1] \o seqs[i]
  BY FlattenedSteps, Zenon
<1>3. n # 0 => e[n] \in W
  <2> DEFINE T == {k \in Nat : k \in 1..n => e[k] \in W}
  <2>1. \A i \in 1..n : e[i] = IF i = 1 THEN seqs[i] ELSE e[i - 1] \o seqs[i]
    BY <1>2
  <2>2. 0 \in T
    BY <1>1
  <2>3. ASSUME NEW k \in T PROVE k + 1 \in T
    <3>1. k \in Nat /\ (k + 1) - 1 = k
      OBVIOUS
    <3>2. SUFFICES ASSUME k + 1 \in 1..n PROVE e[k + 1] \in W
      BY <3>1
    <3> HIDE DEF n
    <3>3. CASE k = 0
      BY <1>1, <2>1, <3>2, <3>3
    <3>4. CASE k # 0
      <4>1. k \in 1..n /\ e[k] \in W /\ seqs[k + 1] \in W /\ k + 1 # 1
        BY <1>1, <3>1, <3>2, <3>4
      <4>2. e[k + 1] = e[k] \o seqs[k + 1]
        BY <2>1, <3>1, <3>2, <4>1
      <4>3. QED BY <4>1, <4>2
    <3>5. QED BY <3>3, <3>4
  <2>4. T = Nat
    <3> HIDE DEF T
    <3>1. QED BY <2>2, <2>3, NatSetInduction DEF T
  <2>5. QED BY <1>1, <2>4
<1>4. QED BY <1>2, <1>3, Zenon

LEMMA Flattened ==
  ASSUME NEW S, NEW seqs \in Seq(Seq(S))
  PROVE  FlattenSeq(seqs) \in Seq(S)
<1>1. <<>> \in Seq(S) /\ \A a, b \in Seq(S) : a \o b \in Seq(S)
  OBVIOUS
<1>2. QED BY <1>1, FlattenedIn, Zenon

\* What a buffer has been made into: packets that fit, and an aggregate that does.
Filled(m) == m.stap # <<>> => m.size = PayloadSize(Packet(24, FALSE, FALSE, TRUE, m.stap))
Goods == {m \in [series: Seq(Seq(Made)), stap: Seq(Pieces), size: 0..MaxPayload, sps: BOOLEAN] :
            Filled(m)}

LEMMA AggregateMade ==
  ASSUME setup \in Setups, NEW m \in Goods, m.stap # <<>>
  PROVE  Packet(24, FALSE, FALSE, TRUE, m.stap) \in Made
<1> DEFINE p == Packet(24, FALSE, FALSE, TRUE, m.stap)
<1>1. m.stap \in Seq(Pieces) /\ m.size \in 0..MaxPayload /\ m.size = PayloadSize(p)
  BY DEF Goods, Filled
<1>2. p \in [type: {1, 24, 28}, start: BOOLEAN, end: BOOLEAN, last: BOOLEAN,
              pieces: Seq(Pieces), unit: {0}, seq: {0}]
  BY <1>1 DEF Packet
<1> HIDE DEF p
<1>3. QED BY <1>1, <1>2 DEF Made, p

LEMMA FlushGood ==
  ASSUME setup \in Setups, NEW m \in Goods
  PROVE  Flush(m) \in Goods /\ Flush(m).stap = <<>>
<1>1. CASE m.stap = <<>>
  BY <1>1 DEF Flush
<1>2. CASE m.stap # <<>>
  <2>1. PICK p \in Made : p = Packet(24, FALSE, FALSE, TRUE, m.stap)
    BY <1>2, AggregateMade
  <2>2. <<p>> \in Seq(Made) /\ m.series \in Seq(Seq(Made)) /\ MaxPayload \in Nat
    BY RtpAssumption DEF Goods
  <2>3. Append(m.series, <<p>>) \in Seq(Seq(Made))
    BY <2>2
  <2>4. Flush(m) = [m EXCEPT !.series = Append(@, <<p>>), !.stap = <<>>, !.size = 0]
    BY <1>2, <2>1, Zenon DEF Flush
  <2>5. Flush(m).stap = <<>>
    BY <2>4 DEF Goods
  <2>6. Flush(m) \in [series: Seq(Seq(Made)), stap: Seq(Pieces), size: 0..MaxPayload, sps: BOOLEAN]
    <3>1. <<>> \in Seq(Pieces) /\ 0 \in 0..MaxPayload
      BY <2>2
    <3> HIDE DEF Made
    <3>2. QED BY <2>3, <2>4, <3>1 DEF Goods
  <2>7. QED BY <2>5, <2>6 DEF Goods, Filled
<1>3. QED BY <1>1, <1>2

LEMMA SendGood ==
  ASSUME setup \in Setups, NEW m \in Goods, NEW n \in DOMAIN setup.nals
  PROVE  SendNal(m, n) \in Goods
<1>1. PICK seen \in BOOLEAN : seen = (m.sps \/ Type(n) = "sps")
  OBVIOUS
<1>2. m.series \in Seq(Seq(Made)) /\ NalPackets(n) \in Seq(Made)
  BY NalPacketsMade DEF Goods
<1>3. Append(m.series, NalPackets(n)) \in Seq(Seq(Made))
  BY <1>2
<1>4. SendNal(m, n) = [m EXCEPT !.sps = seen,
         !.series = IF seen /\ Type(n) # "undefined" THEN Append(@, NalPackets(n)) ELSE @]
  BY <1>1, Zenon DEF SendNal
<1>5. QED BY <1>2, <1>3, <1>4 DEF Goods, Filled

LEMMA AggregateGood ==
  ASSUME setup \in Setups, NEW m \in Goods, NEW n \in DOMAIN setup.nals, Fits(m, n)
  PROVE  Aggregate(m, n) \in Goods
<1> DEFINE piece == Piece(n, 1, Size(n))
           more == Append(m.stap, piece)
           size == (IF m.stap = <<>> THEN 1 ELSE m.size) + Size(n) + 2
           q == Packet(24, FALSE, FALSE, TRUE, more)
<1>1. n \in Nat /\ Size(n) \in Nat \ {0} /\ m.stap \in Seq(Pieces) /\ m.size \in 0..MaxPayload
      /\ MaxPayload \in Nat
  BY Units, RtpAssumption DEF Goods
<1>2. piece \in Pieces /\ piece.from = 1 /\ piece.to = Size(n)
  BY <1>1 DEF Piece, Pieces
<1>3. size \in 0..MaxPayload
  BY <1>1, SMTT(30) DEF Fits
<1> HIDE DEF piece
<1>4. more \in Seq(Pieces) /\ more # <<>>
  BY <1>1, <1>2
<1>5. q.type = 24 /\ q.pieces = more /\ Shape(q)
  BY <1>4, PiecesAreSpans DEF Packet, Shape
<1>6. PayloadSize(q) = size
  <2>1. CASE m.stap = <<>>
    <3>1. more = <<piece>>
      BY <2>1
    <3> HIDE DEF q, more
    <3>2. Len(q.pieces) = 1 /\ q.pieces[1] = piece
      BY <1>5, <3>1
    <3>3. PayloadSize(q) = Headers(q) + Bytes(q, 1)
      BY <1>5, <3>2, PayloadOfOne
    <3>4. Headers(q) = 1 /\ Bytes(q, 1) = Size(n) + 2
      BY <1>1, <1>2, <1>5, <3>2 DEF Headers, Bytes
    <3>5. size = Size(n) + 3
      BY <1>1, <2>1
    <3> HIDE DEF size
    <3>6. QED BY <1>1, <3>3, <3>4, <3>5
  <2>2. CASE m.stap # <<>>
    <3> DEFINE p == Packet(24, FALSE, FALSE, TRUE, m.stap)
    <3>1. p.type = 24 /\ p.pieces = m.stap /\ Shape(p)
      BY <1>1, PiecesAreSpans DEF Packet, Shape
    <3>2. m.size = PayloadSize(p)
      BY <2>2 DEF Goods, Filled
    <3> HIDE DEF p, q, more
    <3>3. piece \in Spans /\ q.pieces = Append(p.pieces, piece)
      BY <1>2, <1>5, <3>1, PiecesAreSpans DEF more
    <3>4. PayloadSize(q) = PayloadSize(p) + (piece.to - piece.from + 3)
      BY <1>5, <3>1, <3>3, PayloadOfMore
    <3>5. QED BY <1>1, <1>2, <2>2, <3>2, <3>4
  <2>3. QED BY <2>1, <2>2
<1>7. Aggregate(m, n) = [m EXCEPT !.stap = more, !.size = size]
  BY DEF Aggregate, piece
<1> HIDE DEF more, size
<1>8. Filled([m EXCEPT !.stap = more, !.size = size])
  <2>1. [m EXCEPT !.stap = more, !.size = size].stap = more
        /\ [m EXCEPT !.stap = more, !.size = size].size = size
    BY DEF Goods
  <2>2. QED BY <1>6, <2>1 DEF Filled
<1>9. [m EXCEPT !.stap = more, !.size = size]
        \in [series: Seq(Seq(Made)), stap: Seq(Pieces), size: 0..MaxPayload, sps: BOOLEAN]
  BY <1>3, <1>4 DEF Goods
<1>10. QED BY <1>7, <1>8, <1>9 DEF Goods

LEMMA PacketizeGood ==
  ASSUME setup \in Setups, NEW m \in Goods, NEW n \in DOMAIN setup.nals
  PROVE  Packetize(m, n) \in Goods
<1>1. Flush(m) \in Goods /\ Flush(m).stap = <<>>
  BY FlushGood
<1>2. SendNal(m, n) \in Goods /\ SendNal(Flush(m), n) \in Goods
  BY <1>1, SendGood
<1>3. ASSUME Fits(m, n) PROVE Aggregate(m, n) \in Goods
  BY <1>3, AggregateGood
<1>4. ASSUME ~(Size(n) + 3 > MaxPayload) PROVE Aggregate(Flush(m), n) \in Goods
  <2>1. Size(n) \in Nat /\ MaxPayload \in Nat
    BY Units, RtpAssumption
  <2>2. Fits(Flush(m), n)
    BY <1>1, <1>4, <2>1 DEF Fits
  <2>3. QED BY <1>1, <2>2, AggregateGood
<1>5. QED BY <1>2, <1>3, <1>4, Zenon DEF Packetize

\* What the loop makes of the first k units, from what it made of those before.
LEMMA PacketizedSteps ==
  ASSUME setup \in Setups, NEW b \in Goods, NEW nals \in Seq(DOMAIN setup.nals)
  PROVE  \E g : /\ g[0] = b /\ FoldLeft(Packetize, b, nals) = g[Len(nals)]
                /\ \A k \in 0..Len(nals) : g[k] \in Goods
                /\ \A k \in 1..Len(nals) : g[k] = Packetize(g[k - 1], nals[k])
<1> DEFINE n == Len(nals)
           F == [i \in 1..n |-> [v \in Goods |-> Packetize(v, nals[i])]]
           G(g) == g = [t \in SUBSET (1..n) |->
                          IF t = {} THEN b ELSE Packetize(g[t \ {Max(t)}], nals[Max(t)])]
<1>1. n \in Nat /\ DOMAIN nals = 1..n /\ \A i \in 1..n : nals[i] \in DOMAIN setup.nals
  BY ElementOfSeq
<1>2. F \in [1..n -> [Goods -> Goods]]
  BY <1>1, PacketizeGood
<1>3. FoldLeft(Packetize, b, nals)
        = (CHOOSE g : g = [t \in SUBSET (DOMAIN nals) |->
             IF t = {} THEN b ELSE Packetize(g[t \ {Max(t)}], nals[Max(t)])])[DOMAIN nals]
  BY DEF FoldLeft, MapThenFoldSet
<1>4. FoldLeft(Packetize, b, nals) = (CHOOSE g : G(g))[1..n]
  BY <1>1, <1>3, Zenon
<1>5. \A t \in SUBSET (1..n) : t # {} => Max(t) \in 1..n
  BY <1>1, LastChooses DEF Chooses
<1> HIDE DEF n
<1>6. ASSUME NEW i \in 1..n, NEW v \in Goods PROVE F[i][v] = Packetize(v, nals[i])
  OBVIOUS
<1>7. \E g : G(g)
  <2>1. PICK g \in [SUBSET (1..n) -> Goods] : Folds(g, F, b, n)
    <3> HIDE DEF F
    <3>1. QED BY <1>1, <1>2, LeftFoldExists, Zenon
  <2> HIDE DEF F
  <2>2. ASSUME NEW t \in SUBSET (1..n), t # {}
        PROVE  F[Max(t)][g[t \ {Max(t)}]] = Packetize(g[t \ {Max(t)}], nals[Max(t)])
    <3>1. Max(t) \in 1..n /\ g[t \ {Max(t)}] \in Goods
      BY <1>5, <2>2
    <3>2. QED BY <1>6, <3>1
  <2>3. G(g)
    BY <2>1, <2>2, Zenon DEF Folds, G
  <2>4. QED BY <2>3
<1> HIDE DEF G
<1>8. PICK g : G(g) /\ FoldLeft(Packetize, b, nals) = g[1..n]
  BY <1>4, <1>7
<1> HIDE DEF F
<1>9. Follows(g, F, Goods, b, n)
  <2>1. \A t \in SUBSET (1..n) :
          g[t] = IF t = {} THEN b ELSE Packetize(g[t \ {Max(t)}], nals[Max(t)])
    BY <1>8, Zenon DEF G
  <2>2. g[{}] = b
    BY <2>1
  <2>3. ASSUME NEW t \in SUBSET (1..n), t # {}, g[t \ {Max(t)}] \in Goods
        PROVE  g[t] = F[Max(t)][g[t \ {Max(t)}]]
    BY <1>5, <1>6, <2>1, <2>3
  <2>4. QED BY <2>2, <2>3 DEF Follows
<1>10. Steps(g, F, b, n) /\ \A k \in 0..n : g[1..k] \in Goods
  BY <1>1, <1>2, <1>9, LeftFoldSteps, Zenon
<1> DEFINE h == [k \in 0..n |-> g[1..k]]
<1>11. ASSUME NEW k \in 1..n PROVE h[k] = Packetize(h[k - 1], nals[k])
  <2>1. k \in 0..n /\ k > 0 /\ k - 1 \in 0..n
    BY <1>1
  <2>2. g[1..k] = F[k][g[1..(k - 1)]] /\ g[1..(k - 1)] \in Goods
    BY <1>10, <2>1, Zenon DEF Steps
  <2>3. QED BY <1>6, <2>1, <2>2
<1>12. h[0] = b /\ h[n] = g[1..n] /\ \A k \in 0..n : h[k] \in Goods
  BY <1>1, <1>10 DEF Steps
<1> HIDE DEF h
<1>13. QED BY <1>8, <1>11, <1>12 DEF n

LEMMA PacketizedGood ==
  ASSUME setup \in Setups, NEW b \in Goods, NEW nals \in Seq(DOMAIN setup.nals)
  PROVE  FoldLeft(Packetize, b, nals) \in Goods
<1>1. Len(nals) \in 0..Len(nals)
  OBVIOUS
<1>2. QED BY <1>1, PacketizedSteps, Zenon

-----------------------------------------------------------------------------
(* Types, and with them what the bucket is asked for. *)

\* A packet of a buffer fits, and its place is there when the channel plays; one
\* under way has its place.
Outgoing == {p \in Packets : /\ PayloadSize(p) \in 0..MaxPayload
                             /\ playing => p.unit \in DOMAIN units}
Flying == {p \in Packets : p.unit \in DOMAIN units}

SenderTypes ==
  /\ setup \in Setups /\ at \in 0..Len(setup.ends) /\ sps \in BOOLEAN /\ playing \in BOOLEAN
  /\ seq \in Seqs /\ units \in Seq(SUBSET DOMAIN setup.nals) /\ pending \in Seq(Outgoing)
NetworkTypes ==
  /\ net \in Seq(Flying) /\ lost \in 0..setup.losses
  /\ hit \subseteq DOMAIN units /\ cut \subseteq hit
FrameTypes ==
  /\ currentNal \in Seq(Pieces) /\ containsMissing \in BOOLEAN /\ framingError \in BOOLEAN
  /\ out \in Seq(Seq(Pieces))
WaitingTypes ==
  /\ DOMAIN rtpData \subseteq Seqs
  /\ \A s \in DOMAIN rtpData : rtpData[s] \in Packets /\ rtpData[s].seq = s
ReceiverTypes ==
  /\ running \in BOOLEAN /\ stops \in 0..setup.stops /\ some \in BOOLEAN /\ seqLast \in Seqs
  /\ WaitingTypes /\ FrameTypes
Largest == MaxPayload + HeaderSize
ShaperInv == since \in 0..MaxSince /\ sleeping \in BOOLEAN /\ BInv(setup.shaper, Largest)

IInv == SenderTypes /\ NetworkTypes /\ ReceiverTypes /\ ShaperInv

\* The NAL units of the next buffer.
LEMMA NextNals ==
  ASSUME setup \in Setups, at \in 0..Len(setup.ends), at < Len(setup.ends),
         NEW from, from = (IF at = 0 THEN 1 ELSE setup.ends[at] + 1)
  PROVE  [i \in 1..setup.ends[at + 1] - from + 1 |-> from + i - 1] \in Seq(DOMAIN setup.nals)
<1>1. PICK len \in Nat : len = Len(setup.nals) /\ DOMAIN setup.nals = 1..len
  BY SetupFacts
<1>2. PICK k \in Nat : k = Len(setup.ends) /\ DOMAIN setup.ends = 1..k
  BY SetupFacts
<1>3. \A i \in 1..k : setup.ends[i] \in 1..len
  BY <1>1, <1>2, SetupFacts
<1>4. at + 1 \in 1..k /\ (at # 0 => at \in 1..k)
  BY <1>2
<1>5. PICK e \in 1..len : e = setup.ends[at + 1]
  BY <1>3, <1>4
<1>6. from \in Nat /\ from >= 1
  BY <1>3, <1>4
<1>7. PICK n \in Nat : 1..(e - from + 1) = 1..n /\ n <= IF e >= from THEN e - from + 1 ELSE 0
  <2>1. CASE e >= from
    <3>1. e - from + 1 \in Nat
      BY <1>6, <2>1
    <3>2. QED BY <2>1, <3>1
  <2>2. CASE ~(e >= from)
    <3>1. 1..(e - from + 1) = 1..0
      BY <1>6, <2>2
    <3>2. QED BY <2>2, <3>1
  <2>3. QED BY <2>1, <2>2
<1>8. \A i \in 1..n : from + i - 1 \in 1..len
  BY <1>6, <1>7, SMTT(30)
<1>9. [i \in 1..n |-> from + i - 1] \in Seq(DOMAIN setup.nals)
  BY <1>1, <1>8
<1>10. QED BY <1>5, <1>7, <1>9, Zenon

\* A packet that gets its place.
LEMMA Placed ==
  ASSUME setup \in Setups, NEW p \in Made, NEW k \in Nat \ {0}
  PROVE  /\ [p EXCEPT !.unit = k] \in Packets /\ [p EXCEPT !.unit = k].unit = k
         /\ PayloadSize([p EXCEPT !.unit = k]) \in 0..MaxPayload
<1>1. /\ p \in [type: {1, 24, 28}, start: BOOLEAN, end: BOOLEAN, last: BOOLEAN,
                 pieces: Seq(Pieces), unit: {0}, seq: {0}]
      /\ PayloadSize(p) \in 0..MaxPayload
  BY DEF Made
<1>2. 0 \in Seqs
  BY RtpAssumption DEF Seqs
<1> DEFINE q == [p EXCEPT !.unit = k]
<1>3. q \in Packets /\ q.unit = k /\ q.type = p.type /\ q.start = p.start /\ q.pieces = p.pieces
  BY <1>1, <1>2 DEF Packets
<1>4. Shape(p)
  BY <1>1, PiecesAreSpans DEF Shape
<1> HIDE DEF q
<1>5. PayloadSize(q) = PayloadSize(p)
  BY <1>3, <1>4, PayloadSame
<1>6. QED BY <1>1, <1>3, <1>5 DEF q

LEMMA NalsTyped ==
  ASSUME setup \in Setups, NEW series \in Seq(Made)
  PROVE  NalsOf(series) \subseteq DOMAIN setup.nals
<1>1. ASSUME NEW p \in ToSet(series) PROVE p.pieces \in Seq(Pieces)
  <2>1. p \in Made
    BY ElementOfSeq DEF ToSet
  <2>2. QED BY <2>1 DEF Made
<1>2. ASSUME NEW p \in ToSet(series), NEW piece \in ToSet(p.pieces)
      PROVE  piece.nal \in DOMAIN setup.nals
  <2>1. piece \in Pieces
    BY <1>1, ElementOfSeq DEF ToSet
  <2>2. QED BY <2>1 DEF Pieces
<1>3. QED BY <1>2 DEF NalsOf

\* What a step leaves alone stays well-typed.
LEMMA PacketsStay ==
  ASSUME setup' = setup
  PROVE  Packets' = Packets /\ Pieces' = Pieces
BY DEF Packets, Pieces

LEMMA ReceiverStays ==
  ASSUME setup' = setup, UNCHANGED receiver, ReceiverTypes
  PROVE  ReceiverTypes'
<1>1. Packets' = Packets /\ Pieces' = Pieces
  BY PacketsStay
<1>2. /\ UNCHANGED <<running, stops, some, seqLast, rtpData>>
      /\ UNCHANGED <<currentNal, containsMissing, framingError, out>>
  BY DEF receiver, frame
<1>3. WaitingTypes'
  BY <1>1, <1>2 DEF ReceiverTypes, WaitingTypes
<1>4. FrameTypes'
  BY <1>1, <1>2 DEF ReceiverTypes, FrameTypes
<1>5. QED BY <1>2, <1>3, <1>4 DEF ReceiverTypes

LEMMA ShaperStays ==
  ASSUME setup' = setup, UNCHANGED bucket, ShaperInv
  PROVE  ShaperInv'
<1>1. UNCHANGED <<left, since, sleeping, exact, window>> /\ UNCHANGED setup.shaper
  BY DEF bucket
<1>2. BInv(setup.shaper, Largest)'
  BY <1>1 DEF ShaperInv, BInv, Largest
<1>3. QED BY <1>1, <1>2 DEF ShaperInv

LEMMA SendStep == IInv /\ Send => IInv'
<1> SUFFICES ASSUME IInv, Send PROVE IInv'
  OBVIOUS
<1> DEFINE from == IF at = 0 THEN 1 ELSE setup.ends[at] + 1
           nals == [i \in 1..setup.ends[at + 1] - from + 1 |-> from + i - 1]
           empty == [series |-> <<>>, stap |-> <<>>, size |-> 0, sps |-> sps]
           made == Flush(FoldLeft(Packetize, empty, nals))
           place(m, u, j) == [m.series[u][j] EXCEPT !.unit = Len(units) + u]
           placed(m) == [u \in DOMAIN m.series |-> [j \in DOMAIN m.series[u] |-> place(m, u, j)]]
           units2(m) == [u \in DOMAIN m.series |-> NalsOf(m.series[u])]
<1>1. /\ setup \in Setups /\ at \in 0..Len(setup.ends) /\ sps \in BOOLEAN /\ playing \in BOOLEAN
      /\ seq \in Seqs /\ units \in Seq(SUBSET DOMAIN setup.nals)
  BY DEF IInv, SenderTypes
<1>2. PICK m : /\ m = made /\ sps' = m.sps /\ pending' = FlattenSeq(placed(m))
               /\ units' = IF playing THEN units \o units2(m) ELSE units
  BY Zenon DEF Send
<1>3. m \in Goods
  <2>1. nals \in Seq(DOMAIN setup.nals)
    BY <1>1, NextNals DEF Send
  <2>2. empty \in Goods
    <3>1. 0 \in 0..MaxPayload /\ <<>> \in Seq(Seq(Made)) /\ <<>> \in Seq(Pieces)
      BY RtpAssumption
    <3> HIDE DEF Made
    <3>2. QED BY <1>1, <3>1 DEF Goods, Filled
  <2> HIDE DEF nals, empty
  <2>3. FoldLeft(Packetize, empty, nals) \in Goods
    BY <1>1, <2>1, <2>2, PacketizedGood
  <2>4. QED BY <1>1, <1>2, <2>3, FlushGood
<1> HIDE DEF made, nals, empty, from
<1>4. UNCHANGED <<setup, playing, seq, bucket, network, receiver>> /\ at' = at + 1 /\ at < Len(setup.ends)
  BY Zenon DEF Send
<1>5. PICK n \in Nat : n = Len(m.series) /\ DOMAIN m.series = 1..n
  BY <1>3 DEF Goods
<1>6. \A u \in 1..n : m.series[u] \in Seq(Made)
  <2>1. m.series \in Seq(Seq(Made))
    BY <1>3 DEF Goods
  <2>2. QED BY <1>5, <2>1, ElementOfSeq
<1>7. PICK c \in Nat : c = Len(units) /\ DOMAIN units = 1..c
  BY <1>1
<1>8. /\ units2(m) \in Seq(SUBSET DOMAIN setup.nals)
      /\ units' \in Seq(SUBSET DOMAIN setup.nals) /\ DOMAIN units \subseteq DOMAIN units'
      /\ playing => DOMAIN units' = 1..(c + n)
  <2>1. \A u \in 1..n : NalsOf(m.series[u]) \in SUBSET DOMAIN setup.nals
    BY <1>1, <1>6, NalsTyped
  <2>2. units2(m) \in Seq(SUBSET DOMAIN setup.nals) /\ Len(units2(m)) = n
    BY <1>5, <2>1
  <2> HIDE DEF units2
  <2>3. CASE playing
    <3>1. units' = units \o units2(m)
      BY <1>2, <2>3, Zenon
    <3>2. units' \in Seq(SUBSET DOMAIN setup.nals) /\ Len(units') = c + n
      <4>0. PICK D : D = SUBSET DOMAIN setup.nals
        OBVIOUS
      <4>1. PICK v \in Seq(D), w \in Seq(D) : v = units /\ w = units2(m) /\ Len(w) = n
        BY <1>1, <2>2, <4>0
      <4>2. v \o w \in Seq(D) /\ Len(v \o w) = Len(v) + n
        BY <4>1
      <4>3. QED BY <1>7, <3>1, <4>0, <4>1, <4>2
    <3>3. DOMAIN units' = 1..(c + n)
      BY <3>2
    <3>4. QED BY <1>7, <2>2, <3>2, <3>3
  <2>4. CASE ~playing
    BY <1>1, <1>2, <2>2, <2>4
  <2>5. QED BY <2>3, <2>4
<1>9. Packets' = Packets /\ Pieces' = Pieces
  BY <1>4, PacketsStay
<1>10. PICK O : O = {p \in Packets : /\ PayloadSize(p) \in 0..MaxPayload
                                     /\ playing => p.unit \in DOMAIN units'}
  OBVIOUS
<1>11. Outgoing' = O
  BY <1>4, <1>9, <1>10, Zenon DEF Outgoing
<1>12. pending' \in Seq(O)
  <2>1. ASSUME NEW u \in 1..n, NEW j \in DOMAIN m.series[u] PROVE place(m, u, j) \in O
    <3>1. PICK p \in Made : p = m.series[u][j]
      BY <1>6, <2>1, ElementOfSeq
    <3>2. PICK k \in Nat \ {0} : k = Len(units) + u
      BY <1>7
    <3>3. /\ [p EXCEPT !.unit = k] \in Packets /\ [p EXCEPT !.unit = k].unit = k
          /\ PayloadSize([p EXCEPT !.unit = k]) \in 0..MaxPayload
      BY <1>1, Placed
    <3>4. playing => k \in DOMAIN units'
      BY <1>7, <1>8, <3>2
    <3>5. place(m, u, j) = [p EXCEPT !.unit = k]
      BY <3>1, <3>2
    <3> HIDE DEF place
    <3>6. QED BY <1>10, <3>3, <3>4, <3>5
  <2> HIDE DEF place
  <2>2. ASSUME NEW u \in 1..n PROVE [j \in DOMAIN m.series[u] |-> place(m, u, j)] \in Seq(O)
    <3>1. PICK k \in Nat : DOMAIN m.series[u] = 1..k
      BY <1>6
    <3>2. QED BY <2>1, <3>1
  <2>3. placed(m) \in Seq(Seq(O))
    <3> DEFINE row(u) == [j \in DOMAIN m.series[u] |-> place(m, u, j)]
    <3>1. \A u \in 1..n : row(u) \in Seq(O)
      BY <2>2
    <3> HIDE DEF row
    <3>2. [u \in 1..n |-> row(u)] \in Seq(Seq(O))
      BY <3>1
    <3>3. QED BY <1>5, <3>2 DEF row
  <2>4. FlattenSeq(placed(m)) \in Seq(O)
    BY <2>3, Flattened
  <2>5. QED BY <1>2, <2>4
<1>13. SenderTypes'
  <2>1. at' \in 0..Len(setup'.ends)
    <3>1. Len(setup.ends) \in Nat
      BY <1>1, SetupFacts
    <3>2. QED BY <1>1, <1>4, <3>1
  <2>2. sps' \in BOOLEAN
    BY <1>2, <1>3 DEF Goods
  <2>3. QED BY <1>1, <1>4, <1>8, <1>11, <1>12, <2>1, <2>2 DEF SenderTypes
<1>14. NetworkTypes'
  <2>1. Flying \subseteq Flying'
    BY <1>8, <1>9 DEF Flying
  <2>2. /\ net \in Seq(Flying) /\ lost \in 0..setup.losses
        /\ hit \subseteq DOMAIN units /\ cut \subseteq hit
    BY DEF IInv, NetworkTypes
  <2>3. net \in Seq(Flying')
    BY <2>1, <2>2
  <2>4. QED BY <1>4, <1>8, <2>2, <2>3 DEF NetworkTypes, network
<1>15. ReceiverTypes' /\ ShaperInv'
  <2>1. ReceiverTypes /\ ShaperInv
    BY DEF IInv
  <2>2. QED BY <1>4, <2>1, ReceiverStays, ShaperStays, Zenon
<1>16. QED BY <1>13, <1>14, <1>15 DEF IInv

\* The bucket is asked for the bytes of a packet that fits.
LEMMA ShaperStep ==
  ASSUME setup' = setup, setup \in Setups, ShaperInv,
         \/ Elapse(setup.shaper)
         \/ \E count \in 0..Largest : Get(setup.shaper, count) \/ Sleep(setup.shaper, count)
  PROVE  ShaperInv'
<1>1. PICK s \in Shaper : s = setup.shaper
  BY SetupFacts
<1>2. Largest \in Nat /\ MaxSince \in Nat
  BY RtpAssumption, BucketAssumption DEF Largest
<1>3. BInv(s, Largest) /\ since \in 0..MaxSince /\ sleeping \in BOOLEAN
  BY <1>1 DEF ShaperInv
<1>4. Step(s, Largest)
  BY <1>1 DEF Step
<1>5. BInv(s, Largest)'
  BY <1>2, <1>3, <1>4, StepBInv
<1>6. since' \in 0..MaxSince /\ sleeping' \in BOOLEAN
  <2>1. CASE Elapse(s)
    BY <1>2, <1>3, <2>1 DEF Elapse
  <2>2. ASSUME NEW count \in 0..Largest, Get(s, count)
        PROVE  since' \in 0..MaxSince /\ sleeping' \in BOOLEAN
    <3>1. (since' = since \/ since' = 0) /\ (sleeping' = sleeping \/ sleeping' = FALSE)
      BY <2>2, Zenon DEF Get, bucket
    <3>2. since' \in 0..MaxSince
      BY <1>2, <1>3, <3>1
    <3>3. sleeping' \in BOOLEAN
      BY <1>3, <3>1, Zenon
    <3>4. QED BY <3>2, <3>3
  <2>3. ASSUME NEW count \in 0..Largest, Sleep(s, count)
        PROVE  since' \in 0..MaxSince /\ sleeping' \in BOOLEAN
    BY <1>2, <1>3, <2>3 DEF Sleep
  <2>4. QED BY <1>4, <2>1, <2>2, <2>3, Zenon DEF Step
<1>7. BInv(setup.shaper, Largest)'
  <2>1. s' = s /\ setup'.shaper = s
    BY <1>1
  <2>2. QED BY <1>5, <2>1 DEF BInv, Largest
<1>8. QED BY <1>6, <1>7 DEF ShaperInv

\* The packet at the head of the buffer.
LEMMA HeadFits ==
  ASSUME IInv, pending # <<>>
  PROVE  /\ Head(pending) \in Outgoing /\ Tail(pending) \in Seq(Outgoing)
         /\ PayloadSize(Head(pending)) + HeaderSize \in 0..Largest
<1>1. pending \in Seq(Outgoing)
  BY DEF IInv, SenderTypes
<1>2. Head(pending) \in Outgoing /\ Tail(pending) \in Seq(Outgoing)
  BY <1>1
<1>3. PayloadSize(Head(pending)) \in 0..MaxPayload
  BY <1>2 DEF Outgoing
<1>4. MaxPayload \in Nat /\ HeaderSize \in Nat
  BY RtpAssumption
<1>5. QED BY <1>2, <1>3, <1>4 DEF Largest

LEMMA SendPacketStep == IInv /\ SendPacket => IInv'
<1> SUFFICES ASSUME IInv, SendPacket PROVE IInv'
  OBVIOUS
<1>1. /\ SenderTypes /\ NetworkTypes /\ ReceiverTypes /\ ShaperInv
  BY DEF IInv
<1>2. UNCHANGED <<setup, at, sps, playing, units, lost, hit, cut, receiver>>
      /\ pending # <<>> /\ pending' = Tail(pending)
  BY DEF SendPacket
<1>3. Packets' = Packets /\ Outgoing' = Outgoing /\ Flying' = Flying
  <2>1. Packets' = Packets
    BY <1>2, PacketsStay
  <2>2. QED BY <1>2, <2>1, Zenon DEF Outgoing, Flying
<1>4. Head(pending) \in Outgoing /\ Tail(pending) \in Seq(Outgoing)
  BY <1>2, HeadFits
<1>5. seq' \in Seqs /\ net' \in Seq(Flying)
  <2>1. SeqModulus \in Nat \ {0} /\ seq \in Nat /\ seq \in Seqs /\ net \in Seq(Flying)
    BY <1>1, RtpAssumption DEF SenderTypes, NetworkTypes, Seqs
  <2>2. CASE ~playing
    BY <2>1, <2>2 DEF SendPacket
  <2>3. CASE playing
    <3>1. seq' = (seq + 1) % SeqModulus /\ net' = Append(net, [Head(pending) EXCEPT !.seq = seq])
      BY <2>3 DEF SendPacket, NextSeq
    <3>2. seq' \in Seqs
      BY <2>1, <3>1 DEF Seqs
    <3>3. [Head(pending) EXCEPT !.seq = seq] \in Flying
      BY <1>4, <2>1, <2>3 DEF Outgoing, Flying, Packets
    <3>4. QED BY <2>1, <3>1, <3>2, <3>3
  <2>4. QED BY <2>2, <2>3
<1>6. SenderTypes'
  BY <1>1, <1>2, <1>3, <1>4, <1>5 DEF SenderTypes, Seqs
<1>7. NetworkTypes'
  BY <1>1, <1>2, <1>3, <1>5 DEF NetworkTypes
<1>8. ReceiverTypes'
  BY <1>1, <1>2, ReceiverStays
<1>9. ShaperInv'
  <2>1. PICK count \in 0..Largest : count = PayloadSize(Head(pending)) + HeaderSize
    BY <1>2, HeadFits
  <2>2. Get(setup.shaper, count) \/ UNCHANGED bucket
    BY <2>1, Zenon DEF SendPacket
  <2>3. QED BY <1>1, <1>2, <2>2, ShaperStays, ShaperStep DEF SenderTypes
<1>10. QED BY <1>6, <1>7, <1>8, <1>9 DEF IInv

\* The sender's other variables, and the network's, stay.
LEMMA SenderStays ==
  ASSUME UNCHANGED <<setup, at, sps, playing, seq, pending, units>>, SenderTypes
  PROVE  SenderTypes'
<1>1. Packets' = Packets
  BY PacketsStay
<1>2. Outgoing' = Outgoing
  BY <1>1, Zenon DEF Outgoing
<1>3. QED BY <1>2 DEF SenderTypes, Seqs

LEMMA NetworkStays ==
  ASSUME UNCHANGED <<setup, units, network>>, NetworkTypes
  PROVE  NetworkTypes'
<1>1. Packets' = Packets
  BY PacketsStay
<1>2. Flying' = Flying
  BY <1>1, Zenon DEF Flying
<1>3. QED BY <1>2 DEF NetworkTypes, network

LEMMA ClockStep == IInv /\ (Throttle \/ Time) => IInv'
<1> SUFFICES ASSUME IInv, Throttle \/ Time PROVE IInv'
  OBVIOUS
<1>1. SenderTypes /\ NetworkTypes /\ ReceiverTypes /\ ShaperInv /\ setup \in Setups
  BY DEF IInv, SenderTypes
<1>2. UNCHANGED <<setup, at, sps, playing, seq, pending, units, network, receiver>>
  BY DEF Throttle, Time
<1>3. SenderTypes' /\ NetworkTypes' /\ ReceiverTypes'
  BY <1>1, <1>2, SenderStays, NetworkStays, ReceiverStays
<1>4. ShaperInv'
  <2>1. CASE Time
    BY <1>1, <1>2, <2>1, ShaperStep DEF Time
  <2>2. CASE Throttle
    <3>1. PICK count \in 0..Largest : count = PayloadSize(Head(pending)) + HeaderSize
      BY <2>2, HeadFits DEF Throttle
    <3>2. Sleep(setup.shaper, count)
      BY <2>2, <3>1, Zenon DEF Throttle
    <3>3. QED BY <1>1, <1>2, <3>2, ShaperStep
  <2>3. QED BY <2>1, <2>2
<1>5. QED BY <1>3, <1>4 DEF IInv

LEMMA PlayStep == IInv /\ Play => IInv'
<1> SUFFICES ASSUME IInv, Play PROVE IInv'
  OBVIOUS
<1>1. SenderTypes /\ NetworkTypes /\ ReceiverTypes /\ ShaperInv
  BY DEF IInv
<1>2. /\ UNCHANGED <<setup, at, sps, seq, pending, units, bucket, network, receiver>>
      /\ pending = <<>> /\ playing' = TRUE
  BY DEF Play
<1>3. SenderTypes'
  <2>1. pending' \in Seq(Outgoing')
    BY <1>2
  <2>2. QED BY <1>1, <1>2, <2>1 DEF SenderTypes, Seqs
<1>4. QED BY <1>1, <1>2, <1>3, NetworkStays, ReceiverStays, ShaperStays DEF IInv

\* A sequence without one of its elements.
LEMMA Removed ==
  ASSUME NEW S, NEW s \in Seq(S), NEW k \in DOMAIN s
  PROVE  RemoveAt(s, k) \in Seq(S) /\ s[k] \in S
<1>1. PICK n \in Nat : n = Len(s) /\ DOMAIN s = 1..n
  OBVIOUS
<1>2. s[k] \in S
  BY <1>1, ElementOfSeq
<1>3. SubSeq(s, 1, k - 1) \in Seq(S) /\ SubSeq(s, k + 1, n) \in Seq(S)
  BY <1>1
<1>4. QED BY <1>1, <1>2, <1>3 DEF RemoveAt

LEMMA DropStep ==
  ASSUME IInv, NEW k \in DOMAIN net, Drop(k), lost' \in 0..setup.losses,
         UNCHANGED <<setup, sender>>
  PROVE  SenderTypes' /\ NetworkTypes' /\ ShaperInv'
<1>1. UNCHANGED <<setup, at, sps, playing, seq, pending, units>> /\ UNCHANGED bucket
  BY DEF sender
<1>2. SenderTypes /\ NetworkTypes /\ ShaperInv
  BY DEF IInv
<1>3. Flying' = Flying
  <2>1. Packets' = Packets
    BY <1>1, PacketsStay
  <2>2. QED BY <1>1, <2>1, Zenon DEF Flying
<1>4. net' \in Seq(Flying) /\ net[k] \in Flying
  BY <1>2, Removed DEF NetworkTypes, Drop
<1>5. hit' \subseteq DOMAIN units /\ cut' \subseteq hit'
  BY <1>2, <1>4 DEF NetworkTypes, Drop, Flying
<1>6. QED BY <1>1, <1>2, <1>3, <1>4, <1>5, SenderStays, ShaperStays DEF NetworkTypes

LEMMA LossStep ==
  ASSUME IInv, (\E k \in DOMAIN net : Lose(k)) \/ Miss
  PROVE  IInv'
<1>1. SenderTypes /\ NetworkTypes /\ ReceiverTypes /\ ShaperInv
  BY DEF IInv
<1>2. ASSUME NEW k \in DOMAIN net, Lose(k) PROVE IInv'
  <2>1. Drop(k) /\ UNCHANGED <<setup, sender, receiver>>
    BY <1>2 DEF Lose
  <2>2. lost' \in 0..setup.losses
    <3>1. setup.losses \in Nat
      BY <1>1, SetupFacts DEF SenderTypes
    <3>2. QED BY <1>1, <1>2, <3>1 DEF Lose, NetworkTypes
  <2>3. QED BY <1>1, <2>1, <2>2, DropStep, ReceiverStays DEF IInv
<1>3. CASE Miss
  <2>1. Drop(1) /\ UNCHANGED <<setup, sender, lost, receiver>> /\ net # <<>>
    BY <1>3 DEF Miss
  <2>2. lost' \in 0..setup.losses
    BY <1>1, <2>1 DEF NetworkTypes
  <2>3. 1 \in DOMAIN net
    BY <1>1, <2>1 DEF NetworkTypes
  <2>4. QED BY <1>1, <2>1, <2>2, <2>3, DropStep, ReceiverStays DEF IInv
<1>4. QED BY <1>2, <1>3

\* The frame and what the receiver knows of the stream.
LEMMA HandleTypes ==
  ASSUME ReceiverTypes, setup' = setup, NEW p \in Packets, Handle(p)
  PROVE  some' \in BOOLEAN /\ seqLast' \in Seqs /\ FrameTypes'
<1>1. Packets' = Packets /\ Pieces' = Pieces
  BY PacketsStay
<1>2. FrameTypes
  BY DEF ReceiverTypes
<1>3. some' = TRUE /\ seqLast' \in Seqs
  BY DEF Handle, Packets
<1>4. PICK bad \in BOOLEAN, missing \in BOOLEAN, complete \in BOOLEAN, nal \in Seq(Pieces) :
        IF complete
        THEN /\ out' = IF missing \/ bad THEN out ELSE Append(out, nal)
             /\ currentNal' = <<>> /\ containsMissing' = FALSE /\ framingError' = FALSE
        ELSE /\ currentNal' = nal /\ containsMissing' = missing /\ framingError' = bad
             /\ UNCHANGED out
  <2> DEFINE fu == p.type = 28
             missing == containsMissing \/ Jumps(p)
             bad == framingError \/ (fu /\ FramesBadly(p))
             nal == (IF fu /\ p.start THEN <<>> ELSE currentNal) \o p.pieces
             complete == p.last \/ p.end \/ ~fu
  <2>1. IF complete
        THEN /\ out' = IF missing \/ bad THEN out ELSE Append(out, nal)
             /\ currentNal' = <<>> /\ containsMissing' = FALSE /\ framingError' = FALSE
        ELSE /\ currentNal' = nal /\ containsMissing' = missing /\ framingError' = bad
             /\ UNCHANGED out
    BY Zenon DEF Handle
  <2>2. nal \in Seq(Pieces)
    <3>1. p.pieces \in Seq(Pieces) /\ currentNal \in Seq(Pieces) /\ <<>> \in Seq(Pieces)
      BY <1>2 DEF Packets, FrameTypes
    <3>2. QED BY <3>1
  <2>3. missing \in BOOLEAN
    BY <1>2, Zenon DEF Jumps, FrameTypes
  <2>4. bad \in BOOLEAN
    BY <1>2, Zenon DEF FrameTypes
  <2>5. complete \in BOOLEAN
    OBVIOUS
  <2> HIDE DEF missing, bad, complete, nal
  <2>6. QED BY <2>1, <2>2, <2>3, <2>4, <2>5
<1>5. out \in Seq(Seq(Pieces)) /\ Append(out, nal) \in Seq(Seq(Pieces)) /\ <<>> \in Seq(Pieces)
  BY <1>2 DEF FrameTypes
<1>6. FrameTypes'
  BY <1>1, <1>4, <1>5 DEF FrameTypes
<1>7. QED BY <1>3, <1>6

LEMMA ReceiveStep ==
  ASSUME IInv, NEW k \in DOMAIN net, Receive(k)
  PROVE  IInv'
<1>1. SenderTypes /\ NetworkTypes /\ ReceiverTypes /\ ShaperInv
  BY DEF IInv
<1>2. UNCHANGED <<setup, sender, lost, hit, cut, running, stops>>
      /\ UNCHANGED <<setup, at, sps, playing, seq, pending, units>> /\ UNCHANGED bucket
  BY DEF Receive, sender
<1>3. Packets' = Packets /\ Pieces' = Pieces /\ Flying' = Flying
  <2>1. Packets' = Packets /\ Pieces' = Pieces
    BY <1>2, PacketsStay
  <2>2. QED BY <1>2, <2>1, Zenon DEF Flying
<1>4. net' \in Seq(Flying) /\ net[k] \in Flying
  BY <1>1, Removed DEF NetworkTypes, Receive
<1>5. NetworkTypes'
  BY <1>1, <1>2, <1>3, <1>4 DEF NetworkTypes
<1>6. PICK p \in Packets : p = net[k]
  BY <1>4 DEF Flying
<1> DEFINE waiting == DOMAIN rtpData \cup {p.seq}
           data == [s \in waiting |-> IF s = p.seq THEN p ELSE rtpData[s]]
<1>7. \A s \in waiting : s \in Seqs /\ data[s] \in Packets /\ data[s].seq = s
  BY <1>1, <1>6 DEF ReceiverTypes, WaitingTypes, Packets
<1>8. PICK key \in waiting :
        IF IsNext(key, waiting)
        THEN rtpData' = [s \in waiting \ {key} |-> data[s]] /\ Handle(data[key])
        ELSE rtpData' = data /\ UNCHANGED <<some, seqLast, frame>>
  BY <1>6, Zenon DEF Receive
<1> HIDE DEF data
<1>9. CASE IsNext(key, waiting)
  <2>1. rtpData' = [s \in waiting \ {key} |-> data[s]] /\ Handle(data[key]) /\ data[key] \in Packets
    BY <1>7, <1>8, <1>9
  <2>2. some' \in BOOLEAN /\ seqLast' \in Seqs /\ FrameTypes'
    BY <1>1, <1>2, <2>1, HandleTypes
  <2> HIDE DEF waiting
  <2>3. WaitingTypes'
    BY <1>3, <1>7, <2>1 DEF WaitingTypes, Seqs
  <2>4. ReceiverTypes'
    BY <1>1, <1>2, <2>2, <2>3 DEF ReceiverTypes, Seqs
  <2>5. QED BY <1>1, <1>2, <1>5, <2>4, SenderStays, ShaperStays DEF IInv
<1>10. CASE ~IsNext(key, waiting)
  <2>1. rtpData' = data /\ UNCHANGED <<some, seqLast, frame>> /\ DOMAIN data = waiting
    BY <1>8, <1>10 DEF data
  <2> HIDE DEF waiting
  <2>2. WaitingTypes'
    BY <1>3, <1>7, <2>1 DEF WaitingTypes, Seqs
  <2>3. FrameTypes'
    BY <1>1, <1>3, <2>1 DEF ReceiverTypes, FrameTypes, frame
  <2>4. ReceiverTypes'
    BY <1>1, <1>2, <2>1, <2>2, <2>3 DEF ReceiverTypes, Seqs
  <2>5. QED BY <1>1, <1>2, <1>5, <2>4, SenderStays, ShaperStays DEF IInv
<1>11. QED BY <1>9, <1>10

LEMMA StopStartStep == IInv /\ (Stop \/ Start) => IInv'
<1> SUFFICES ASSUME IInv, Stop \/ Start PROVE IInv'
  OBVIOUS
<1>1. SenderTypes /\ NetworkTypes /\ ReceiverTypes /\ ShaperInv
  BY DEF IInv
<1>2. /\ UNCHANGED <<setup, at, sps, playing, seq, pending, units>> /\ UNCHANGED bucket
      /\ UNCHANGED network /\ UNCHANGED <<rtpData, currentNal, out>> /\ running' \in BOOLEAN
  BY DEF Stop, Start, sender, frame
<1>3. Packets' = Packets /\ Pieces' = Pieces
  BY <1>2, PacketsStay
<1>4. /\ some' \in BOOLEAN /\ seqLast' \in Seqs
      /\ containsMissing' \in BOOLEAN /\ framingError' \in BOOLEAN
  <2>1. 0 \in Seqs
    BY RtpAssumption DEF Seqs
  <2>2. QED BY <1>1, <2>1 DEF Stop, Start, ReceiverTypes, FrameTypes, frame
<1>5. stops' \in 0..setup.stops
  <2>1. setup.stops \in Nat
    BY <1>1, SetupFacts DEF SenderTypes
  <2>2. QED BY <1>1, <2>1 DEF Stop, Start, ReceiverTypes
<1>6. WaitingTypes' /\ FrameTypes'
  BY <1>1, <1>2, <1>3, <1>4 DEF ReceiverTypes, WaitingTypes, FrameTypes, Seqs
<1>7. ReceiverTypes'
  BY <1>2, <1>4, <1>5, <1>6 DEF ReceiverTypes, Seqs
<1>8. QED BY <1>1, <1>2, <1>7, SenderStays, NetworkStays, ShaperStays DEF IInv

LEMMA InitIInv == Init => IInv
<1> SUFFICES ASSUME Init PROVE IInv
  OBVIOUS
<1>1. setup \in Setups /\ MaxSince \in Nat
  BY BucketAssumption DEF Init
<1>2. SenderTypes
  <2>1. Len(setup.ends) \in Nat
    BY <1>1, SetupFacts
  <2>2. at = 0 /\ sps = FALSE /\ seq \in setup.first /\ pending = <<>> /\ units = <<>>
    BY Zenon DEF Init
  <2>3. playing \in BOOLEAN
    BY Zenon DEF Init
  <2>4. seq \in Seqs
    BY <1>1, <2>2, SetupFacts
  <2>5. <<>> \in Seq(Outgoing) /\ <<>> \in Seq(SUBSET DOMAIN setup.nals)
    OBVIOUS
  <2>6. at \in 0..Len(setup.ends)
    BY <2>1, <2>2
  <2>7. pending \in Seq(Outgoing) /\ units \in Seq(SUBSET DOMAIN setup.nals)
    BY <2>2, <2>5, Zenon
  <2>8. QED BY <1>1, <2>2, <2>3, <2>4, <2>6, <2>7, Zenon DEF SenderTypes
<1>3. NetworkTypes
  BY <1>1, SetupFacts DEF Init, NetworkTypes
<1>4. ReceiverTypes
  <2>1. 0 \in Seqs /\ setup.stops \in Nat
    BY <1>1, SetupFacts, RtpAssumption DEF Seqs
  <2>2. /\ running = TRUE /\ stops = 0 /\ some = FALSE /\ seqLast = 0 /\ rtpData = <<>>
        /\ currentNal = <<>> /\ containsMissing = FALSE /\ framingError = FALSE /\ out = <<>>
    BY Zenon DEF Init
  <2>3. DOMAIN rtpData = {} /\ <<>> \in Seq(Pieces) /\ <<>> \in Seq(Seq(Pieces))
    BY <2>2
  <2>4. WaitingTypes
    BY <2>3, Zenon DEF WaitingTypes
  <2>5. FrameTypes
    BY <2>2, <2>3, Zenon DEF FrameTypes
  <2>6. stops \in 0..setup.stops /\ seqLast \in Seqs
    BY <2>1, <2>2
  <2>7. QED BY <2>2, <2>4, <2>5, <2>6, Zenon DEF ReceiverTypes
<1>5. ShaperInv
  <2>1. PICK s \in Shaper : s = setup.shaper
    BY <1>1, SetupFacts
  <2>2. Largest \in Nat
    BY RtpAssumption DEF Largest
  <2>3. InitBucket(s)
    BY <2>1 DEF Init
  <2>4. BInv(s, Largest)
    BY <2>2, <2>3, BInvStarts
  <2>5. since \in 0..MaxSince /\ sleeping \in BOOLEAN
    <3>1. since = 0 /\ sleeping = FALSE
      BY <2>3, Zenon DEF InitBucket
    <3>2. since \in 0..MaxSince
      BY <1>1, <3>1
    <3>3. QED BY <3>1, <3>2, Zenon
  <2>6. BInv(setup.shaper, Largest)
    BY <2>1, <2>4, Zenon
  <2>7. QED BY <2>5, <2>6 DEF ShaperInv
<1>6. QED BY <1>2, <1>3, <1>4, <1>5 DEF IInv

LEMMA NextIInv == IInv /\ [Next]_vars => IInv'
<1> SUFFICES ASSUME IInv, [Next]_vars PROVE IInv'
  OBVIOUS
<1>1. CASE UNCHANGED vars
  <2>1. UNCHANGED <<setup, at, sps, playing, seq, pending, units>> /\ UNCHANGED bucket
        /\ UNCHANGED network /\ UNCHANGED receiver
    BY <1>1 DEF vars, sender
  <2>2. QED BY <2>1, SenderStays, NetworkStays, ReceiverStays, ShaperStays DEF IInv
<1>2. CASE Next
  BY <1>2, SendStep, SendPacketStep, ClockStep, PlayStep, LossStep, ReceiveStep, StopStartStep
     DEF Next, Sends
<1>3. QED BY <1>1, <1>2

\* Whatever is lost, overtakes, waits or is thrown away at a restart, the state has
\* its type: in particular every packet carries pieces of NAL units that were given
\* to the transmitter, and is about a frame that was sent.
THEOREM LinkTypeCorrect == Spec => []TypeOK
<1>1. IInv => TypeOK
  <2> SUFFICES ASSUME IInv PROVE TypeOK
    OBVIOUS
  <2>1. SenderTypes /\ NetworkTypes /\ ReceiverTypes /\ ShaperInv
    BY DEF IInv
  <2>2. pending \in Seq(Packets)
    BY <2>1 DEF SenderTypes, Outgoing
  <2>3. net \in Seq(Packets)
    BY <2>1 DEF NetworkTypes, Flying
  <2>4. BucketTyped(setup.shaper)
    BY <2>1 DEF ShaperInv, BInv, BucketTyped
  <2>5. QED BY <2>1, <2>2, <2>3, <2>4
       DEF TypeOK, SenderTypes, NetworkTypes, ReceiverTypes, WaitingTypes, FrameTypes
<1>2. QED BY <1>1, InitIInv, NextIInv, PTL DEF Spec

\* No stream makes packets that the bucket would let go faster than its parameters
\* say, and no aggregate or fragment is larger than the leaky bucket's debt allows.
THEOREM LinkRateBounded == Spec => []RateBound
<1>1. IInv => RateBound
  <2> SUFFICES ASSUME IInv PROVE RateBound
    OBVIOUS
  <2>1. PICK s \in Shaper : s = setup.shaper
    BY SetupFacts DEF IInv, SenderTypes
  <2>2. BInv(s, Largest)
    BY <2>1 DEF IInv, ShaperInv
  <2>3. Largest \in Nat
    BY RtpAssumption DEF Largest
  <2>4. Conforms(s, Largest)
    BY <2>2, <2>3, BInvConforms
  <2>5. QED BY <2>1, <2>4 DEF RateBound, Largest
<1>2. QED BY <1>1, InitIInv, NextIInv, PTL DEF Spec

-----------------------------------------------------------------------------
(* Whole frames.  A unit's fragments follow one another in the numbers: what *)
(* FramesInv says of every packet that is under way or waits, and of what    *)
(* the receiver has put together.                                            *)

\* The number after s, and how far s is from the first number f.
After(s) == IF s = SeqModulus - 1 THEN 0 ELSE s + 1
Ahead(f, s) == IF s >= f THEN s - f ELSE s - f + SeqModulus
Used(f, s) == Ahead(f, s) < Ahead(f, seq)

\* The rest of a NAL unit is still to come after the packet p, and q goes on with it.
Begun(p) == p.type = 28 /\ ~p.last /\ ~p.end
GoesOn(piece, q) == /\ q.type = 28 /\ ~q.start
                    /\ q.pieces[1].nal = piece.nal /\ q.pieces[1].from = piece.to + 1

\* Whole units, or a fragment whose flags tell where it begins and ends.
WellMade(p) ==
  IF p.type = 28
  THEN /\ Len(p.pieces) = 1 /\ p.end = p.last
       /\ p.start => p.pieces[1].from = 1
       /\ p.end => p.pieces[1].to = Size(p.pieces[1].nal)
  ELSE Whole(p.pieces)

\* Packets of which each that leaves a unit begun is followed by one that goes on.
InSeries(s) ==
  \A i \in DOMAIN s :
    WellMade(s[i]) /\ (Begun(s[i]) => i + 1 \in DOMAIN s /\ GoesOn(s[i].pieces[1], s[i + 1]))

\* A NAL unit up to somewhere.
Beginning(f) ==
  \A k \in DOMAIN f : f[k].nal = f[1].nal /\ f[k].from = (IF k = 1 THEN 1 ELSE f[k - 1].to + 1)

Alive == {net[k] : k \in DOMAIN net} \cup {rtpData[s] : s \in DOMAIN rtpData}

\* What is under way or waits has numbers that were used, and a packet that leaves a
\* unit begun is followed by the one that goes on, if that is not lost: when it is
\* under way too, and when it is the next to be sent.
LinksKept(f) ==
  /\ \A p \in Alive : WellMade(p) /\ Used(f, p.seq)
  /\ \A p, q \in Alive : q.seq = After(p.seq) /\ Begun(p) => GoesOn(p.pieces[1], q)
  /\ \A p \in Alive : seq = After(p.seq) /\ Begun(p) =>
       pending # <<>> /\ GoesOn(p.pieces[1], Head(pending))

\* So is what the receiver has put together, unless it is to be thrown away.
Clean == currentNal # <<>> /\ ~containsMissing /\ ~framingError
FrameKept(f) ==
  Clean =>
    /\ Beginning(currentNal) /\ some /\ Used(f, seqLast)
    /\ \A q \in Alive : q.seq = After(seqLast) => GoesOn(currentNal[Len(currentNal)], q)
    /\ seq = After(seqLast) =>
         pending # <<>> /\ GoesOn(currentNal[Len(currentNal)], Head(pending))

Quiet == ~playing => net = <<>> /\ DOMAIN rtpData = {} /\ currentNal = <<>>

FramesInv(f) == /\ setup.stops = 0 /\ running
                /\ InSeries(pending) /\ Quiet /\ LinksKept(f) /\ FrameKept(f) /\ WholeFrames
-----------------------------------------------------------------------------
(* What a packet is made of, and what follows it. *)

\* A NAL unit's packets: itself, or fragments each of which goes on with the last.
LEMMA NalPacketsSeries ==
  ASSUME setup \in Setups, NEW n \in DOMAIN setup.nals
  PROVE  InSeries(NalPackets(n))
<1>1. MaxPayload \in Nat /\ MaxPayload > 3 /\ n \in Nat /\ Size(n) \in Nat \ {0}
  BY RtpAssumption, Units
<1>2. CASE Size(n) <= MaxPayload
  <2>1. PICK x : x = Piece(n, 1, Size(n))
    OBVIOUS
  <2>2. PICK p : p = Packet(1, FALSE, FALSE, TRUE, <<x>>)
    OBVIOUS
  <2>3. NalPackets(n) = <<p>>
    BY <1>2, <2>1, <2>2, Zenon DEF NalPackets
  <2>4. Whole(<<x>>)
    <3>1. x.nal = n /\ x.from = 1 /\ x.to = Size(n)
      BY <2>1 DEF Piece
    <3>2. QED BY <3>1 DEF Whole
  <2>5. WellMade(p) /\ ~Begun(p)
    <3>1. p.type = 1 /\ p.pieces = <<x>>
      BY <2>2 DEF Packet
    <3>2. QED BY <2>4, <3>1 DEF WellMade, Begun
  <2>6. \A i \in DOMAIN <<p>> : <<p>>[i] = p
    OBVIOUS
  <2>7. InSeries(<<p>>)
    BY <2>5, <2>6, Zenon DEF InSeries
  <2>8. QED BY <2>3, <2>7
<1>3. CASE Size(n) > MaxPayload
  <2>1. PICK c \in Nat : c = MaxPayload - 2 /\ c >= 2
    BY <1>1
  <2>2. PICK q \in Nat, r \in 0..c - 1 : q = (Size(n) - 2) \div c /\ Size(n) - 2 = q * c + r
    <3>1. Size(n) - 2 \in Nat /\ c \in Nat \ {0}
      BY <1>1, <1>3, <2>1
    <3>2. QED BY <3>1, Division
  <2>3. PICK m \in Nat \ {0} : Fragments(n) = m
    BY <2>1, <2>2 DEF Fragments
  <2> DEFINE s == [j \in 1..m |-> Packet(28, j = 1, j = m, j = m, <<Part(n, j, m)>>)]
  <2>4. NalPackets(n) = s
    BY <1>1, <1>3, <2>3 DEF NalPackets
  <2>5. ASSUME NEW i \in 1..m
        PROVE  /\ s[i].type = 28 /\ s[i].end = s[i].last /\ s[i].pieces = <<Part(n, i, m)>>
               /\ (s[i].start => i = 1) /\ (s[i].last <=> i = m)
    BY DEF Packet
  <2>6. ASSUME NEW i \in 1..m
        PROVE  /\ Part(n, i, m).nal = n
               /\ Part(n, i, m).from = (IF i = 1 THEN 1 ELSE (i - 1) * c + 2)
               /\ Part(n, i, m).to = (IF i = m THEN Size(n) ELSE i * c + 1)
    BY <2>1, Zenon DEF Part, Piece
  <2> HIDE DEF s
  <2>7. ASSUME NEW i \in 1..m PROVE WellMade(s[i])
    <3>1. PICK x : x = Part(n, i, m)
      OBVIOUS
    <3>2. s[i].pieces = <<x>> /\ Len(<<x>>) = 1 /\ <<x>>[1] = x
      BY <2>5, <3>1
    <3>3. x.nal = n /\ (i = 1 => x.from = 1) /\ (i = m => x.to = Size(n))
      BY <2>6, <3>1
    <3>4. /\ s[i].type = 28 /\ s[i].end = s[i].last /\ s[i].pieces[1] = x /\ Len(s[i].pieces) = 1
          /\ s[i].start => x.from = 1
          /\ s[i].end => x.to = Size(x.nal)
      BY <2>5, <3>2, <3>3, Zenon
    <3>5. QED BY <3>4, Zenon DEF WellMade
  <2>8. ASSUME NEW i \in 1..m, Begun(s[i])
        PROVE  i + 1 \in 1..m /\ GoesOn(s[i].pieces[1], s[i + 1])
    <3>0. i # m
      BY <2>5, <2>8, Zenon DEF Begun
    <3>1. i # m /\ i + 1 \in 1..m /\ i + 1 # 1 /\ (i + 1) - 1 = i
      BY <3>0
    <3>2. PICK x, y : x = Part(n, i, m) /\ y = Part(n, i + 1, m)
      OBVIOUS
    <3>3. s[i].pieces[1] = x /\ s[i + 1].pieces[1] = y
      <4>1. s[i].pieces = <<x>> /\ s[i + 1].pieces = <<y>>
        BY <2>5, <3>1, <3>2, Zenon
      <4>2. QED BY <4>1
    <3>4. x.nal = n /\ y.nal = n /\ x.to = i * c + 1 /\ y.from = i * c + 2
      BY <2>6, <3>1, <3>2, Zenon
    <3>5. PICK z \in Int : z = i * c
      BY <2>1
    <3>6. y.from = x.to + 1
      BY <3>4, <3>5
    <3>7. s[i + 1].type = 28 /\ ~s[i + 1].start
      BY <2>5, <3>1, Zenon
    <3>8. QED BY <3>1, <3>3, <3>4, <3>6, <3>7, Zenon DEF GoesOn
  <2>9. DOMAIN s = 1..m
    BY DEF s
  <2>10. QED BY <2>4, <2>7, <2>8, <2>9 DEF InSeries
<1>4. QED BY <1>1, <1>2, <1>3

\* Series one after the other are a series.
LEMMA ConcatSeries ==
  ASSUME NEW S, NEW a \in Seq(S), NEW b \in Seq(S), InSeries(a), InSeries(b)
  PROVE  InSeries(a \o b)
<1>1. PICK m \in Nat, n \in Nat : m = Len(a) /\ n = Len(b) /\ DOMAIN a = 1..m /\ DOMAIN b = 1..n
  OBVIOUS
<1> DEFINE c == a \o b
<1>2. /\ DOMAIN c = 1..(m + n)
      /\ \A i \in 1..m : c[i] = a[i]
      /\ \A i \in 1..n : c[m + i] = b[i]
  BY <1>1
<1> HIDE DEF c
<1>3. ASSUME NEW i \in 1..m
      PROVE  WellMade(c[i]) /\ (Begun(c[i]) => i + 1 \in 1..(m + n) /\ GoesOn(c[i].pieces[1], c[i + 1]))
  <2>1. WellMade(a[i]) /\ (Begun(a[i]) => i + 1 \in 1..m /\ GoesOn(a[i].pieces[1], a[i + 1]))
    BY <1>1 DEF InSeries
  <2>2. i + 1 \in 1..m => i + 1 \in 1..(m + n) /\ c[i + 1] = a[i + 1]
    BY <1>1, <1>2
  <2>3. c[i] = a[i]
    BY <1>2
  <2>4. QED BY <2>1, <2>2, <2>3
<1>4. ASSUME NEW j \in 1..n
      PROVE  /\ WellMade(c[m + j])
             /\ Begun(c[m + j]) => /\ (m + j) + 1 \in 1..(m + n)
                                   /\ GoesOn(c[m + j].pieces[1], c[(m + j) + 1])
  <2>1. WellMade(b[j]) /\ (Begun(b[j]) => j + 1 \in 1..n /\ GoesOn(b[j].pieces[1], b[j + 1]))
    BY <1>1 DEF InSeries
  <2>2. (m + j) + 1 = m + (j + 1) /\ (j + 1 \in 1..n => m + (j + 1) \in 1..(m + n))
    BY <1>1
  <2>3. c[m + j] = b[j] /\ (j + 1 \in 1..n => c[(m + j) + 1] = b[j + 1])
    BY <1>2, <2>2
  <2> HIDE DEF c
  <2>4. PICK k : k = m + j
    OBVIOUS
  <2>5. QED BY <2>1, <2>2, <2>3, <2>4, Zenon
<1>5. \A i \in 1..(m + n) : i \in 1..m \/ \E j \in 1..n : i = m + j
  <2>1. ASSUME NEW i \in 1..(m + n), i \notin 1..m PROVE i - m \in 1..n /\ i = m + (i - m)
    BY <1>1, <2>1
  <2>2. QED BY <2>1
<1>6. \A i \in 1..(m + n) : /\ WellMade(c[i])
                            /\ Begun(c[i]) => i + 1 \in 1..(m + n) /\ GoesOn(c[i].pieces[1], c[i + 1])
  BY <1>3, <1>4, <1>5, Zenon
<1>7. InSeries(c)
  BY <1>2, <1>6, Zenon DEF InSeries
<1>8. QED BY <1>7 DEF c

\* Neither what a packet's place nor what its number is matters.
Same(p, q) == /\ q.type = p.type /\ q.start = p.start /\ q.end = p.end /\ q.last = p.last
              /\ q.pieces = p.pieces

\* The place in `units' and the number are no part of what a packet carries.
LEMMA SameMade ==
  ASSUME NEW p, NEW q, Same(p, q)
  PROVE  /\ WellMade(p) <=> WellMade(q)
         /\ Begun(p) <=> Begun(q)
         /\ \A x : GoesOn(x, p) <=> GoesOn(x, q)
<1>1. /\ q.type = p.type /\ q.start = p.start /\ q.end = p.end /\ q.last = p.last
      /\ q.pieces = p.pieces
  BY DEF Same
<1>2. WellMade(p) <=> WellMade(q)
  BY <1>1, Zenon DEF WellMade
<1>3. Begun(p) <=> Begun(q)
  BY <1>1, Zenon DEF Begun
<1>4. \A x : GoesOn(x, p) <=> GoesOn(x, q)
  BY <1>1, Zenon DEF GoesOn
<1>5. QED BY <1>2, <1>3, <1>4

\* Packets with other places and numbers are the same series.
LEMMA SameSeries ==
  ASSUME NEW s, NEW t, DOMAIN t = DOMAIN s, \A i \in DOMAIN s : Same(s[i], t[i]), InSeries(s)
  PROVE  InSeries(t)
<1>1. ASSUME NEW i \in DOMAIN s
      PROVE  WellMade(t[i]) /\ (Begun(t[i]) => i + 1 \in DOMAIN s /\ GoesOn(t[i].pieces[1], t[i + 1]))
  <2>1. WellMade(s[i]) /\ (Begun(s[i]) => i + 1 \in DOMAIN s /\ GoesOn(s[i].pieces[1], s[i + 1]))
    BY DEF InSeries
  <2>2. t[i].pieces = s[i].pieces /\ (WellMade(s[i]) <=> WellMade(t[i]))
        /\ (Begun(s[i]) <=> Begun(t[i]))
    BY SameMade, Zenon DEF Same
  <2>3. ASSUME i + 1 \in DOMAIN s
        PROVE  GoesOn(s[i].pieces[1], s[i + 1]) <=> GoesOn(s[i].pieces[1], t[i + 1])
    BY <2>3, SameMade, Zenon
  <2>4. QED BY <2>1, <2>2, <2>3
<1>2. QED BY <1>1 DEF InSeries

\* What a buffer has been made into, up to the n-th NAL unit of the stream.
Orderly(m, n) ==
  /\ \A u \in DOMAIN m.series : InSeries(m.series[u])
  /\ m.stap # <<>> => Whole(m.stap) /\ m.stap[Len(m.stap)].nal <= n

\* One series more.
LEMMA AppendOrderly ==
  ASSUME NEW S, NEW all \in Seq(Seq(S)), NEW s \in Seq(S), InSeries(s),
         \A u \in DOMAIN all : InSeries(all[u])
  PROVE  \A u \in DOMAIN Append(all, s) : InSeries(Append(all, s)[u])
<1>1. PICK n \in Nat : n = Len(all) /\ DOMAIN all = 1..n
  OBVIOUS
<1> DEFINE more == Append(all, s)
<1>2. DOMAIN more = 1..(n + 1) /\ more[n + 1] = s /\ \A u \in 1..n : more[u] = all[u]
  BY <1>1
<1> HIDE DEF more
<1>3. \A u \in 1..(n + 1) : u \in 1..n \/ u = n + 1
  BY <1>1
<1>4. \A u \in 1..(n + 1) : InSeries(more[u])
  BY <1>1, <1>2, <1>3, Zenon
<1>5. QED BY <1>2, <1>4 DEF more

\* The aggregate becomes a packet of whole units.
LEMMA FlushOrderly ==
  ASSUME setup \in Setups, NEW m \in Goods, NEW n, Orderly(m, n), NEW k
  PROVE  Orderly(Flush(m), k)
<1>0. Flush(m).stap = <<>>
  BY FlushGood
<1>1. CASE m.stap = <<>>
  <2>1. Flush(m) = m
    BY <1>1, Zenon DEF Flush
  <2>2. QED BY <1>1, <2>1 DEF Orderly
<1>2. CASE m.stap # <<>>
  <2>1. PICK p \in Made : p = Packet(24, FALSE, FALSE, TRUE, m.stap)
    BY <1>2, AggregateMade
  <2>2. p.type = 24 /\ p.pieces = m.stap /\ Whole(m.stap)
    BY <1>2, <2>1 DEF Packet, Orderly
  <2>3. WellMade(p) /\ ~Begun(p)
    BY <2>2 DEF WellMade, Begun
  <2>4. \A i \in DOMAIN <<p>> : <<p>>[i] = p
    OBVIOUS
  <2>5. InSeries(<<p>>)
    BY <2>3, <2>4, Zenon DEF InSeries
  <2>6. m.series \in Seq(Seq(Made)) /\ <<p>> \in Seq(Made)
    <3> HIDE DEF Made
    <3>1. QED BY DEF Goods
  <2>7. \A u \in DOMAIN Append(m.series, <<p>>) : InSeries(Append(m.series, <<p>>)[u])
    BY <2>5, <2>6, AppendOrderly DEF Orderly
  <2>8. Flush(m) = [m EXCEPT !.series = Append(@, <<p>>), !.stap = <<>>, !.size = 0]
    BY <1>2, <2>1, Zenon DEF Flush
  <2>9. Flush(m).series = Append(m.series, <<p>>)
    BY <2>8 DEF Goods
  <2>10. QED BY <1>0, <2>7, <2>9 DEF Orderly
<1>3. QED BY <1>1, <1>2

\* A unit by itself.
LEMMA SendOrderly ==
  ASSUME setup \in Setups, NEW m \in Goods, NEW n \in DOMAIN setup.nals, Orderly(m, n - 1)
  PROVE  Orderly(SendNal(m, n), n)
<1>1. PICK seen \in BOOLEAN : seen = (m.sps \/ Type(n) = "sps")
  OBVIOUS
<1>2. m.series \in Seq(Seq(Made)) /\ NalPackets(n) \in Seq(Made) /\ m.stap \in Seq(Pieces)
  BY NalPacketsMade DEF Goods
<1>3. \A u \in DOMAIN Append(m.series, NalPackets(n)) : InSeries(Append(m.series, NalPackets(n))[u])
  BY <1>2, NalPacketsSeries, AppendOrderly DEF Orderly
<1>4. SendNal(m, n) = [m EXCEPT !.sps = seen,
         !.series = IF seen /\ Type(n) # "undefined" THEN Append(@, NalPackets(n)) ELSE @]
  BY <1>1, Zenon DEF SendNal
<1>5. /\ SendNal(m, n).stap = m.stap
      /\ SendNal(m, n).series = Append(m.series, NalPackets(n)) \/ SendNal(m, n).series = m.series
  BY <1>4 DEF Goods
<1>6. \A u \in DOMAIN SendNal(m, n).series : InSeries(SendNal(m, n).series[u])
  <2>1. CASE SendNal(m, n).series = m.series
    BY <2>1 DEF Orderly
  <2>2. CASE SendNal(m, n).series = Append(m.series, NalPackets(n))
    BY <1>3, <2>2
  <2>3. QED BY <1>5, <2>1, <2>2
<1>7. ASSUME m.stap # <<>> PROVE Whole(m.stap) /\ m.stap[Len(m.stap)].nal <= n
  <2>1. Whole(m.stap) /\ m.stap[Len(m.stap)].nal <= n - 1
    BY <1>7 DEF Orderly
  <2>2. m.stap[Len(m.stap)] \in Pieces
    BY <1>2, <1>7
  <2>3. m.stap[Len(m.stap)].nal \in Nat /\ n \in Nat
    BY <2>2, Units DEF Pieces
  <2>4. QED BY <2>1, <2>3
<1>8. QED BY <1>5, <1>6, <1>7 DEF Orderly

\* A whole unit after whole ones.
LEMMA WholeMore ==
  ASSUME NEW S, NEW f \in Seq(S), NEW x \in S, x.from = 1, x.to = Size(x.nal),
         f # <<>> => Whole(f) /\ f[Len(f)].nal # x.nal
  PROVE  Whole(Append(f, x))
<1>1. PICK n \in Nat : n = Len(f) /\ DOMAIN f = 1..n
  OBVIOUS
<1> DEFINE g == Append(f, x)
<1>0. Len(g) = n + 1 /\ DOMAIN g = 1..(n + 1) /\ g[n + 1] = x
  BY <1>1
<1>2. /\ g # <<>> /\ Len(g) = n + 1 /\ DOMAIN g = 1..(n + 1) /\ g[n + 1] = x
      /\ \A k \in 1..n : g[k] = f[k]
  <2>1. \A k \in 1..n : g[k] = f[k]
    BY <1>1
  <2>2. g = <<>> => DOMAIN g = 1..0
    OBVIOUS
  <2> HIDE DEF g
  <2>3. 1..(n + 1) # 1..0
    <3>1. 1 \in 1..(n + 1) /\ 1 \notin 1..0
      BY <1>1
    <3>2. QED BY <3>1
  <2>4. QED BY <1>0, <2>1, <2>2, <2>3, Zenon
<1> HIDE DEF g
<1>3. n # 0 => /\ f[n].to = Size(f[n].nal) /\ f[n].nal # x.nal
               /\ \A k \in 1..n : f[k].from = IF k > 1 /\ f[k - 1].nal = f[k].nal THEN f[k - 1].to + 1 ELSE 1
               /\ \A k \in 2..n : f[k - 1].nal # f[k].nal => f[k - 1].to = Size(f[k - 1].nal)
  <2>1. n # 0 => f # <<>>
    BY <1>1
  <2>2. QED BY <1>1, <2>1, Zenon DEF Whole
<1>4. ASSUME NEW k \in 1..(n + 1)
      PROVE  g[k].from = IF k > 1 /\ g[k - 1].nal = g[k].nal THEN g[k - 1].to + 1 ELSE 1
  <2>1. CASE k \in 1..n
    <3>1. g[k] = f[k] /\ n # 0 /\ (k > 1 => g[k - 1] = f[k - 1])
      BY <1>1, <1>2, <2>1
    <3>2. f[k].from = IF k > 1 /\ f[k - 1].nal = f[k].nal THEN f[k - 1].to + 1 ELSE 1
      BY <1>3, <2>1, <3>1, Zenon
    <3>3. CASE k > 1
      BY <3>1, <3>2, <3>3
    <3>4. CASE ~(k > 1)
      BY <3>1, <3>2, <3>4
    <3>5. QED BY <3>3, <3>4
  <2>2. CASE k = n + 1
    <3>1. g[k] = x
      BY <1>2, <2>2
    <3>2. k > 1 => g[k - 1] = f[n] /\ n # 0
      BY <1>1, <1>2, <2>2
    <3>3. k > 1 => g[k - 1].nal # g[k].nal
      BY <1>3, <3>1, <3>2
    <3>4. QED BY <3>1, <3>3
  <2>3. QED BY <1>1, <2>1, <2>2
<1>5. ASSUME NEW k \in 2..(n + 1), g[k - 1].nal # g[k].nal
      PROVE  g[k - 1].to = Size(g[k - 1].nal)
  <2>1. CASE k \in 2..n
    <3>1. g[k] = f[k] /\ n # 0 /\ g[k - 1] = f[k - 1]
      BY <1>1, <1>2, <2>1
    <3>2. QED BY <1>3, <1>5, <2>1, <3>1, Zenon
  <2>2. CASE k = n + 1
    <3>1. g[k - 1] = f[n] /\ n # 0
      BY <1>1, <1>2, <2>2
    <3>2. QED BY <1>3, <3>1
  <2>3. QED BY <1>1, <2>1, <2>2
<1>6. g[Len(g)].to = Size(g[Len(g)].nal)
  BY <1>2
<1>7. Whole(g)
  BY <1>2, <1>4, <1>5, <1>6 DEF Whole
<1>8. QED BY <1>7 DEF g

\* A unit joins the aggregate, after those before it.
LEMMA AggregateOrderly ==
  ASSUME setup \in Setups, NEW m \in Goods, NEW n \in DOMAIN setup.nals, Orderly(m, n - 1)
  PROVE  Orderly(Aggregate(m, n), n)
<1>1. PICK x : x = Piece(n, 1, Size(n))
  OBVIOUS
<1>2. n \in Nat /\ Size(n) \in Nat \ {0} /\ m.stap \in Seq(Pieces)
  BY Units DEF Goods
<1>3. x \in Pieces /\ x.nal = n /\ x.from = 1 /\ x.to = Size(n)
  BY <1>1, <1>2 DEF Piece, Pieces
<1>4. m.stap # <<>> => Whole(m.stap) /\ m.stap[Len(m.stap)].nal # x.nal
  <2>1. SUFFICES ASSUME m.stap # <<>> PROVE Whole(m.stap) /\ m.stap[Len(m.stap)].nal # x.nal
    OBVIOUS
  <2>2. Whole(m.stap) /\ m.stap[Len(m.stap)].nal <= n - 1
    BY <2>1 DEF Orderly
  <2>3. QED BY <1>2, <1>3, <2>2
<1>5. Whole(Append(m.stap, x))
  <2>1. x.to = Size(x.nal)
    BY <1>3
  <2>2. QED BY <1>2, <1>3, <1>4, <2>1, WholeMore, Zenon
<1>6. /\ Aggregate(m, n).series = m.series
      /\ Aggregate(m, n).stap = Append(m.stap, x)
  BY <1>1 DEF Aggregate, Goods
<1>7. Append(m.stap, x)[Len(Append(m.stap, x))] = x
  BY <1>2, <1>3
<1>8. Append(m.stap, x)[Len(Append(m.stap, x))].nal <= n
  BY <1>2, <1>3, <1>7
<1>9. QED BY <1>5, <1>6, <1>8, Zenon DEF Orderly

\* One step of the loop.
LEMMA PacketizeOrderly ==
  ASSUME setup \in Setups, NEW m \in Goods, NEW n \in DOMAIN setup.nals, Orderly(m, n - 1)
  PROVE  Orderly(Packetize(m, n), n)
<1>1. Flush(m) \in Goods /\ Orderly(Flush(m), n - 1)
  BY FlushGood, FlushOrderly
<1>2. Orderly(SendNal(m, n), n) /\ Orderly(SendNal(Flush(m), n), n)
  BY <1>1, SendOrderly
<1>3. Orderly(Aggregate(m, n), n) /\ Orderly(Aggregate(Flush(m), n), n)
  BY <1>1, AggregateOrderly
<1>4. Orderly(m, n)
  <2>1. ASSUME m.stap # <<>> PROVE m.stap[Len(m.stap)].nal <= n
    <3>1. m.stap \in Seq(Pieces) /\ n \in Nat
      BY Units DEF Goods
    <3>2. m.stap[Len(m.stap)] \in Pieces
      BY <2>1, <3>1
    <3>3. m.stap[Len(m.stap)].nal \in Nat /\ m.stap[Len(m.stap)].nal <= n - 1
      BY <2>1, <3>2, Units DEF Pieces, Orderly
    <3>4. QED BY <3>1, <3>3
  <2>2. QED BY <2>1 DEF Orderly
<1>5. QED BY <1>2, <1>3, <1>4, Zenon DEF Packetize

\* All of its steps: the units of a buffer follow one another.
LEMMA PacketizedOrderly ==
  ASSUME setup \in Setups, NEW b \in Goods, b.series = <<>>, b.stap = <<>>,
         NEW nals \in Seq(DOMAIN setup.nals), NEW from \in Nat,
         \A i \in DOMAIN nals : nals[i] = from + i - 1
  PROVE  \E last : Orderly(FoldLeft(Packetize, b, nals), last)
<1>1. PICK n \in Nat : n = Len(nals) /\ DOMAIN nals = 1..n /\ \A i \in 1..n : nals[i] \in DOMAIN setup.nals
  BY ElementOfSeq
<1>0. PICK g : /\ g[0] = b /\ FoldLeft(Packetize, b, nals) = g[Len(nals)]
               /\ \A k \in 0..Len(nals) : g[k] \in Goods
               /\ \A k \in 1..Len(nals) : g[k] = Packetize(g[k - 1], nals[k])
  BY PacketizedSteps, Zenon
<1>2. /\ g[0] = b /\ FoldLeft(Packetize, b, nals) = g[n]
      /\ \A k \in 0..n : g[k] \in Goods
      /\ \A k \in 1..n : g[k] = Packetize(g[k - 1], nals[k])
  BY <1>0, <1>1, Zenon
<1> DEFINE T == {k \in Nat : k <= n => Orderly(g[k], from + k - 1)}
<1>3. 0 \in T
  BY <1>2 DEF Orderly
<1>4. ASSUME NEW k \in T PROVE k + 1 \in T
  <2>1. k \in Nat /\ (k + 1) - 1 = k
    OBVIOUS
  <2>2. SUFFICES ASSUME k + 1 <= n PROVE Orderly(g[k + 1], from + (k + 1) - 1)
    BY <2>1
  <2>3. k \in 0..n /\ k + 1 \in 1..n /\ Orderly(g[k], from + k - 1)
    BY <2>1, <2>2
  <2>4. PICK i \in DOMAIN setup.nals : i = nals[k + 1]
    BY <1>1, <2>3
  <2>5. i = from + (k + 1) - 1 /\ i - 1 = from + k - 1
    <3>1. nals[k + 1] = from + (k + 1) - 1
      BY <1>1, <2>3
    <3>2. (from + (k + 1) - 1) - 1 = from + k - 1
      BY <2>1
    <3>3. QED BY <2>4, <3>1, <3>2, Zenon
  <2>6. g[k] \in Goods /\ g[k + 1] = Packetize(g[k], i)
    BY <1>2, <2>1, <2>3, <2>4
  <2> HIDE DEF T
  <2>7. Orderly(Packetize(g[k], i), i)
    <3>1. Orderly(g[k], i - 1)
      BY <2>3, <2>5
    <3>2. QED BY <2>6, <3>1, PacketizeOrderly, Zenon
  <2>8. QED BY <2>5, <2>6, <2>7
<1>5. T = Nat
  <2> HIDE DEF T
  <2>1. QED BY <1>3, <1>4, NatSetInduction DEF T
<1>6. Orderly(g[n], from + n - 1)
  BY <1>5
<1>7. QED BY <1>2, <1>6, Zenon

\* What processBuffer() has made of a buffer.
LEMMA SendSeries ==
  ASSUME IInv, Send
  PROVE  InSeries(pending')
<1> DEFINE from == IF at = 0 THEN 1 ELSE setup.ends[at] + 1
           nals == [i \in 1..setup.ends[at + 1] - from + 1 |-> from + i - 1]
           empty == [series |-> <<>>, stap |-> <<>>, size |-> 0, sps |-> sps]
           made == Flush(FoldLeft(Packetize, empty, nals))
           place(m, u, j) == [m.series[u][j] EXCEPT !.unit = Len(units) + u]
           placed(m) == [u \in DOMAIN m.series |-> [j \in DOMAIN m.series[u] |-> place(m, u, j)]]
<1>1. setup \in Setups /\ at \in 0..Len(setup.ends) /\ sps \in BOOLEAN /\ at < Len(setup.ends)
  BY DEF IInv, SenderTypes, Send
<1>2. PICK m : m = made /\ pending' = FlattenSeq(placed(m))
  BY Zenon DEF Send
<1>3. m \in Goods /\ Orderly(m, 0)
  <2>1. nals \in Seq(DOMAIN setup.nals) /\ \A i \in DOMAIN nals : nals[i] = from + i - 1
    BY <1>1, NextNals
  <2>2. from \in Nat
    <3>1. PICK k \in Nat : k = Len(setup.ends) /\ DOMAIN setup.ends = 1..k
      BY <1>1, SetupFacts
    <3>2. at # 0 => at \in DOMAIN setup.ends
      BY <1>1, <3>1
    <3>3. \A i \in DOMAIN setup.ends : setup.ends[i] \in Nat
      BY <1>1, <3>1, SetupFacts
    <3>4. QED BY <3>2, <3>3
  <2>3. empty \in Goods /\ empty.series = <<>> /\ empty.stap = <<>>
    <3>1. 0 \in 0..MaxPayload /\ <<>> \in Seq(Seq(Made)) /\ <<>> \in Seq(Pieces)
      BY RtpAssumption
    <3> HIDE DEF Made
    <3>2. QED BY <1>1, <3>1 DEF Goods, Filled
  <2> HIDE DEF nals, empty, from
  <2>4. FoldLeft(Packetize, empty, nals) \in Goods
    BY <1>1, <2>1, <2>3, PacketizedGood
  <2>5. PICK last : Orderly(FoldLeft(Packetize, empty, nals), last)
    BY <1>1, <2>1, <2>2, <2>3, PacketizedOrderly
  <2>6. QED BY <1>1, <1>2, <2>4, <2>5, FlushGood, FlushOrderly
<1> HIDE DEF made, nals, empty, from
<1>4. PICK n \in Nat : n = Len(m.series) /\ DOMAIN m.series = 1..n
  BY <1>3 DEF Goods
<1>5. \A u \in 1..n : m.series[u] \in Seq(Made) /\ InSeries(m.series[u])
  <2>1. m.series \in Seq(Seq(Made))
    BY <1>3 DEF Goods
  <2>2. QED BY <1>3, <1>4, <2>1, ElementOfSeq DEF Orderly
<1> DEFINE row(u) == [j \in DOMAIN m.series[u] |-> place(m, u, j)]
           S == {place(m, u, j) : u \in 1..n, j \in UNION {DOMAIN m.series[v] : v \in 1..n}}
           W == {s \in Seq(S) : InSeries(s)}
<1>6. ASSUME NEW u \in 1..n PROVE row(u) \in W
  <2>1. PICK k \in Nat : DOMAIN m.series[u] = 1..k
    BY <1>5
  <2>2. ASSUME NEW j \in DOMAIN m.series[u] PROVE Same(m.series[u][j], row(u)[j])
    <3>1. PICK p \in Made : p = m.series[u][j]
      BY <1>5, ElementOfSeq
    <3>2. PICK k2 : k2 = Len(units) + u
      OBVIOUS
    <3>3. Same(p, [p EXCEPT !.unit = k2])
      BY DEF Same, Made
    <3>4. row(u)[j] = [p EXCEPT !.unit = k2]
      BY <3>1, <3>2
    <3> HIDE DEF row
    <3>5. QED BY <3>1, <3>3, <3>4
  <2>3. DOMAIN row(u) = DOMAIN m.series[u]
    OBVIOUS
  <2>4. row(u) \in Seq(S)
    <3> HIDE DEF place
    <3>1. \A j \in DOMAIN m.series[u] : place(m, u, j) \in S
      OBVIOUS
    <3> HIDE DEF S
    <3>2. QED BY <2>1, <3>1
  <2> HIDE DEF row
  <2>5. InSeries(row(u))
    BY <1>5, <2>2, <2>3, SameSeries
  <2>6. QED BY <2>4, <2>5
<1>7. placed(m) \in Seq(W)
  <2>1. placed(m) = [u \in 1..n |-> row(u)]
    BY <1>4
  <2> HIDE DEF row, W
  <2>2. [u \in 1..n |-> row(u)] \in Seq(W)
    BY <1>6
  <2> HIDE DEF placed
  <2>3. QED BY <2>1, <2>2
<1>8. <<>> \in W /\ \A a, b \in W : a \o b \in W
  <2> HIDE DEF S
  <2>1. InSeries(<<>>)
    BY DEF InSeries
  <2>2. \A a, b \in W : a \o b \in Seq(S) /\ InSeries(a \o b)
    BY ConcatSeries
  <2>3. QED BY <2>1, <2>2
<1> HIDE DEF W, placed
<1>9. FlattenSeq(placed(m)) \in W
  BY <1>7, <1>8, FlattenedIn, Zenon
<1>10. QED BY <1>2, <1>9 DEF W

-----------------------------------------------------------------------------
(* Numbers that have not come round. *)

\* No number is met twice before the first comes again.
LEMMA Numbers ==
  ASSUME NEW f \in Seqs, NEW s \in Seqs, NEW q \in Seqs
  PROVE  /\ After(s) \in Seqs /\ After(s) # s
         /\ After(s) = After(q) => s = q
         /\ Ahead(f, s) \in Nat
         /\ Ahead(f, s) = Ahead(f, q) => s = q
         /\ After(s) # f => Ahead(f, After(s)) = Ahead(f, s) + 1
<1>1. SeqModulus \in Nat /\ SeqModulus > 1
  BY RtpAssumption
<1>2. QED BY <1>1 DEF Seqs, After, Ahead

\* The channel's next number follows its last.
LEMMA NextNumber ==
  ASSUME seq \in Seqs
  PROVE  NextSeq = After(seq)
<1>1. SeqModulus \in Nat /\ SeqModulus > 1 /\ seq \in Nat /\ seq <= SeqModulus - 1
  BY RtpAssumption DEF Seqs
<1>2. CASE seq = SeqModulus - 1
  BY <1>1, <1>2 DEF NextSeq, After
<1>3. CASE seq # SeqModulus - 1
  BY <1>1, <1>3 DEF NextSeq, After
<1>4. QED BY <1>2, <1>3

-----------------------------------------------------------------------------
(* What the receiver puts together. *)

\* A unit goes on where it was left.
LEMMA BeginningMore ==
  ASSUME NEW S, NEW f \in Seq(S), NEW x \in S,
         f = <<>> => x.from = 1,
         f # <<>> => Beginning(f) /\ x.nal = f[Len(f)].nal /\ x.from = f[Len(f)].to + 1
  PROVE  Beginning(Append(f, x))
<1>1. PICK n \in Nat : n = Len(f) /\ DOMAIN f = 1..n
  OBVIOUS
<1> DEFINE g == Append(f, x)
<1>2. DOMAIN g = 1..(n + 1) /\ g[n + 1] = x /\ \A k \in 1..n : g[k] = f[k]
  BY <1>1
<1>3. (f = <<>> <=> n = 0) /\ (n # 0 => n \in 1..n /\ f[Len(f)] = f[n])
  BY <1>1
<1> HIDE DEF g
<1>4. CASE n = 0
  <2>1. DOMAIN g = {1} /\ g[1] = x /\ x.from = 1
    BY <1>2, <1>3, <1>4
  <2>2. Beginning(g)
    BY <2>1 DEF Beginning
  <2>3. QED BY <2>2 DEF g
<1>5. CASE n # 0
  <2>1. /\ \A k \in 1..n : f[k].nal = f[1].nal /\ f[k].from = (IF k = 1 THEN 1 ELSE f[k - 1].to + 1)
        /\ x.nal = f[n].nal /\ x.from = f[n].to + 1
    BY <1>1, <1>3, <1>5 DEF Beginning
  <2>2. 1 \in 1..n /\ g[1] = f[1] /\ g[n] = f[n]
    BY <1>2, <1>3, <1>5
  <2>3. ASSUME NEW k \in 1..n
        PROVE  g[k].nal = g[1].nal /\ g[k].from = (IF k = 1 THEN 1 ELSE g[k - 1].to + 1)
    <3>1. g[k] = f[k] /\ (k # 1 => g[k - 1] = f[k - 1])
      BY <1>2, <2>3
    <3>2. QED BY <2>1, <2>2, <2>3, <3>1
  <2>4. g[n + 1].nal = g[1].nal /\ g[n + 1].from = g[(n + 1) - 1].to + 1 /\ n + 1 # 1
    <3>1. (n + 1) - 1 = n /\ n + 1 # 1
      BY <1>5
    <3>2. f[n].nal = f[1].nal
      BY <1>3, <1>5, <2>1
    <3>3. QED BY <1>2, <2>1, <2>2, <3>1, <3>2
  <2>5. \A k \in 1..(n + 1) : k \in 1..n \/ k = n + 1
    BY <1>1
  <2>6. Beginning(g)
    BY <1>2, <2>3, <2>4, <2>5, Zenon DEF Beginning
  <2>7. QED BY <2>6 DEF g
<1>6. QED BY <1>4, <1>5

\* A unit that has been begun and reaches its end is whole.
LEMMA BeginningWhole ==
  ASSUME NEW S, NEW f \in Seq(S), f # <<>>, Beginning(f), f[Len(f)].to = Size(f[Len(f)].nal)
  PROVE  Whole(f)
<1>1. PICK n \in Nat : n = Len(f) /\ DOMAIN f = 1..n
  OBVIOUS
<1>2. \A k \in 1..n : f[k].nal = f[1].nal /\ f[k].from = (IF k = 1 THEN 1 ELSE f[k - 1].to + 1)
  BY <1>1, Zenon DEF Beginning
<1>3. ASSUME NEW k \in 2..n PROVE k \in 1..n /\ k - 1 \in 1..n /\ k > 1 /\ k # 1
  BY <1>1
<1>4. ASSUME NEW k \in 1..n
      PROVE  f[k].from = IF k > 1 /\ f[k - 1].nal = f[k].nal THEN f[k - 1].to + 1 ELSE 1
  <2>1. CASE k = 1
    BY <1>2, <2>1
  <2>2. CASE k # 1
    <3>1. k \in 2..n /\ k > 1
      BY <1>1, <2>2
    <3>2. f[k - 1].nal = f[1].nal /\ f[k].nal = f[1].nal
      BY <1>2, <1>3, <3>1, Zenon
    <3>3. f[k].from = f[k - 1].to + 1
      BY <1>2, <2>2, Zenon
    <3>4. QED BY <3>1, <3>2, <3>3, Zenon
  <2>3. QED BY <2>1, <2>2
<1>5. \A k \in 2..n : f[k - 1].nal = f[k].nal
  BY <1>2, <1>3, Zenon
<1>6. QED BY <1>1, <1>4, <1>5, Zenon DEF Whole

\* The frame that is being put together, with the packet p.
Missing(p) == containsMissing \/ Jumps(p)
Bad(p) == framingError \/ (p.type = 28 /\ FramesBadly(p))
Built(p) == (IF p.type = 28 /\ p.start THEN <<>> ELSE currentNal) \o p.pieces

\* A packet that is neither after a gap nor badly framed goes on with the frame.
LEMMA BuiltKept ==
  ASSUME ReceiverTypes, NEW f \in Seqs, FrameKept(f), NEW p \in Alive, p \in Packets, WellMade(p),
         ~Missing(p), ~Bad(p)
  PROVE  IF p.type = 28
         THEN /\ Built(p) \in Seq(Pieces) /\ Built(p) # <<>> /\ Beginning(Built(p))
              /\ Built(p)[Len(Built(p))] = p.pieces[1] /\ p.pieces[1] \in Pieces
         ELSE Built(p) = p.pieces
<1>1. /\ currentNal \in Seq(Pieces) /\ p.pieces \in Seq(Pieces) /\ p.seq \in Seqs /\ seqLast \in Seqs
  BY DEF ReceiverTypes, FrameTypes, Packets
<1>2. ~containsMissing /\ ~framingError /\ ~Jumps(p) /\ (p.type = 28 => ~FramesBadly(p))
  BY Zenon DEF Missing, Bad
<1>3. ASSUME currentNal # <<>>
      PROVE  Beginning(currentNal) /\ GoesOn(currentNal[Len(currentNal)], p)
  <2>1. Beginning(currentNal) /\ some
        /\ (p.seq = After(seqLast) => GoesOn(currentNal[Len(currentNal)], p))
    BY <1>2, <1>3, Zenon DEF FrameKept, Clean
  <2>2. p.seq = seqLast + 1 \/ (seqLast = SeqModulus - 1 /\ p.seq = 0)
    BY <1>2, <2>1, Zenon DEF Jumps, Rollover
  <2>3. p.seq = After(seqLast)
    BY <1>1, <2>2, RtpAssumption DEF RtpAssumption, Seqs, After
  <2>4. QED BY <2>1, <2>3
<1>4. CASE p.type = 28
  <2>1. PICK x : x = p.pieces[1]
    OBVIOUS
  <2>2. p.pieces = <<x>> /\ x \in Pieces /\ (p.start => x.from = 1)
    <3>1. Len(p.pieces) = 1 /\ (p.start => p.pieces[1].from = 1)
      BY <1>4, Zenon DEF WellMade
    <3>2. QED BY <1>1, <2>1, <3>1
  <2>3. Built(p) = Append(currentNal, x) /\ (currentNal = <<>> => p.start)
    <3>1. CASE currentNal = <<>>
      <4>1. p.start
        BY <1>2, <1>4, <3>1, Zenon DEF FramesBadly
      <4>2. QED BY <2>2, <3>1, <4>1 DEF Built
    <3>2. CASE currentNal # <<>>
      <4>1. ~p.start
        BY <1>3, <3>2, Zenon DEF GoesOn
      <4>2. Built(p) = currentNal \o <<x>>
        BY <2>2, <4>1, Zenon DEF Built
      <4>3. QED BY <1>1, <2>2, <3>2, <4>2
    <3>3. QED BY <3>1, <3>2
  <2>4. Beginning(Append(currentNal, x))
    <3>1. currentNal = <<>> => x.from = 1
      BY <2>2, <2>3
    <3>2. currentNal # <<>> => /\ Beginning(currentNal) /\ x.nal = currentNal[Len(currentNal)].nal
                               /\ x.from = currentNal[Len(currentNal)].to + 1
      BY <1>3, <2>1, Zenon DEF GoesOn
    <3>3. QED BY <1>1, <2>2, <3>1, <3>2, BeginningMore, Zenon
  <2>5. /\ Append(currentNal, x) \in Seq(Pieces) /\ Append(currentNal, x) # <<>>
        /\ Append(currentNal, x)[Len(Append(currentNal, x))] = x
    BY <1>1, <2>2
  <2>6. QED BY <1>4, <2>1, <2>2, <2>3, <2>4, <2>5, Zenon
<1>5. CASE p.type # 28
  <2>1. currentNal = <<>>
    BY <1>3, <1>5, Zenon DEF GoesOn
  <2>2. Built(p) = <<>> \o p.pieces
    BY <1>5, <2>1, Zenon DEF Built
  <2>3. QED BY <1>1, <1>5, <2>2
<1>6. QED BY <1>4, <1>5

\* So what is delivered is whole, and what is not complete is a unit up to somewhere.
LEMMA HandleKept ==
  ASSUME IInv, NEW f \in Seqs, LinksKept(f), FrameKept(f), WholeFrames, NEW p \in Alive,
         p \in Packets, Handle(p), setup' = setup, UNCHANGED <<seq, pending>>, Alive' \subseteq Alive
  PROVE  FrameKept(f)' /\ WholeFrames'
<1> DEFINE complete == p.last \/ p.end \/ ~(p.type = 28)
<1>1. ReceiverTypes /\ WellMade(p) /\ Used(f, p.seq)
  BY DEF IInv, LinksKept
<1>2. /\ some' = TRUE /\ seqLast' = p.seq
      /\ IF complete
         THEN /\ out' = IF Missing(p) \/ Bad(p) THEN out ELSE Append(out, Built(p))
              /\ currentNal' = <<>> /\ containsMissing' = FALSE /\ framingError' = FALSE
         ELSE /\ currentNal' = Built(p) /\ containsMissing' = Missing(p) /\ framingError' = Bad(p)
              /\ UNCHANGED out
  BY Zenon DEF Handle, Missing, Bad, Built
<1>3. ASSUME complete, ~Missing(p), ~Bad(p) PROVE Whole(Built(p))
  <2>1. CASE p.type = 28
    <3>1. /\ Built(p) \in Seq(Pieces) /\ Built(p) # <<>> /\ Beginning(Built(p))
          /\ Built(p)[Len(Built(p))] = p.pieces[1]
      BY <1>1, <1>3, <2>1, BuiltKept, Zenon
    <3>2. p.pieces[1].to = Size(p.pieces[1].nal)
      <4>1. p.end
        BY <1>1, <1>3, <2>1, Zenon DEF WellMade
      <4>2. QED BY <1>1, <2>1, <4>1, Zenon DEF WellMade
    <3>3. QED BY <3>1, <3>2, BeginningWhole
  <2>2. CASE p.type # 28
    <3>1. Built(p) = p.pieces
      BY <1>1, <1>3, <2>2, BuiltKept, Zenon
    <3>2. QED BY <1>1, <2>2, <3>1 DEF WellMade
  <2>3. QED BY <2>1, <2>2
<1>4. \A v : Whole(v)' <=> Whole(v)
  BY DEF Whole, Size
<1>5. WholeFrames'
  <2>1. out \in Seq(Seq(Pieces)) /\ \A i \in DOMAIN out : Whole(out[i])
    BY <1>1 DEF ReceiverTypes, FrameTypes, WholeFrames
  <2>2. CASE out' = out
    BY <1>4, <2>1, <2>2 DEF WholeFrames
  <2>3. CASE complete /\ ~Missing(p) /\ ~Bad(p)
    <3>1. out' = Append(out, Built(p)) /\ Whole(Built(p))
      BY <1>2, <1>3, <2>3, Zenon
    <3>2. PICK n \in Nat : n = Len(out) /\ DOMAIN out = 1..n
      BY <2>1
    <3>3. /\ DOMAIN out' = 1..(n + 1) /\ out'[n + 1] = Built(p)
          /\ \A i \in 1..n : out'[i] = out[i]
      BY <2>1, <3>1, <3>2
    <3>4. \A i \in 1..(n + 1) : i \in 1..n \/ i = n + 1
      BY <3>2
    <3>5. \A i \in DOMAIN out' : Whole(out'[i])
      BY <2>1, <3>1, <3>2, <3>3, <3>4, Zenon
    <3>6. QED BY <1>4, <3>5 DEF WholeFrames
  <2>4. QED BY <1>2, <2>2, <2>3, Zenon
<1>6. FrameKept(f)'
  <2>1. SUFFICES ASSUME Clean' PROVE
          /\ Beginning(currentNal') /\ some' /\ Used(f, p.seq)'
          /\ \A q \in Alive' : q.seq = After(p.seq) => GoesOn(currentNal'[Len(currentNal')], q)
          /\ seq = After(p.seq) =>
               pending # <<>> /\ GoesOn(currentNal'[Len(currentNal')], Head(pending))
    BY <1>2, Zenon DEF FrameKept
  <2>2. ~complete /\ ~Missing(p) /\ ~Bad(p) /\ currentNal' = Built(p)
    BY <1>2, <2>1, Zenon DEF Clean
  <2>3. p.type = 28 /\ Begun(p)
    BY <2>2, Zenon DEF Begun
  <2>4. Beginning(Built(p)) /\ Built(p)[Len(Built(p))] = p.pieces[1]
    BY <1>1, <2>2, <2>3, BuiltKept, Zenon
  <2>5. \A q \in Alive' : q.seq = After(p.seq) => GoesOn(p.pieces[1], q)
    BY <2>3, Zenon DEF LinksKept
  <2>6. seq = After(p.seq) => pending # <<>> /\ GoesOn(p.pieces[1], Head(pending))
    BY <2>3, Zenon DEF LinksKept
  <2>7. Used(f, p.seq)'
    BY <1>1 DEF Used
  <2>8. QED BY <1>2, <2>2, <2>4, <2>5, <2>6, <2>7, Zenon
<1>7. QED BY <1>5, <1>6

-----------------------------------------------------------------------------
(* Frames, step by step. *)

\* What is under way or waits is a packet.
LEMMA AliveTyped ==
  ASSUME IInv
  PROVE  \A p \in Alive : p \in Packets /\ p.seq \in Seqs
<1>1. net \in Seq(Flying) /\ WaitingTypes
  BY DEF IInv, NetworkTypes, ReceiverTypes
<1>2. ASSUME NEW k \in DOMAIN net PROVE net[k] \in Packets
  <2>1. net[k] \in Flying
    BY <1>1, ElementOfSeq
  <2>2. QED BY <2>1 DEF Flying
<1>3. \A p \in Alive : p \in Packets
  BY <1>1, <1>2 DEF Alive, WaitingTypes
<1>4. QED BY <1>3 DEF Packets

\* Losing packets and looking at them changes none, nor does the next buffer, which
\* begins when all of the last one was sent.
LEMMA LinksStay ==
  ASSUME NEW f, setup' = setup, seq' = seq, Alive' \subseteq Alive, LinksKept(f),
         pending = <<>> \/ pending' = pending \/ Alive = {}
  PROVE  LinksKept(f)'
<1>1. \A p : (WellMade(p)' <=> WellMade(p)) /\ (Used(f, p.seq)' <=> Used(f, p.seq))
  BY DEF WellMade, Whole, Size, Used
<1>2. \A p \in Alive' : WellMade(p)' /\ Used(f, p.seq)'
  BY <1>1, Zenon DEF LinksKept
<1>3. \A p, q \in Alive' : q.seq = After(p.seq) /\ Begun(p) => GoesOn(p.pieces[1], q)
  BY Zenon DEF LinksKept
<1>4. \A p \in Alive' : seq = After(p.seq) /\ Begun(p) =>
        pending' # <<>> /\ GoesOn(p.pieces[1], Head(pending'))
  BY Zenon DEF LinksKept
<1>5. QED BY <1>2, <1>3, <1>4, Zenon DEF LinksKept

\* Nor does either change the frame that is being put together.
LEMMA FrameStays ==
  ASSUME NEW f, setup' = setup, seq' = seq, Alive' \subseteq Alive, FrameKept(f),
         UNCHANGED <<some, seqLast, currentNal, containsMissing, framingError>>,
         pending = <<>> \/ pending' = pending \/ currentNal = <<>>
  PROVE  FrameKept(f)'
<1>1. Clean' => Clean
  BY DEF Clean
<1>2. Used(f, seqLast)' <=> Used(f, seqLast)
  BY DEF Used
<1>3. SUFFICES ASSUME Clean
      PROVE  /\ Beginning(currentNal) /\ some /\ Used(f, seqLast)
             /\ \A q \in Alive' : q.seq = After(seqLast) => GoesOn(currentNal[Len(currentNal)], q)
             /\ seq = After(seqLast) =>
                  pending' # <<>> /\ GoesOn(currentNal[Len(currentNal)], Head(pending'))
  BY <1>1, <1>2, Zenon DEF FrameKept
<1>4. /\ Beginning(currentNal) /\ some /\ Used(f, seqLast) /\ currentNal # <<>>
      /\ \A q \in Alive : q.seq = After(seqLast) => GoesOn(currentNal[Len(currentNal)], q)
      /\ seq = After(seqLast) =>
           pending # <<>> /\ GoesOn(currentNal[Len(currentNal)], Head(pending))
  BY <1>3, Zenon DEF FrameKept, Clean
<1>5. QED BY <1>4, Zenon

\* What has been delivered stays whole,
LEMMA WholeStay ==
  ASSUME setup' = setup, out' = out, WholeFrames
  PROVE  WholeFrames'
BY DEF WholeFrames, Whole, Size

\* and what is to be sent a series.
LEMMA SeriesStay ==
  ASSUME setup' = setup, pending' = pending, InSeries(pending)
  PROVE  InSeries(pending)'
<1>1. \A p : WellMade(p)' <=> WellMade(p)
  BY DEF WellMade, Whole, Size
<1>2. QED BY <1>1, Zenon DEF InSeries

\* A packet takes the next number, which no packet has, and goes on with the unit
\* that the packet before it began.
LEMMA SentLinked ==
  ASSUME IInv, NEW f \in Seqs, FramesInv(f), SendPacket, playing, seq' # f
  PROVE  LinksKept(f)' /\ FrameKept(f)'
<1>0. PICK h : h = [Head(pending) EXCEPT !.seq = seq]
  OBVIOUS
<1>1. /\ setup' = setup /\ pending # <<>> /\ pending' = Tail(pending) /\ net' = Append(net, h)
      /\ seq' = NextSeq /\ UNCHANGED <<some, seqLast, currentNal, containsMissing, framingError, rtpData>>
  BY <1>0 DEF SendPacket, receiver, frame
<1>2. /\ InSeries(pending) /\ LinksKept(f) /\ FrameKept(f)
  BY DEF FramesInv
<1>3. seq \in Seqs /\ pending \in Seq(Packets) /\ net \in Seq(Flying) /\ seqLast \in Seqs
  BY DEF IInv, SenderTypes, NetworkTypes, ReceiverTypes, Outgoing
<1>4. seq' = After(seq) /\ seq' \in Seqs /\ Ahead(f, seq') = Ahead(f, seq) + 1
      /\ Ahead(f, seq) \in Nat
  BY <1>1, <1>3, NextNumber, Numbers
<1>5. PICK a \in Packets : a = Head(pending) /\ a = pending[1] /\ 1 \in DOMAIN pending
  BY <1>1, <1>3
<1>6. /\ h = [a EXCEPT !.seq = seq] /\ h.seq = seq /\ h.type = a.type /\ h.start = a.start
      /\ h.last = a.last /\ h.end = a.end /\ h.pieces = a.pieces
  BY <1>0, <1>5 DEF Packets
<1>7. Alive' \subseteq Alive \cup {h}
  <2>1. PICK n \in Nat : n = Len(net) /\ DOMAIN net = 1..n
    BY <1>3
  <2>2. DOMAIN net' = 1..(n + 1) /\ net'[n + 1] = h /\ \A k \in 1..n : net'[k] = net[k]
    BY <1>1, <1>3, <2>1
  <2>3. \A k \in 1..(n + 1) : k \in 1..n \/ k = n + 1
    BY <2>1
  <2>4. \A k \in DOMAIN net' : net'[k] \in Alive \cup {h}
    BY <2>1, <2>2, <2>3, Zenon DEF Alive
  <2>5. QED BY <1>1, <2>4 DEF Alive
<1>8. \A p : WellMade(p)' <=> WellMade(p)
  BY <1>1 DEF WellMade, Whole, Size
<1>9. WellMade(a) /\ (Begun(a) => pending' # <<>> /\ GoesOn(a.pieces[1], Head(pending')))
  <2>1. WellMade(a) /\ (Begun(a) => 1 + 1 \in DOMAIN pending /\ GoesOn(a.pieces[1], pending[1 + 1]))
    BY <1>2, <1>5, Zenon DEF InSeries
  <2>2. 1 + 1 \in DOMAIN pending => Tail(pending) # <<>> /\ Head(Tail(pending)) = pending[1 + 1]
    <3>1. PICK n \in Nat : n = Len(pending) /\ DOMAIN pending = 1..n
      BY <1>3
    <3>2. SUFFICES ASSUME 1 + 1 \in DOMAIN pending
          PROVE  Tail(pending) # <<>> /\ Head(Tail(pending)) = pending[1 + 1]
      OBVIOUS
    <3>3. n >= 2 /\ Tail(pending) \in Seq(Packets)
      BY <1>3, <3>1, <3>2
    <3>4. PICK t \in Seq(Packets) : t = Tail(pending)
      BY <3>3
    <3>5. Len(t) = n - 1 /\ t[1] = pending[1 + 1]
      BY <1>3, <3>1, <3>3, <3>4
    <3>6. t # <<>> /\ Head(t) = t[1]
      BY <3>3, <3>5
    <3>7. QED BY <3>4, <3>5, <3>6, Zenon
  <2>3. QED BY <1>1, <2>1, <2>2, Zenon
<1>10. WellMade(h)
  BY <1>6, <1>9 DEF WellMade
<1>11. Begun(h) <=> Begun(a)
  BY <1>6 DEF Begun
<1>12. \A x : GoesOn(x, h) <=> GoesOn(x, a)
  BY <1>6 DEF GoesOn
<1>13. ASSUME NEW s \in Seqs, Used(f, s)
       PROVE  Used(f, s)' /\ s # seq' /\ seq' # After(s)
  <2>1. Ahead(f, s) \in Nat /\ Ahead(f, s) < Ahead(f, seq)
    BY <1>13, Numbers DEF Used
  <2>2. Ahead(f, s) < Ahead(f, seq') /\ Ahead(f, s) # Ahead(f, seq) /\ Ahead(f, s) # Ahead(f, seq')
    BY <1>4, <2>1
  <2>3. s # seq /\ s # seq'
    BY <2>2
  <2>4. After(s) = After(seq) => s = seq
    BY <1>3, Numbers
  <2>5. QED BY <1>4, <2>2, <2>3, <2>4 DEF Used, Ahead
<1>14. Used(f, h.seq)' /\ After(seq) # seq
  <2>1. Ahead(f, seq) < Ahead(f, seq')
    BY <1>4
  <2>2. After(seq) # seq
    BY <1>3, Numbers
  <2>3. QED BY <1>6, <2>1, <2>2 DEF Used
<1>15. \A p \in Alive : /\ p.seq \in Seqs /\ WellMade(p) /\ Used(f, p.seq)'
                        /\ p.seq # After(seq) /\ seq' # After(p.seq)
  <2>1. \A p \in Alive : p.seq \in Seqs /\ WellMade(p) /\ Used(f, p.seq)
    BY <1>2, AliveTyped DEF LinksKept
  <2>2. QED BY <1>4, <1>13, <2>1
<1>16. \A p \in Alive' : p \in Alive \/ p = h
  BY <1>7
<1>17. LinksKept(f)'
  <2>1. \A p \in Alive' : WellMade(p)' /\ Used(f, p.seq)'
    BY <1>8, <1>10, <1>14, <1>15, <1>16, Zenon
  <2>2. ASSUME NEW p \in Alive', NEW q \in Alive', q.seq = After(p.seq), Begun(p)
        PROVE  GoesOn(p.pieces[1], q)
    <3>1. CASE p \in Alive /\ q \in Alive
      BY <1>2, <2>2, <3>1, Zenon DEF LinksKept
    <3>2. CASE p \in Alive /\ q = h
      BY <1>2, <1>5, <1>6, <1>12, <2>2, <3>2, Zenon DEF LinksKept
    <3>3. CASE p = h
      BY <1>6, <1>14, <1>15, <1>16, <2>2, <3>3, Zenon
    <3>4. QED BY <1>16, <3>1, <3>2, <3>3
  <2>3. ASSUME NEW p \in Alive', seq' = After(p.seq), Begun(p)
        PROVE  pending' # <<>> /\ GoesOn(p.pieces[1], Head(pending'))
    <3>1. p = h
      BY <1>15, <1>16, <2>3, Zenon
    <3>2. QED BY <1>6, <1>9, <1>11, <2>3, <3>1, Zenon
  <2>4. QED BY <2>1, <2>2, <2>3, Zenon DEF LinksKept
<1>18. FrameKept(f)'
  <2>1. SUFFICES ASSUME Clean
        PROVE  /\ Beginning(currentNal) /\ some /\ Used(f, seqLast)'
               /\ \A q \in Alive' : q.seq = After(seqLast) =>
                                      GoesOn(currentNal[Len(currentNal)], q)
               /\ seq' = After(seqLast) =>
                    pending' # <<>> /\ GoesOn(currentNal[Len(currentNal)], Head(pending'))
    <3>1. Clean' => Clean
      BY <1>1 DEF Clean
    <3>2. QED BY <1>1, <2>1, <3>1, Zenon DEF FrameKept
  <2>2. /\ Beginning(currentNal) /\ some /\ Used(f, seqLast)
        /\ \A q \in Alive : q.seq = After(seqLast) => GoesOn(currentNal[Len(currentNal)], q)
        /\ seq = After(seqLast) => GoesOn(currentNal[Len(currentNal)], a)
    BY <1>2, <1>5, <2>1, Zenon DEF FrameKept
  <2>3. Used(f, seqLast)' /\ seq' # After(seqLast)
    <3>1. seqLast' = seqLast
      BY <1>1
    <3>2. Used(f, seqLast)' <=> Ahead(f, seqLast) < Ahead(f, seq')
      BY <3>1 DEF Used, Ahead
    <3>3. PICK s \in Seqs : s = seqLast
      BY <1>3
    <3>4. Used(f, s)' /\ seq' # After(s)
      BY <1>13, <2>2, <3>3
    <3>5. Used(f, s)' <=> Ahead(f, s) < Ahead(f, seq')
      BY DEF Used, Ahead
    <3>6. QED BY <3>2, <3>3, <3>4, <3>5
  <2>4. \A q \in Alive' : q.seq = After(seqLast) => GoesOn(currentNal[Len(currentNal)], q)
    BY <1>6, <1>12, <1>16, <2>2, Zenon
  <2>5. QED BY <2>2, <2>3, <2>4, Zenon
<1>19. QED BY <1>17, <1>18

\* Sending a packet, to a channel that plays or to none.
LEMMA SendPacketFrames ==
  ASSUME IInv, NEW f \in Seqs, FramesInv(f), SendPacket, seq' # seq => seq' # f
  PROVE  FramesInv(f)'
<1>1. /\ setup.stops = 0 /\ running /\ InSeries(pending) /\ Quiet
      /\ LinksKept(f) /\ FrameKept(f) /\ WholeFrames
  BY DEF FramesInv
<1>2. /\ setup' = setup /\ pending # <<>> /\ pending' = Tail(pending) /\ playing' = playing
      /\ UNCHANGED <<running, some, seqLast, currentNal, containsMissing, framingError, out, rtpData>>
  BY DEF SendPacket, receiver, frame
<1>3. seq \in Seqs /\ pending \in Seq(Packets)
  BY DEF IInv, SenderTypes, Outgoing
<1>4. InSeries(pending)'
  <2>1. PICK n \in Nat : n = Len(pending) /\ DOMAIN pending = 1..n /\ n >= 1
    BY <1>2, <1>3
  <2>2. PICK t \in Seq(Packets) : /\ t = Tail(pending) /\ DOMAIN t = 1..(n - 1)
                                  /\ \A i \in 1..(n - 1) : t[i] = pending[i + 1]
    BY <1>2, <1>3, <2>1
  <2>3. ASSUME NEW i \in 1..(n - 1)
        PROVE  WellMade(t[i]) /\ (Begun(t[i]) => i + 1 \in 1..(n - 1) /\ GoesOn(t[i].pieces[1], t[i + 1]))
    <3>1. PICK j \in 1..n : j = i + 1
      BY <2>1
    <3>2. WellMade(pending[j]) /\ (Begun(pending[j]) => /\ j + 1 \in 1..n
                                                        /\ GoesOn(pending[j].pieces[1], pending[j + 1]))
      BY <1>1, <2>1, Zenon DEF InSeries
    <3>3. t[i] = pending[j]
      BY <2>2, <3>1
    <3>4. j + 1 \in 1..n => i + 1 \in 1..(n - 1) /\ t[i + 1] = pending[j + 1]
      BY <2>1, <2>2, <3>1
    <3>5. QED BY <3>2, <3>3, <3>4, Zenon
  <2>4. \A p : WellMade(p)' <=> WellMade(p)
    BY <1>2 DEF WellMade, Whole, Size
  <2>5. pending' = t
    BY <1>2, <2>2
  <2>6. QED BY <2>2, <2>3, <2>4, <2>5, Zenon DEF InSeries
<1>5. WholeFrames'
  BY <1>1, <1>2, WholeStay
<1>6. CASE playing
  <2>1. seq' # f
    <3>1. seq' = After(seq) /\ After(seq) # seq
      BY <1>3, <1>6, NextNumber, Numbers DEF SendPacket
    <3>2. QED BY <3>1
  <2>2. LinksKept(f)' /\ FrameKept(f)'
    BY <1>6, <2>1, SentLinked
  <2>3. Quiet'
    BY <1>2, <1>6 DEF Quiet
  <2>4. QED BY <1>1, <1>2, <1>4, <1>5, <2>2, <2>3, Zenon DEF FramesInv
<1>7. CASE ~playing
  <2>1. seq' = seq /\ net' = net
    BY <1>7 DEF SendPacket
  <2>2. net = <<>> /\ DOMAIN rtpData = {} /\ currentNal = <<>>
    BY <1>1, <1>7, Zenon DEF Quiet
  <2>3. Alive = {} /\ Alive' \subseteq Alive
    BY <1>2, <2>1, <2>2 DEF Alive
  <2>4. LinksKept(f)'
    BY <1>1, <1>2, <2>1, <2>3, LinksStay
  <2>5. FrameKept(f)'
    BY <1>1, <1>2, <2>1, <2>2, <2>3, FrameStays
  <2>6. Quiet'
    BY <1>2, <2>1, <2>2 DEF Quiet
  <2>7. QED BY <1>1, <1>2, <1>4, <1>5, <2>4, <2>5, <2>6, Zenon DEF FramesInv
<1>8. QED BY <1>6, <1>7

\* The receiver takes a packet, and handles it or one that waited.
LEMMA ReceiveFrames ==
  ASSUME IInv, NEW f \in Seqs, FramesInv(f), NEW k \in DOMAIN net, Receive(k)
  PROVE  FramesInv(f)'
<1>1. /\ setup.stops = 0 /\ running /\ InSeries(pending) /\ Quiet
      /\ LinksKept(f) /\ FrameKept(f) /\ WholeFrames
  BY DEF FramesInv
<1>2. /\ UNCHANGED <<setup, playing, seq, pending, running>> /\ net' = RemoveAt(net, k)
  BY DEF Receive, sender
<1>3. PICK p : p = net[k]
  OBVIOUS
<1>4. p \in Alive /\ \A j \in DOMAIN net' : net'[j] \in Alive
  <2>1. net \in Seq({net[i] : i \in DOMAIN net})
    BY DEF IInv, NetworkTypes
  <2>2. net' \in Seq({net[i] : i \in DOMAIN net})
    BY <1>2, <2>1, Removed
  <2>3. \A j \in DOMAIN net' : net'[j] \in {net[i] : i \in DOMAIN net}
    BY <2>2, ElementOfSeq
  <2>4. QED BY <1>3, <2>3 DEF Alive
<1> DEFINE waiting == DOMAIN rtpData \cup {p.seq}
           data == [s \in waiting |-> IF s = p.seq THEN p ELSE rtpData[s]]
<1>5. DOMAIN data = waiting /\ \A s \in waiting : data[s] \in Alive
  BY <1>4 DEF Alive
<1>6. PICK key \in waiting :
        IF IsNext(key, waiting)
        THEN rtpData' = [s \in waiting \ {key} |-> data[s]] /\ Handle(data[key])
        ELSE rtpData' = data /\ UNCHANGED <<some, seqLast, frame>>
  BY <1>3, Zenon DEF Receive
<1> HIDE DEF data, waiting
<1>7. Alive' \subseteq Alive
  <2>1. \A s \in DOMAIN rtpData' : rtpData'[s] \in Alive
    <3>1. CASE IsNext(key, waiting)
      BY <1>5, <1>6, <3>1
    <3>2. CASE ~IsNext(key, waiting)
      BY <1>5, <1>6, <3>2
    <3>3. QED BY <3>1, <3>2
  <2>2. QED BY <1>4, <2>1 DEF Alive
<1>8. LinksKept(f)'
  BY <1>1, <1>2, <1>7, LinksStay
<1>9. InSeries(pending)'
  BY <1>1, <1>2, SeriesStay
<1>10. Quiet'
  <2>1. net # <<>>
    BY DEF IInv, NetworkTypes
  <2>2. playing'
    BY <1>1, <1>2, <2>1, Zenon DEF Quiet
  <2>3. QED BY <2>2 DEF Quiet
<1>11. FrameKept(f)' /\ WholeFrames'
  <2>1. CASE IsNext(key, waiting)
    <3>1. PICK h \in Alive : h = data[key] /\ Handle(h)
      BY <1>5, <1>6, <2>1, Zenon
    <3>2. h \in Packets
      BY AliveTyped
    <3>3. QED BY <1>1, <1>2, <1>7, <3>1, <3>2, HandleKept
  <2>2. CASE ~IsNext(key, waiting)
    <3>1. UNCHANGED <<some, seqLast, currentNal, containsMissing, framingError, out>>
      BY <1>6, <2>2 DEF frame
    <3>2. QED BY <1>1, <1>2, <1>7, <3>1, FrameStays, WholeStay
  <2>3. QED BY <2>1, <2>2
<1>12. QED BY <1>1, <1>2, <1>8, <1>9, <1>10, <1>11, Zenon DEF FramesInv

\* Steps that leave the receiver and the numbers alone.
LEMMA OtherFrames ==
  ASSUME IInv, NEW f \in Seqs, FramesInv(f), setup' = setup, seq' = seq, receiver' = receiver,
         Alive' \subseteq Alive, InSeries(pending)', Quiet',
         pending = <<>> \/ pending' = pending
  PROVE  FramesInv(f)'
<1>1. /\ setup.stops = 0 /\ running /\ LinksKept(f) /\ FrameKept(f) /\ WholeFrames
  BY DEF FramesInv
<1>2. UNCHANGED <<running, some, seqLast, rtpData, currentNal, containsMissing, framingError, out>>
  BY DEF receiver, frame
<1>3. LinksKept(f)'
  BY <1>1, LinksStay
<1>4. FrameKept(f)'
  BY <1>1, <1>2, FrameStays
<1>5. WholeFrames'
  BY <1>1, <1>2, WholeStay
<1>6. QED BY <1>1, <1>2, <1>3, <1>4, <1>5, Zenon DEF FramesInv

\* Every step, of which stopping is none.
LEMMA NextFrames ==
  ASSUME IInv, NEW f \in Seqs, FramesInv(f), [Next]_vars, seq' # seq => seq' # f
  PROVE  FramesInv(f)'
<1>1. /\ setup.stops = 0 /\ running /\ InSeries(pending) /\ Quiet
  BY DEF FramesInv
<1>2. ASSUME UNCHANGED <<setup, seq, playing, net, receiver>>, pending' = pending
      PROVE  FramesInv(f)'
  <2>1. Alive' = Alive /\ Quiet'
    BY <1>1, <1>2 DEF Alive, Quiet, receiver, frame
  <2>2. InSeries(pending)'
    BY <1>1, <1>2, SeriesStay
  <2>3. QED BY <1>2, <2>1, <2>2, OtherFrames
<1>3. CASE Send
  <2>1. /\ UNCHANGED <<setup, playing, seq, net, receiver>> /\ pending = <<>>
    BY <1>3 DEF Send, network
  <2>2. InSeries(pending')
    BY <1>3, SendSeries
  <2>3. InSeries(pending)'
    <3>1. \A p : WellMade(p)' <=> WellMade(p)
      BY <2>1 DEF WellMade, Whole, Size
    <3>2. QED BY <2>2, <3>1, Zenon DEF InSeries
  <2>4. Alive' = Alive /\ Quiet'
    BY <1>1, <2>1 DEF Alive, Quiet, receiver, frame
  <2>5. QED BY <2>1, <2>3, <2>4, OtherFrames
<1>4. CASE SendPacket
  BY <1>4, SendPacketFrames
<1>5. CASE Throttle \/ Time
  <2>1. UNCHANGED <<setup, seq, playing, net, receiver>> /\ pending' = pending
    BY <1>5 DEF Throttle, Time, network
  <2>2. QED BY <1>2, <2>1
<1>6. CASE Play
  <2>1. /\ UNCHANGED <<setup, seq, net, receiver>> /\ pending' = pending /\ playing'
    BY <1>6 DEF Play, network
  <2>2. Alive' = Alive /\ Quiet'
    BY <2>1 DEF Alive, Quiet, receiver
  <2>3. InSeries(pending)'
    BY <1>1, <2>1, SeriesStay
  <2>4. QED BY <2>1, <2>2, <2>3, OtherFrames
<1>7. CASE Stop \/ Start \/ Miss
  <2>1. stops \in 0..setup.stops
    BY DEF IInv, ReceiverTypes
  <2>2. ~(stops < setup.stops)
    BY <1>1, <2>1
  <2>3. QED BY <1>1, <1>7, <2>2 DEF Stop, Start, Miss
<1>8. ASSUME NEW k \in DOMAIN net, Lose(k) PROVE FramesInv(f)'
  <2>1. /\ UNCHANGED <<setup, seq, playing, pending, receiver>> /\ net' = RemoveAt(net, k)
    BY <1>8 DEF Lose, Drop, sender
  <2>2. \A j \in DOMAIN net' : net'[j] \in {net[i] : i \in DOMAIN net}
    <3>1. net \in Seq({net[i] : i \in DOMAIN net}) /\ net # <<>>
      BY DEF IInv, NetworkTypes
    <3>2. net' \in Seq({net[i] : i \in DOMAIN net})
      BY <2>1, <3>1, Removed
    <3>3. QED BY <3>2, ElementOfSeq
  <2>3. Alive' \subseteq Alive
    BY <2>1, <2>2 DEF Alive, receiver
  <2>4. Quiet'
    <3>1. net # <<>>
      BY DEF IInv, NetworkTypes
    <3>2. playing'
      BY <1>1, <2>1, <3>1, Zenon DEF Quiet
    <3>3. QED BY <3>2 DEF Quiet
  <2>5. InSeries(pending)'
    BY <1>1, <2>1, SeriesStay
  <2>6. QED BY <2>1, <2>3, <2>4, <2>5, OtherFrames
<1>9. ASSUME NEW k \in DOMAIN net, Receive(k) PROVE FramesInv(f)'
  BY <1>9, ReceiveFrames
<1>10. CASE UNCHANGED vars
  <2>1. UNCHANGED <<setup, seq, playing, net, receiver>> /\ pending' = pending
    BY <1>10 DEF vars, sender, network
  <2>2. QED BY <1>2, <2>1
<1>11. QED BY <1>3, <1>4, <1>5, <1>6, <1>7, <1>8, <1>9, <1>10 DEF Next, Sends

\* What holds in the beginning.
LEMMA InitFrames ==
  ASSUME NEW f
  PROVE  Init /\ seq = f /\ setup.stops = 0 => FramesInv(f)
<1> SUFFICES ASSUME Init, setup.stops = 0 PROVE FramesInv(f)
  OBVIOUS
<1>1. /\ pending = <<>> /\ net = <<>> /\ rtpData = <<>> /\ currentNal = <<>> /\ out = <<>>
      /\ running = TRUE
  BY Zenon DEF Init
<1>2. Alive = {} /\ ~Clean /\ DOMAIN rtpData = {}
  BY <1>1 DEF Alive, Clean
<1>3. InSeries(pending) /\ WholeFrames
  BY <1>1 DEF InSeries, WholeFrames
<1>4. LinksKept(f) /\ FrameKept(f) /\ Quiet
  BY <1>1, <1>2, Zenon DEF LinksKept, FrameKept, Quiet
<1>5. QED BY <1>1, <1>3, <1>4, Zenon DEF FramesInv

\* As long as the receiver runs and the sequence numbers have not come round to the
\* first, f, no loss and no overtaking makes it deliver a frame with a hole in it or
\* one put together from two, for any stream, network and bounds: a packet that
\* does not go on with what is put together is found by its number or its flags.
THEOREM FramesWhole ==
  ASSUME NEW f \in Seqs
  PROVE  Spec /\ seq = f /\ setup.stops = 0 /\ [][seq' # f]_seq => []WholeFrames
<1>1. Init /\ seq = f /\ setup.stops = 0 => FramesInv(f)
  BY InitFrames
<1>2. IInv /\ FramesInv(f) /\ [Next]_vars /\ [seq' # f]_seq => FramesInv(f)'
  BY NextFrames
<1>3. FramesInv(f) => WholeFrames
  BY DEF FramesInv
<1>4. QED BY <1>1, <1>2, <1>3, InitIInv, NextIInv, PTL DEF Spec

-----------------------------------------------------------------------------
(***************************************************************************)
(* Frames come in the order they were sent.                                *)
(*                                                                         *)
(* As before the numbers have not come round to the first, f, and the      *)
(* receiver runs.  The NAL units of packets ascend in the order of the     *)
(* numbers; what is under way, what waits and what is still to be sent     *)
(* comes after what was handled.                                           *)
(***************************************************************************)

\* The NAL units of a packet.
Carried(p) == Carries(p.pieces)

\* The units of p are no later than those of q, and earlier when p ends one.
Precedes(p, q) == \A m \in Carried(p), n \in Carried(q) : m <= n /\ (Ends(p) => m < n)
InRow(s) == \A i, j \in DOMAIN s : i < j => Precedes(s[i], s[j])

\* The first unit of the next buffer.
NextNal == IF at = 0 THEN 1 ELSE setup.ends[at] + 1

\* What is under way, waits, or is to be sent.
SentInRow(f) ==
  /\ InRow(pending)
  /\ \A p, q \in Alive : Ahead(f, p.seq) < Ahead(f, q.seq) => Precedes(p, q)
  /\ \A p \in Alive : \A i \in DOMAIN pending : Precedes(p, pending[i])
  /\ \A p \in Alive : \A n \in Carried(p) : n < NextNal
  /\ \A i \in DOMAIN pending : \A n \in Carried(pending[i]) : n < NextNal

\* What is under way has numbers after the last that was handled, and so has what
\* waits, unless it has been left behind by a rollover; and it did not overtake too far.
Fresh(f, s) == some => Ahead(f, seqLast) < Ahead(f, s)
NetInRow(f) ==
  /\ \A i, j \in DOMAIN net : i < j => Ahead(f, net[i].seq) < Ahead(f, net[j].seq)
  /\ \A k \in DOMAIN net : Fresh(f, net[k].seq)
  /\ \A s \in DOMAIN rtpData : Fresh(f, s) \/ (f <= s /\ seqLast < f)
  /\ \A s \in DOMAIN rtpData : \A k \in DOMAIN net :
       s # net[k].seq /\ Ahead(f, s) <= Ahead(f, net[k].seq) + setup.reorder
  /\ IF some THEN Used(f, seqLast) ELSE DOMAIN rtpData = {}

\* The frames are in order, and what is still to be handled comes after them.
Delivered == UNION {Carries(out[i]) : i \in DOMAIN out}
Behind(q) == \A n \in Carried(q) :
               (\A m \in Delivered : m < n) /\ (\A m \in Carries(currentNal) : m <= n)
OutInRow(f) ==
  /\ InOrder
  /\ \A m \in Delivered : \A n \in Carries(currentNal) : m < n
  /\ \A p \in Alive : Fresh(f, p.seq) => Behind(p)
  /\ \A i \in DOMAIN pending : Behind(pending[i])
  /\ \A m \in Delivered \cup Carries(currentNal) : m < NextNal

\* Nothing overtakes, or not farther than the receiver waits, and without a rollover.
Calm(f) == setup.reorder = 0 \/ (setup.reorder <= MaxWait /\ f <= seq)

OrderInv(f) == SentInRow(f) /\ NetInRow(f) /\ OutInRow(f)

\* The units of a series, and series one after the other with units from lo to hi.
UnitsOf(s) == UNION {Carried(s[i]) : i \in DOMAIN s}
Lower(A, B) == \A m \in A, n \in B : m < n
InRows(all, lo, hi) ==
  /\ \A u \in DOMAIN all : InRow(all[u]) /\ UnitsOf(all[u]) \subseteq lo..hi
  /\ \A u, v \in DOMAIN all : u < v => Lower(UnitsOf(all[u]), UnitsOf(all[v]))

\* What a buffer has been made into, up to the n-th NAL unit of the stream.
Rows(m, lo, n) ==
  /\ InRows(m.series, lo, n)
  /\ Carries(m.stap) \subseteq lo..n
  /\ \A u \in DOMAIN m.series : Lower(UnitsOf(m.series[u]), Carries(m.stap))
  /\ ~setup.stap => m.stap = <<>>

\* A unit's fragments are in a row, and only the last ends it.
LEMMA NalPacketsRow ==
  ASSUME setup \in Setups, NEW n \in DOMAIN setup.nals
  PROVE  InRow(NalPackets(n)) /\ UnitsOf(NalPackets(n)) \subseteq {n}
<1>1. MaxPayload \in Nat /\ n \in Nat /\ Size(n) \in Nat \ {0}
  BY RtpAssumption, Units
<1>2. CASE Size(n) <= MaxPayload
  <2>1. PICK x : x = Piece(n, 1, Size(n))
    OBVIOUS
  <2>2. PICK p : p = Packet(1, FALSE, FALSE, TRUE, <<x>>)
    OBVIOUS
  <2>3. NalPackets(n) = <<p>>
    BY <1>2, <2>1, <2>2, Zenon DEF NalPackets
  <2>4. Carried(p) = {n}
    <3>1. p.pieces = <<x>> /\ x.nal = n
      BY <2>1, <2>2 DEF Packet, Piece
    <3>2. QED BY <3>1 DEF Carried, Carries
  <2>5. DOMAIN <<p>> = {1} /\ <<p>>[1] = p /\ ~(1 < 1)
    OBVIOUS
  <2>6. InRow(<<p>>)
    BY <2>5 DEF InRow
  <2>7. UnitsOf(<<p>>) \subseteq {n}
    BY <2>4, <2>5 DEF UnitsOf
  <2>8. QED BY <2>3, <2>6, <2>7
<1>3. CASE Size(n) > MaxPayload
  <2>1. PICK m : m = Fragments(n)
    OBVIOUS
  <2> DEFINE s == [j \in 1..m |-> Packet(28, j = 1, j = m, j = m, <<Part(n, j, m)>>)]
  <2>2. NalPackets(n) = s
    BY <1>1, <1>3, <2>1 DEF NalPackets
  <2>3. ASSUME NEW i \in 1..m
        PROVE  /\ s[i].type = 28 /\ s[i].pieces = <<Part(n, i, m)>>
               /\ (s[i].last <=> i = m) /\ (s[i].end <=> i = m)
    BY DEF Packet
  <2>4. DOMAIN s = 1..m
    OBVIOUS
  <2> HIDE DEF s
  <2>5. ASSUME NEW i \in 1..m PROVE Carried(s[i]) = {n}
    <3>1. PICK x : x = Part(n, i, m)
      OBVIOUS
    <3>2. x.nal = n
      BY <3>1 DEF Part, Piece
    <3>3. s[i].pieces = <<x>>
      BY <2>3, <3>1
    <3>4. QED BY <3>2, <3>3 DEF Carried, Carries
  <2>6. ASSUME NEW i \in 1..m, NEW j \in 1..m, i < j PROVE Precedes(s[i], s[j])
    <3>1. i # m
      <4>1. ASSUME i = m PROVE FALSE
        BY <2>6, <4>1
      <4>2. QED BY <4>1
    <3>2. ~Ends(s[i])
      BY <2>3, <3>1, Zenon DEF Ends
    <3>3. n <= n
      BY <1>1
    <3>4. QED BY <2>5, <3>2, <3>3 DEF Precedes
  <2>7. InRow(s)
    BY <2>4, <2>6 DEF InRow
  <2>8. UnitsOf(s) \subseteq {n}
    BY <2>4, <2>5 DEF UnitsOf
  <2>9. QED BY <2>2, <2>7, <2>8
<1>4. QED BY <1>1, <1>2, <1>3

\* Later packets after earlier ones.
LEMMA ConcatRow ==
  ASSUME NEW S, NEW a \in Seq(S), NEW b \in Seq(S), InRow(a), InRow(b),
         UnitsOf(a) \subseteq Nat, UnitsOf(b) \subseteq Nat, Lower(UnitsOf(a), UnitsOf(b))
  PROVE  InRow(a \o b) /\ UnitsOf(a \o b) = UnitsOf(a) \cup UnitsOf(b)
<1>1. PICK m \in Nat, n \in Nat : m = Len(a) /\ n = Len(b) /\ DOMAIN a = 1..m /\ DOMAIN b = 1..n
  OBVIOUS
<1> DEFINE c == a \o b
<1>2. /\ DOMAIN c = 1..(m + n)
      /\ \A i \in 1..m : c[i] = a[i]
      /\ \A i \in 1..n : c[m + i] = b[i]
  BY <1>1
<1> HIDE DEF c
<1>3. \A i \in 1..(m + n) : i \in 1..m \/ \E j \in 1..n : i = m + j
  <2>1. ASSUME NEW i \in 1..(m + n), i \notin 1..m PROVE i - m \in 1..n /\ i = m + (i - m)
    BY <1>1, <2>1
  <2>2. QED BY <2>1
<1>4. \A i \in 1..m : i \in 1..(m + n)
  BY <1>1
<1>5. \A j \in 1..n : m + j \in 1..(m + n)
  BY <1>1
<1>6. \A i \in 1..m : Carried(a[i]) \subseteq UnitsOf(a)
  BY <1>1 DEF UnitsOf
<1>7. \A j \in 1..n : Carried(b[j]) \subseteq UnitsOf(b)
  BY <1>1 DEF UnitsOf
<1>8. UnitsOf(c) = UnitsOf(a) \cup UnitsOf(b)
  <2>1. ASSUME NEW x \in UnitsOf(c) PROVE x \in UnitsOf(a) \cup UnitsOf(b)
    <3>1. PICK i \in 1..(m + n) : x \in Carried(c[i])
      BY <1>2 DEF UnitsOf
    <3>2. QED BY <1>2, <1>3, <1>6, <1>7, <3>1, Zenon
  <2>2. ASSUME NEW x \in UnitsOf(a) PROVE x \in UnitsOf(c)
    <3>1. PICK i \in 1..m : x \in Carried(a[i])
      BY <1>1 DEF UnitsOf
    <3>2. QED BY <1>2, <1>4, <3>1, Zenon DEF UnitsOf
  <2>3. ASSUME NEW x \in UnitsOf(b) PROVE x \in UnitsOf(c)
    <3>1. PICK j \in 1..n : x \in Carried(b[j])
      BY <1>1 DEF UnitsOf
    <3>2. QED BY <1>2, <1>5, <3>1, Zenon DEF UnitsOf
  <2>4. QED BY <2>1, <2>2, <2>3
<1>9. ASSUME NEW i \in 1..(m + n), NEW j \in 1..(m + n), i < j PROVE Precedes(c[i], c[j])
  <2>1. CASE i \in 1..m /\ j \in 1..m
    BY <1>1, <1>2, <1>9, <2>1 DEF InRow
  <2>2. CASE i \in 1..m /\ j \notin 1..m
    <3>1. PICK k \in 1..n : j = m + k
      BY <1>3, <2>2
    <3>2. c[i] = a[i] /\ c[j] = b[k]
      BY <1>2, <2>2, <3>1
    <3>3. Carried(c[i]) \subseteq UnitsOf(a) /\ Carried(c[j]) \subseteq UnitsOf(b)
      BY <1>6, <1>7, <2>2, <3>2
    <3>4. \A x \in UnitsOf(a), y \in UnitsOf(b) : x < y /\ x <= y
      BY DEF Lower
    <3>5. QED BY <3>3, <3>4 DEF Precedes
  <2>3. CASE i \notin 1..m
    <3>1. PICK k \in 1..n : i = m + k
      BY <1>3, <2>3
    <3>2. j \notin 1..m
      BY <1>1, <1>9, <2>3
    <3>3. PICK l \in 1..n : j = m + l
      BY <1>3, <3>2
    <3>4. k < l
      BY <1>1, <1>9, <3>1, <3>3
    <3>5. Precedes(b[k], b[l])
      BY <1>1, <3>4 DEF InRow
    <3>6. QED BY <1>2, <3>1, <3>3, <3>5
  <2>4. QED BY <2>1, <2>2, <2>3
<1>10. InRow(c)
  BY <1>2, <1>9 DEF InRow
<1>11. QED BY <1>8, <1>10 DEF c

\* One series more.
LEMMA AppendRows ==
  ASSUME NEW S, NEW all \in Seq(Seq(S)), NEW s \in Seq(S), NEW lo \in Int, NEW hi \in Int,
         InRows(all, lo, hi), InRow(s), UnitsOf(s) \subseteq lo..hi,
         \A u \in DOMAIN all : Lower(UnitsOf(all[u]), UnitsOf(s))
  PROVE  InRows(Append(all, s), lo, hi)
<1>1. PICK n \in Nat : n = Len(all) /\ DOMAIN all = 1..n
  OBVIOUS
<1> DEFINE more == Append(all, s)
<1>2. DOMAIN more = 1..(n + 1) /\ more[n + 1] = s /\ \A u \in 1..n : more[u] = all[u]
  BY <1>1
<1> HIDE DEF more
<1>3. \A u \in 1..(n + 1) : u \in 1..n \/ u = n + 1
  BY <1>1
<1>4. \A u, v \in 1..(n + 1) : u < v => u \in 1..n
  BY <1>1
<1>5. /\ \A u \in 1..n : InRow(all[u]) /\ UnitsOf(all[u]) \subseteq lo..hi
      /\ \A u, v \in 1..n : u < v => Lower(UnitsOf(all[u]), UnitsOf(all[v]))
      /\ \A u \in 1..n : Lower(UnitsOf(all[u]), UnitsOf(s))
  BY <1>1, Zenon DEF InRows
<1>6. \A u \in 1..(n + 1) : InRow(more[u]) /\ UnitsOf(more[u]) \subseteq lo..hi
  BY <1>2, <1>3, <1>5, Zenon
<1>7. \A u, v \in 1..(n + 1) : u < v => Lower(UnitsOf(more[u]), UnitsOf(more[v]))
  BY <1>2, <1>3, <1>4, <1>5, Zenon
<1>8. InRows(more, lo, hi)
  BY <1>2, <1>6, <1>7, Zenon DEF InRows
<1>9. QED BY <1>8 DEF more

\* The series of a buffer in one.
LEMMA FlattenedRow ==
  ASSUME NEW S, NEW all \in Seq(Seq(S)), NEW lo \in Nat, NEW hi \in Int, InRows(all, lo, hi)
  PROVE  InRow(FlattenSeq(all)) /\ UnitsOf(FlattenSeq(all)) \subseteq lo..hi
<1>1. PICK n \in Nat : n = Len(all) /\ DOMAIN all = 1..n
  OBVIOUS
<1>2. PICK e : /\ FlattenSeq(all) = IF n = 0 THEN <<>> ELSE e[n]
               /\ \A i \in 1..n : e[i] = IF i = 1 THEN all[i] ELSE e[i - 1] \o all[i]
  <2>1. <<>> \in Seq(S) /\ \A a, b \in Seq(S) : a \o b \in Seq(S)
    OBVIOUS
  <2>2. QED BY <1>1, <2>1, FlattenedSteps, Zenon
<1>3. /\ \A u \in 1..n : /\ all[u] \in Seq(S) /\ InRow(all[u])
                         /\ UnitsOf(all[u]) \subseteq lo..hi
      /\ \A u, v \in 1..n : u < v => Lower(UnitsOf(all[u]), UnitsOf(all[v]))
  <2>1. \A u \in 1..n : all[u] \in Seq(S)
    BY <1>1, ElementOfSeq
  <2>2. QED BY <1>1, <2>1, Zenon DEF InRows
<1> DEFINE Good(k) == /\ e[k] \in Seq(S) /\ InRow(e[k]) /\ UnitsOf(e[k]) \subseteq lo..hi
                      /\ \A x \in UnitsOf(e[k]) : \E u \in 1..k : x \in UnitsOf(all[u])
           T == {k \in Nat : k \in 1..n => Good(k)}
<1>4. 0 \in T
  BY <1>1
<1>5. ASSUME NEW k \in T PROVE k + 1 \in T
  <2>1. k \in Nat /\ (k + 1) - 1 = k
    OBVIOUS
  <2>2. SUFFICES ASSUME k + 1 \in 1..n PROVE Good(k + 1)
    BY <2>1
  <2>3. CASE k = 0
    <3>1. e[1] = all[1] /\ 1 \in 1..n /\ 1 \in 1..1 /\ k + 1 = 1
      BY <1>2, <2>2, <2>3
    <3> HIDE DEF T
    <3>2. e[1] \in Seq(S) /\ InRow(e[1]) /\ UnitsOf(e[1]) \subseteq lo..hi
      BY <1>3, <3>1, Zenon
    <3>3. \A x \in UnitsOf(e[1]) : \E u \in 1..1 : x \in UnitsOf(all[u])
      BY <3>1, Zenon
    <3>4. Good(1)
      BY <3>2, <3>3, Zenon
    <3> HIDE DEF Good
    <3>5. QED BY <3>1, <3>4
  <2>4. CASE k # 0
    <3>1. k \in 1..n /\ k + 1 # 1
      BY <1>1, <2>1, <2>2, <2>4
    <3>2. Good(k)
      BY <3>1
    <3> HIDE DEF T
    <3>3. e[k + 1] = e[k] \o all[k + 1]
      BY <1>2, <2>1, <2>2, <3>1
    <3>4. PICK a \in Seq(S), b \in Seq(S) : a = e[k] /\ b = all[k + 1]
      BY <1>3, <2>2, <3>2
    <3>5. \A u \in 1..k : u < k + 1 /\ u \in 1..n /\ u \in 1..(k + 1)
      BY <2>1, <2>2
    <3>6. Lower(UnitsOf(a), UnitsOf(b))
      BY <1>3, <2>2, <3>2, <3>4, <3>5, Zenon DEF Lower
    <3>7. UnitsOf(a) \subseteq Nat /\ UnitsOf(b) \subseteq Nat
      <4>1. lo..hi \subseteq Nat
        OBVIOUS
      <4>2. QED BY <1>3, <2>2, <3>2, <3>4, <4>1
    <3>8. InRow(a \o b) /\ UnitsOf(a \o b) = UnitsOf(a) \cup UnitsOf(b)
      <4>1. InRow(a) /\ InRow(b)
        BY <1>3, <2>2, <3>2, <3>4
      <4> HIDE DEF Good
      <4>2. QED BY <3>6, <3>7, <4>1, ConcatRow
    <3>9. a \o b \in Seq(S) /\ k + 1 \in 1..(k + 1)
      BY <2>1
    <3>10. UnitsOf(a) \subseteq lo..hi /\ UnitsOf(b) \subseteq lo..hi
      BY <1>3, <2>2, <3>2, <3>4
    <3>11. \A x \in UnitsOf(a \o b) : \E u \in 1..(k + 1) : x \in UnitsOf(all[u])
      BY <3>2, <3>4, <3>5, <3>8, <3>9
    <3>12. e[k + 1] = a \o b
      BY <3>3, <3>4
    <3>13. UnitsOf(a \o b) \subseteq lo..hi
      BY <3>8, <3>10
    <3>14. QED BY <3>8, <3>9, <3>11, <3>12, <3>13, Zenon
  <2>5. QED BY <2>3, <2>4
<1>6. T = Nat
  <2> HIDE DEF T
  <2>1. QED BY <1>4, <1>5, NatSetInduction DEF T
<1>7. CASE n = 0
  <2>1. FlattenSeq(all) = <<>>
    BY <1>2, <1>7
  <2>2. QED BY <2>1 DEF InRow, UnitsOf
<1>8. CASE n # 0
  <2>1. n \in 1..n /\ FlattenSeq(all) = e[n]
    BY <1>2, <1>8
  <2>2. Good(n)
    BY <1>6, <2>1
  <2>3. QED BY <2>1, <2>2
<1>9. QED BY <1>7, <1>8

LEMMA FlushRows ==
  ASSUME setup \in Setups, NEW m \in Goods, NEW lo \in Nat, NEW n \in Int, Rows(m, lo, n)
  PROVE  Rows(Flush(m), lo, n)
<1>0. Flush(m).stap = <<>> /\ Carries(<<>>) = {}
  BY FlushGood DEF Carries
<1>1. CASE m.stap = <<>>
  <2>1. Flush(m) = m
    BY <1>1, Zenon DEF Flush
  <2>2. QED BY <2>1
<1>2. CASE m.stap # <<>>
  <2>1. PICK p \in Made : p = Packet(24, FALSE, FALSE, TRUE, m.stap)
    BY <1>2, AggregateMade
  <2>2. p.pieces = m.stap
    BY <2>1 DEF Packet
  <2>3. m.series \in Seq(Seq(Made)) /\ <<p>> \in Seq(Made)
    <3> HIDE DEF Made
    <3>1. QED BY DEF Goods
  <2>4. DOMAIN <<p>> = {1} /\ <<p>>[1] = p /\ ~(1 < 1)
    OBVIOUS
  <2>5. InRow(<<p>>) /\ UnitsOf(<<p>>) = Carries(m.stap)
    BY <2>2, <2>4 DEF InRow, UnitsOf, Carried
  <2>6. /\ InRows(m.series, lo, n) /\ Carries(m.stap) \subseteq lo..n
        /\ \A u \in DOMAIN m.series : Lower(UnitsOf(m.series[u]), Carries(m.stap))
    BY DEF Rows
  <2>7. InRows(Append(m.series, <<p>>), lo, n)
    <3>1. UnitsOf(<<p>>) \subseteq lo..n /\ lo \in Int
      BY <2>5, <2>6
    <3>2. \A u \in DOMAIN m.series : Lower(UnitsOf(m.series[u]), UnitsOf(<<p>>))
      BY <2>5, <2>6
    <3> HIDE DEF Made
    <3>3. QED BY <2>3, <2>5, <2>6, <3>1, <3>2, AppendRows
  <2>8. Flush(m) = [m EXCEPT !.series = Append(@, <<p>>), !.stap = <<>>, !.size = 0]
    BY <1>2, <2>1, Zenon DEF Flush
  <2>9. Flush(m).series = Append(m.series, <<p>>)
    BY <2>8 DEF Goods
  <2>10. \A A : Lower(A, {})
    BY DEF Lower
  <2>11. QED BY <1>0, <2>7, <2>9, <2>10 DEF Rows
<1>3. QED BY <1>1, <1>2

\* The next unit is not in it yet.
LEMMA LaterRows ==
  ASSUME NEW m, NEW lo \in Nat, NEW n \in Nat, Rows(m, lo, n - 1)
  PROVE  Rows(m, lo, n)
<1>1. lo..(n - 1) \subseteq lo..n
  OBVIOUS
<1>2. QED BY <1>1 DEF Rows, InRows

LEMMA SendRows ==
  ASSUME setup \in Setups, NEW m \in Goods, NEW n \in DOMAIN setup.nals, NEW lo \in Nat, lo <= n,
         Rows(m, lo, n - 1), m.stap = <<>>
  PROVE  Rows(SendNal(m, n), lo, n)
<1>1. PICK seen \in BOOLEAN : seen = (m.sps \/ Type(n) = "sps")
  OBVIOUS
<1>2. n \in Nat /\ m.series \in Seq(Seq(Made)) /\ NalPackets(n) \in Seq(Made)
  BY NalPacketsMade, Units DEF Goods
<1>3. SendNal(m, n) = [m EXCEPT !.sps = seen,
         !.series = IF seen /\ Type(n) # "undefined" THEN Append(@, NalPackets(n)) ELSE @]
  BY <1>1, Zenon DEF SendNal
<1>4. /\ SendNal(m, n).stap = <<>>
      /\ SendNal(m, n).series = Append(m.series, NalPackets(n)) \/ SendNal(m, n).series = m.series
  BY <1>3 DEF Goods
<1>5. InRow(NalPackets(n)) /\ UnitsOf(NalPackets(n)) \subseteq {n} /\ {n} \subseteq lo..n
  BY <1>2, NalPacketsRow
<1>6. InRows(m.series, lo, n)
  BY <1>2, LaterRows DEF Rows
<1>7. \A u \in DOMAIN m.series : Lower(UnitsOf(m.series[u]), UnitsOf(NalPackets(n)))
  <2>1. \A u \in DOMAIN m.series : UnitsOf(m.series[u]) \subseteq lo..(n - 1)
    BY DEF Rows, InRows
  <2>2. \A x \in lo..(n - 1) : x < n
    BY <1>2
  <2>3. QED BY <1>5, <2>1, <2>2 DEF Lower
<1>8. InRows(SendNal(m, n).series, lo, n)
  <2>1. CASE SendNal(m, n).series = m.series
    BY <1>6, <2>1
  <2>2. CASE SendNal(m, n).series = Append(m.series, NalPackets(n))
    <3>1. UnitsOf(NalPackets(n)) \subseteq lo..n
      BY <1>5
    <3> HIDE DEF Made
    <3>2. InRows(Append(m.series, NalPackets(n)), lo, n)
      BY <1>2, <1>5, <1>6, <1>7, <3>1, AppendRows
    <3>3. QED BY <2>2, <3>2
  <2>3. QED BY <1>4, <2>1, <2>2
<1>9. Carries(<<>>) = {} /\ \A A : Lower(A, {})
  BY DEF Carries, Lower
<1>10. QED BY <1>4, <1>8, <1>9 DEF Rows

LEMMA AggregateRows ==
  ASSUME setup \in Setups, setup.stap, NEW m \in Goods, NEW n \in DOMAIN setup.nals, NEW lo \in Nat,
         lo <= n, Rows(m, lo, n - 1)
  PROVE  Rows(Aggregate(m, n), lo, n)
<1>1. PICK x : x = Piece(n, 1, Size(n))
  OBVIOUS
<1>2. n \in Nat /\ m.stap \in Seq(Pieces) /\ Size(n) \in Nat \ {0}
  BY Units DEF Goods
<1>3. x \in Pieces /\ x.nal = n
  BY <1>1, <1>2 DEF Piece, Pieces
<1>4. /\ Aggregate(m, n).series = m.series
      /\ Aggregate(m, n).stap = Append(m.stap, x)
  BY <1>1 DEF Aggregate, Goods
<1>5. Carries(Append(m.stap, x)) = Carries(m.stap) \cup {n}
  <2>1. PICK k \in Nat : k = Len(m.stap) /\ DOMAIN m.stap = 1..k
    BY <1>2
  <2> DEFINE s == Append(m.stap, x)
  <2>2. DOMAIN s = 1..(k + 1) /\ s[k + 1] = x /\ \A i \in 1..k : s[i] = m.stap[i] /\ i \in 1..(k + 1)
    BY <1>2, <2>1
  <2>3. k + 1 \in 1..(k + 1) /\ \A i \in 1..(k + 1) : i \in 1..k \/ i = k + 1
    BY <2>1
  <2> HIDE DEF s
  <2>4. Carries(s) \subseteq Carries(m.stap) \cup {n}
    <3>1. ASSUME NEW i \in 1..(k + 1) PROVE s[i].nal \in Carries(m.stap) \cup {n}
      BY <1>3, <2>1, <2>2, <2>3 DEF Carries
    <3>2. QED BY <2>2, <3>1 DEF Carries
  <2>5. Carries(m.stap) \subseteq Carries(s) /\ n \in Carries(s)
    BY <1>3, <2>1, <2>2, <2>3 DEF Carries
  <2>6. QED BY <2>4, <2>5 DEF s
<1>6. InRows(m.series, lo, n) /\ Carries(m.stap) \subseteq lo..n
  BY <1>2, LaterRows DEF Rows
<1>7. n \in lo..n
  BY <1>2
<1>8. \A u \in DOMAIN m.series : Lower(UnitsOf(m.series[u]), Carries(m.stap) \cup {n})
  <2>1. \A u \in DOMAIN m.series : /\ UnitsOf(m.series[u]) \subseteq lo..(n - 1)
                                   /\ Lower(UnitsOf(m.series[u]), Carries(m.stap))
    BY DEF Rows, InRows
  <2>2. \A y \in lo..(n - 1) : y < n
    BY <1>2
  <2>3. QED BY <2>1, <2>2 DEF Lower
<1>9. QED BY <1>4, <1>5, <1>6, <1>7, <1>8 DEF Rows

LEMMA PacketizeRows ==
  ASSUME setup \in Setups, NEW m \in Goods, NEW n \in DOMAIN setup.nals, NEW lo \in Nat, lo <= n,
         Rows(m, lo, n - 1)
  PROVE  Rows(Packetize(m, n), lo, n)
<1>1. n \in Nat
  BY Units
<1>2. Flush(m) \in Goods /\ Flush(m).stap = <<>> /\ Rows(Flush(m), lo, n - 1)
  BY <1>1, FlushGood, FlushRows
<1>3. CASE ~setup.stap
  <2>1. m.stap = <<>>
    BY <1>3 DEF Rows
  <2>2. Packetize(m, n) = SendNal(m, n)
    BY <1>3, Zenon DEF Packetize
  <2>3. QED BY <2>1, <2>2, SendRows
<1>4. CASE setup.stap
  <2>1. Rows(SendNal(Flush(m), n), lo, n)
    BY <1>2, SendRows
  <2>2. Rows(Aggregate(m, n), lo, n) /\ Rows(Aggregate(Flush(m), n), lo, n)
    BY <1>2, <1>4, AggregateRows
  <2>3. Rows(m, lo, n)
    BY <1>1, LaterRows
  <2>4. QED BY <1>4, <2>1, <2>2, <2>3, Zenon DEF Packetize
<1>5. QED BY <1>3, <1>4

\* The units of a buffer are in a row.
LEMMA PacketizedRows ==
  ASSUME setup \in Setups, NEW b \in Goods, b.series = <<>>, b.stap = <<>>,
         NEW nals \in Seq(DOMAIN setup.nals), NEW from \in Nat,
         \A i \in DOMAIN nals : nals[i] = from + i - 1
  PROVE  Rows(FoldLeft(Packetize, b, nals), from, from + Len(nals) - 1)
<1>1. PICK n \in Nat : n = Len(nals) /\ DOMAIN nals = 1..n /\ \A i \in 1..n : nals[i] \in DOMAIN setup.nals
  BY ElementOfSeq
<1>0. PICK g : /\ g[0] = b /\ FoldLeft(Packetize, b, nals) = g[Len(nals)]
               /\ \A k \in 0..Len(nals) : g[k] \in Goods
               /\ \A k \in 1..Len(nals) : g[k] = Packetize(g[k - 1], nals[k])
  BY PacketizedSteps, Zenon
<1>2. /\ g[0] = b /\ FoldLeft(Packetize, b, nals) = g[n]
      /\ \A k \in 0..n : g[k] \in Goods
      /\ \A k \in 1..n : g[k] = Packetize(g[k - 1], nals[k])
  BY <1>0, <1>1, Zenon
<1> DEFINE T == {k \in Nat : k <= n => Rows(g[k], from, from + k - 1)}
<1>3. 0 \in T
  <2>1. Carries(<<>>) = {} /\ DOMAIN <<>> = {}
    BY DEF Carries
  <2>2. Rows(b, from, from + 0 - 1)
    BY <2>1 DEF Rows, InRows
  <2>3. QED BY <1>2, <2>2
<1>4. ASSUME NEW k \in T PROVE k + 1 \in T
  <2>1. k \in Nat /\ (k + 1) - 1 = k
    OBVIOUS
  <2>2. SUFFICES ASSUME k + 1 <= n PROVE Rows(g[k + 1], from, from + (k + 1) - 1)
    BY <2>1
  <2>3. k \in 0..n /\ k + 1 \in 1..n /\ Rows(g[k], from, from + k - 1)
    BY <2>1, <2>2
  <2>4. PICK i \in DOMAIN setup.nals : i = nals[k + 1]
    BY <1>1, <2>3
  <2>5. i = from + (k + 1) - 1 /\ i - 1 = from + k - 1 /\ from <= i
    <3>1. nals[k + 1] = from + (k + 1) - 1
      BY <1>1, <2>3
    <3>2. (from + (k + 1) - 1) - 1 = from + k - 1 /\ from <= from + (k + 1) - 1
      BY <2>1
    <3>3. QED BY <2>4, <3>1, <3>2, Zenon
  <2>6. g[k] \in Goods /\ g[k + 1] = Packetize(g[k], i)
    BY <1>2, <2>1, <2>3, <2>4
  <2> HIDE DEF T
  <2>7. Rows(Packetize(g[k], i), from, i)
    <3>1. Rows(g[k], from, i - 1)
      BY <2>3, <2>5
    <3>2. QED BY <2>5, <2>6, <3>1, PacketizeRows, Zenon
  <2>8. QED BY <2>5, <2>6, <2>7
<1>5. T = Nat
  <2> HIDE DEF T
  <2>1. QED BY <1>3, <1>4, NatSetInduction DEF T
<1>6. Rows(g[n], from, from + n - 1)
  BY <1>5
<1>7. QED BY <1>1, <1>2, <1>6, Zenon

\* What processBuffer() has made of a buffer: its units, in a row.
LEMMA SendInRow ==
  ASSUME IInv, Send
  PROVE  InRow(pending') /\ UnitsOf(pending') \subseteq NextNal..setup.ends[at + 1]
<1> DEFINE from == IF at = 0 THEN 1 ELSE setup.ends[at] + 1
           to == setup.ends[at + 1]
           nals == [i \in 1..to - from + 1 |-> from + i - 1]
           empty == [series |-> <<>>, stap |-> <<>>, size |-> 0, sps |-> sps]
           made == Flush(FoldLeft(Packetize, empty, nals))
           place(m, u, j) == [m.series[u][j] EXCEPT !.unit = Len(units) + u]
           placed(m) == [u \in DOMAIN m.series |-> [j \in DOMAIN m.series[u] |-> place(m, u, j)]]
<1>1. setup \in Setups /\ at \in 0..Len(setup.ends) /\ sps \in BOOLEAN /\ at < Len(setup.ends)
  BY DEF IInv, SenderTypes, Send
<1>2. PICK m : m = made /\ pending' = FlattenSeq(placed(m))
  BY Zenon DEF Send
<1>3. from \in Nat /\ to \in Nat
  <2>1. PICK k \in Nat : k = Len(setup.ends) /\ DOMAIN setup.ends = 1..k
    BY <1>1, SetupFacts
  <2>2. at + 1 \in DOMAIN setup.ends /\ (at # 0 => at \in DOMAIN setup.ends)
    BY <1>1, <2>1
  <2>3. \A i \in DOMAIN setup.ends : setup.ends[i] \in Nat
    BY <1>1, <2>1, SetupFacts
  <2>4. QED BY <2>2, <2>3
<1>4. m \in Goods /\ InRows(m.series, from, to)
  <2>1. nals \in Seq(DOMAIN setup.nals) /\ \A i \in DOMAIN nals : nals[i] = from + i - 1
    BY <1>1, NextNals
  <2>2. empty \in Goods /\ empty.series = <<>> /\ empty.stap = <<>>
    <3>1. 0 \in 0..MaxPayload /\ <<>> \in Seq(Seq(Made)) /\ <<>> \in Seq(Pieces)
      BY RtpAssumption
    <3> HIDE DEF Made
    <3>2. QED BY <1>1, <3>1 DEF Goods, Filled
  <2>3. from..(from + Len(nals) - 1) = from..to
    <3>1. CASE to - from + 1 \in Nat
      <4>1. Len(nals) = to - from + 1
        BY <3>1
      <4> HIDE DEF nals, from, to
      <4>2. from + (to - from + 1) - 1 = to
        BY <1>3
      <4>3. QED BY <4>1, <4>2
    <3>2. CASE to - from + 1 \notin Nat
      <4>1. to < from /\ 1..(to - from + 1) = 1..0
        <5> HIDE DEF from, to
        <5>1. QED BY <1>3, <3>2
      <4>2. DOMAIN nals = 1..0
        BY <4>1, Zenon
      <4> HIDE DEF from, to, nals
      <4>3. Len(nals) = 0
        BY <2>1, <4>2
      <4>4. QED BY <1>3, <4>1, <4>3
    <3>3. QED BY <3>1, <3>2
  <2> HIDE DEF nals, empty, from, to
  <2>4. FoldLeft(Packetize, empty, nals) \in Goods
    BY <1>1, <2>1, <2>2, PacketizedGood
  <2>5. Rows(FoldLeft(Packetize, empty, nals), from, from + Len(nals) - 1)
    BY <1>1, <1>3, <2>1, <2>2, PacketizedRows
  <2>6. PICK l \in Int : l = from + Len(nals) - 1
    <3>1. Len(nals) \in Nat
      BY <2>1
    <3>2. from + Len(nals) - 1 \in Int
      BY <1>3, <3>1
    <3>3. QED BY <3>2
  <2>7. Rows(m, from, l)
    BY <1>1, <1>2, <1>3, <2>4, <2>5, <2>6, FlushRows
  <2>8. InRows(m.series, from, l) /\ from..l = from..to
    BY <2>3, <2>6, <2>7 DEF Rows
  <2>9. InRows(m.series, from, to)
    BY <2>8, Zenon DEF InRows
  <2>10. QED BY <1>1, <1>2, <2>4, <2>9, FlushGood
<1>5. NextNal = from
  BY DEF NextNal
<1> HIDE DEF made, nals, empty, from, to
<1>6. PICK n \in Nat : n = Len(m.series) /\ DOMAIN m.series = 1..n
  BY <1>4 DEF Goods
<1>7. \A u \in 1..n : m.series[u] \in Seq(Made) /\ InRow(m.series[u])
  <2>1. m.series \in Seq(Seq(Made))
    BY <1>4 DEF Goods
  <2>2. QED BY <1>4, <1>6, <2>1, ElementOfSeq DEF InRows
<1> DEFINE row(u) == [j \in DOMAIN m.series[u] |-> place(m, u, j)]
           S == {place(m, u, j) : u \in 1..n, j \in UNION {DOMAIN m.series[v] : v \in 1..n}}
<1>8. ASSUME NEW u \in 1..n
      PROVE  row(u) \in Seq(S) /\ InRow(row(u)) /\ UnitsOf(row(u)) = UnitsOf(m.series[u])
  <2>1. PICK k \in Nat : DOMAIN m.series[u] = 1..k
    BY <1>7
  <2>2. ASSUME NEW j \in DOMAIN m.series[u] PROVE Same(m.series[u][j], row(u)[j])
    <3>1. PICK p \in Made : p = m.series[u][j]
      BY <1>7, ElementOfSeq
    <3>2. PICK k2 : k2 = Len(units) + u
      OBVIOUS
    <3>3. Same(p, [p EXCEPT !.unit = k2])
      BY DEF Same, Made
    <3>4. row(u)[j] = [p EXCEPT !.unit = k2]
      BY <3>1, <3>2
    <3> HIDE DEF row
    <3>5. QED BY <3>1, <3>3, <3>4
  <2>3. DOMAIN row(u) = DOMAIN m.series[u]
    OBVIOUS
  <2>4. row(u) \in Seq(S)
    <3> HIDE DEF place
    <3>1. \A j \in DOMAIN m.series[u] : place(m, u, j) \in S
      OBVIOUS
    <3> HIDE DEF S
    <3>2. QED BY <2>1, <3>1
  <2> HIDE DEF row
  <2>5. \A j \in DOMAIN m.series[u] : /\ Carried(row(u)[j]) = Carried(m.series[u][j])
                                      /\ Ends(row(u)[j]) <=> Ends(m.series[u][j])
    BY <2>2, Zenon DEF Same, Carried, Ends
  <2>6. \A i, j \in DOMAIN m.series[u] :
           Precedes(m.series[u][i], m.series[u][j]) => Precedes(row(u)[i], row(u)[j])
    BY <2>5, Zenon DEF Precedes
  <2>7. InRow(row(u))
    BY <1>7, <2>3, <2>6, Zenon DEF InRow
  <2>8. UnitsOf(row(u)) = UnitsOf(m.series[u])
    BY <2>3, <2>5 DEF UnitsOf
  <2>9. QED BY <2>4, <2>7, <2>8
<1>9. placed(m) = [u \in 1..n |-> row(u)]
  BY <1>6
<1> HIDE DEF row, S, placed
<1>10. PICK all \in Seq(Seq(S)) : all = placed(m) /\ DOMAIN all = 1..n /\ \A u \in 1..n : all[u] = row(u)
  <2>1. [u \in 1..n |-> row(u)] \in Seq(Seq(S))
    BY <1>8
  <2>2. DOMAIN [u \in 1..n |-> row(u)] = 1..n /\ \A u \in 1..n : [v \in 1..n |-> row(v)][u] = row(u)
    OBVIOUS
  <2>3. QED BY <1>9, <2>1, <2>2, Zenon
<1>11. InRows(all, from, to)
  BY <1>4, <1>6, <1>8, <1>10, ZenonT(60) DEF InRows
<1>12. InRow(FlattenSeq(all)) /\ UnitsOf(FlattenSeq(all)) \subseteq from..to
  BY <1>3, <1>10, <1>11, FlattenedRow
<1>13. QED BY <1>2, <1>5, <1>10, <1>12 DEF to

-----------------------------------------------------------------------------
(* What is handled next. *)

LEMMA AheadApart ==
  ASSUME NEW f \in Seqs, NEW s \in Seqs, NEW q \in Seqs, Ahead(f, q) < Ahead(f, s)
  PROVE  (s - q) % SeqModulus = Ahead(f, s) - Ahead(f, q)
<1>1. PICK m \in Nat : m = SeqModulus /\ m > 1
  BY RtpAssumption
<1>2. PICK d \in Int : d = s - q
  BY <1>1 DEF Seqs
<1>3. PICK a \in Int : a = Ahead(f, s) - Ahead(f, q) /\ a > 0 /\ a < m /\ (a = d \/ a = d + m)
  BY <1>1, <1>2 DEF Seqs, Ahead
<1>4. d % m = a
  <2>1. CASE a = d
    BY <1>1, <1>3, <2>1
  <2>2. CASE a = d + m
    BY <1>1, <1>3, <2>2
  <2>3. QED BY <1>3, <2>1, <2>2
<1>5. QED BY <1>1, <1>2, <1>3, <1>4

LEMMA NetTyped ==
  ASSUME IInv
  PROVE  /\ setup \in Setups /\ setup.reorder \in Nat /\ MaxWait \in Nat /\ seqLast \in Seqs /\ seq \in Seqs
         /\ \A k \in DOMAIN net : net[k].seq \in Seqs /\ net[k] \in Alive
         /\ \A s \in DOMAIN rtpData : s \in Seqs /\ rtpData[s].seq = s /\ rtpData[s] \in Alive
<1>1. setup \in Setups /\ seqLast \in Seqs /\ seq \in Seqs /\ WaitingTypes
  BY DEF IInv, SenderTypes, ReceiverTypes
<1>2. setup.reorder \in Nat /\ MaxWait \in Nat
  BY <1>1, RtpAssumption DEF Setup
<1>3. \A k \in DOMAIN net : net[k] \in Alive
  BY DEF Alive
<1>4. \A s \in DOMAIN rtpData : s \in Seqs /\ rtpData[s].seq = s /\ rtpData[s] \in Alive
  BY <1>1 DEF WaitingTypes, Alive
<1>5. QED BY <1>1, <1>2, <1>3, <1>4, AliveTyped

\* What arrives has not overtaken too far.
LEMMA ArrivesNear ==
  ASSUME IInv, NEW f \in Seqs, NetInRow(f), NEW k \in DOMAIN net, MayArrive(k),
         NEW j \in DOMAIN net, j # k
  PROVE  /\ net[k].seq # net[j].seq
         /\ Ahead(f, net[k].seq) <= Ahead(f, net[j].seq) + setup.reorder
         /\ k = 1 \/ setup.reorder = 0 => Ahead(f, net[k].seq) < Ahead(f, net[j].seq)
<1>1. /\ net[k].seq \in Seqs /\ net[j].seq \in Seqs /\ setup.reorder \in Nat
      /\ Ahead(f, net[k].seq) \in Nat /\ Ahead(f, net[j].seq) \in Nat
  BY NetTyped, Numbers
<1>2. PICK n \in Nat : DOMAIN net = 1..n
  BY DEF IInv, NetworkTypes
<1>3. CASE k < j
  <2>1. Ahead(f, net[k].seq) < Ahead(f, net[j].seq)
    BY <1>3 DEF NetInRow
  <2>2. Ahead(f, net[k].seq) # Ahead(f, net[j].seq)
        /\ Ahead(f, net[k].seq) <= Ahead(f, net[j].seq) + setup.reorder
    BY <1>1, <2>1
  <2>3. QED BY <2>1, <2>2
<1>4. CASE j < k
  <2>1. Ahead(f, net[j].seq) < Ahead(f, net[k].seq)
    BY <1>4 DEF NetInRow
  <2>2. k > 1 /\ j \in 1..k - 1
    BY <1>2, <1>4
  <2>3. (net[k].seq - net[j].seq) % SeqModulus <= setup.reorder
    BY <2>2 DEF MayArrive
  <2>4. Ahead(f, net[k].seq) - Ahead(f, net[j].seq) <= setup.reorder
    BY <1>1, <2>1, <2>3, AheadApart
  <2>5. /\ Ahead(f, net[k].seq) # Ahead(f, net[j].seq) /\ setup.reorder # 0 /\ k # 1
        /\ Ahead(f, net[k].seq) <= Ahead(f, net[j].seq) + setup.reorder
    BY <1>1, <2>1, <2>2, <2>4
  <2>6. QED BY <2>5
<1>5. k < j \/ j < k
  BY <1>2
<1>6. QED BY <1>3, <1>4, <1>5

\* Numbers that are fewer than their span.
LEMMA FewNumbers ==
  ASSUME NEW W, NEW a \in Nat, NEW r \in Nat, W \subseteq (a + 1)..(a + r)
  PROVE  IsFiniteSet(W) /\ Cardinality(W) <= r
<1>1. IsFiniteSet((a + 1)..(a + r)) /\ Cardinality((a + 1)..(a + r)) = r
  <2>1. IsFiniteSet((a + 1)..(a + r))
        /\ Cardinality((a + 1)..(a + r)) =
             IF a + 1 <= a + r THEN (a + r) - (a + 1) + 1 ELSE 0
    BY FS_Interval
  <2>2. (IF a + 1 <= a + r THEN (a + r) - (a + 1) + 1 ELSE 0) = r
    OBVIOUS
  <2>3. QED BY <2>1, <2>2
<1>2. QED BY <1>1, FS_Subset

\* What is handled comes after what was handled before, and nothing that comes
\* before it is under way: either nothing overtakes, or so many packets wait that
\* one which is missing cannot come any more.  A packet that waits and comes before
\* it is left behind for good.
LEMMA HandledNext ==
  ASSUME IInv, NEW f \in Seqs, FramesInv(f), NetInRow(f), Calm(f),
         NEW k \in DOMAIN net, MayArrive(k),
         NEW waiting, waiting = DOMAIN rtpData \cup {net[k].seq},
         NEW key \in waiting, \A s \in waiting : key <= s, IsNext(key, waiting)
  PROVE  /\ key \in Seqs /\ Fresh(f, key)
         /\ \A j \in DOMAIN net : j # k => Ahead(f, key) < Ahead(f, net[j].seq)
         /\ \A s \in waiting : s # key => Ahead(f, key) < Ahead(f, s) \/ (f <= s /\ key < f)
<1>1. /\ setup.reorder \in Nat /\ MaxWait \in Nat /\ seqLast \in Seqs /\ seq \in Seqs
      /\ \A j \in DOMAIN net : net[j].seq \in Seqs
      /\ \A s \in waiting : s \in Seqs
  BY NetTyped
<1>2. PICK m \in Nat : m = SeqModulus /\ m > 1 /\ Seqs = 0..m - 1
  BY RtpAssumption DEF Seqs
<1>3. /\ \A j \in DOMAIN net : Fresh(f, net[j].seq)
      /\ \A s \in DOMAIN rtpData : Fresh(f, s) \/ (f <= s /\ seqLast < f)
      /\ \A s \in DOMAIN rtpData : \A j \in DOMAIN net :
           s # net[j].seq /\ Ahead(f, s) <= Ahead(f, net[j].seq) + setup.reorder
      /\ IF some THEN Used(f, seqLast) ELSE DOMAIN rtpData = {}
  BY Zenon DEF NetInRow
<1>4. \A s \in Seqs : Ahead(f, s) = IF f <= s THEN s - f ELSE s - f + m
  BY <1>2 DEF Ahead
<1>5. PICK p \in Seqs : p = net[k].seq /\ Fresh(f, p)
  BY <1>1, <1>3
<1>6. key \in Seqs
  BY <1>1
<1>7. Fresh(f, key)
  <2>1. CASE key = p
    BY <1>5, <2>1
  <2>2. CASE key # p
    <3>1. key \in DOMAIN rtpData /\ key <= p
      BY <1>5, <2>2
    <3>2. SUFFICES ASSUME f <= key, seqLast < f PROVE Fresh(f, key)
      BY <1>3, <3>1
    <3>3. Ahead(f, p) = p - f /\ Ahead(f, seqLast) = seqLast - f + m
      BY <1>1, <1>2, <1>4, <1>5, <1>6, <3>1, <3>2
    <3>4. ~(Ahead(f, seqLast) < Ahead(f, p))
      BY <1>1, <1>2, <1>5, <3>3
    <3>5. ~some
      BY <1>5, <3>4 DEF Fresh
    <3>6. QED BY <3>5 DEF Fresh
  <2>3. QED BY <2>1, <2>2
<1>8. ASSUME NEW s \in waiting, s # key
      PROVE  Ahead(f, key) < Ahead(f, s) \/ (f <= s /\ key < f)
  <2>1. key < s /\ s \in Seqs
    BY <1>1, <1>2, <1>6, <1>8
  <2>2. QED BY <1>2, <1>4, <1>6, <2>1
<1>9. ASSUME NEW j \in DOMAIN net, j # k PROVE Ahead(f, key) < Ahead(f, net[j].seq)
  <2>1. PICK q \in Seqs : q = net[j].seq
    BY <1>1
  <2>2. /\ p # q /\ Ahead(f, p) <= Ahead(f, q) + setup.reorder
        /\ k = 1 \/ setup.reorder = 0 => Ahead(f, p) < Ahead(f, q)
    BY <1>5, <1>9, <2>1, ArrivesNear
  <2>3. /\ Ahead(f, p) \in Nat /\ Ahead(f, q) \in Nat /\ Ahead(f, key) \in Nat
        /\ Ahead(f, key) = Ahead(f, q) => key = q
    BY <1>6, Numbers
  <2>4. key # q
    BY <1>3, <1>5, <2>1, <2>2
  <2>5. key # p => key \in DOMAIN rtpData /\ Ahead(f, key) <= Ahead(f, q) + setup.reorder
    BY <1>3, <1>5, <2>1
  <2>6. CASE setup.reorder = 0
    <3>1. Ahead(f, p) < Ahead(f, q)
      BY <2>2, <2>6
    <3>2. key # p => Ahead(f, key) <= Ahead(f, q) /\ Ahead(f, key) # Ahead(f, q)
      BY <2>3, <2>4, <2>5, <2>6
    <3>3. Ahead(f, key) < Ahead(f, q)
      BY <2>3, <3>1, <3>2
    <3>4. QED BY <2>1, <3>3
  <2>7. CASE ~some
    <3>1. key = p
      BY <1>3, <1>5, <2>7
    <3>2. k = 1
      <4>1. PICK n \in Nat : DOMAIN net = 1..n
        BY DEF IInv, NetworkTypes
      <4>2. ~(k > 1)
        BY <2>7 DEF MayArrive
      <4>3. QED BY <4>1, <4>2
    <3>3. QED BY <2>1, <2>2, <3>1, <3>2
  <2>8. CASE setup.reorder # 0 /\ some
    <3>1. setup.reorder <= MaxWait /\ f <= seq
      BY <2>8 DEF Calm
    <3>2. \A s \in Seqs : Used(f, s) => f <= s
      <4>1. \A s \in Seqs : Ahead(f, s) < Ahead(f, seq) => f <= s
        BY <1>1, <1>2, <1>4, <3>1
      <4>2. QED BY <4>1 DEF Used
    <3>3. /\ \A i \in DOMAIN net : f <= net[i].seq
          /\ \A s \in DOMAIN rtpData : f <= s
          /\ f <= seqLast
      <4>1. /\ \A i \in DOMAIN net : Used(f, net[i].seq)
            /\ \A s \in DOMAIN rtpData : Used(f, s)
        BY NetTyped DEF FramesInv, LinksKept
      <4>2. Used(f, seqLast)
        BY <1>3, <2>8
      <4>3. \A s \in DOMAIN rtpData : s \in Seqs
        BY NetTyped
      <4>4. QED BY <1>1, <3>2, <4>1, <4>2, <4>3
    <3>4. f <= p /\ f <= q /\ f <= key
      BY <1>5, <2>1, <3>3
    <3>5. Ahead(f, p) = p - f /\ Ahead(f, q) = q - f /\ Ahead(f, key) = key - f
      BY <1>4, <1>6, <3>4
    <3>6. SUFFICES ASSUME ~(key < q) PROVE FALSE
      BY <1>2, <1>6, <2>1, <3>5
    <3>7. q < key
      BY <1>2, <1>6, <2>4, <3>6
    <3>8. seqLast < q
      <4>1. Ahead(f, seqLast) < Ahead(f, q) /\ Ahead(f, seqLast) = seqLast - f
        BY <1>1, <1>3, <1>4, <2>1, <2>8, <3>3 DEF Fresh
      <4>2. QED BY <1>1, <1>2, <3>5, <4>1
    <3>9. key # seqLast + 1
      BY <1>1, <1>2, <1>6, <3>7, <3>8
    <3>10. Cardinality(waiting) > MaxWait
      BY <2>8, <3>9 DEF IsNext
    <3>11. waiting \subseteq (q + 1)..(q + setup.reorder)
      <4>1. ASSUME NEW s \in waiting PROVE s \in (q + 1)..(q + setup.reorder)
        <5>1. s \in Seqs /\ key <= s
          BY <1>1
        <5>2. f <= s
          BY <1>2, <1>6, <3>4, <5>1
        <5>3. Ahead(f, s) = s - f
          BY <1>4, <5>1, <5>2
        <5>4. Ahead(f, s) <= Ahead(f, q) + setup.reorder
          BY <1>3, <1>5, <2>1, <2>2
        <5>5. QED BY <1>1, <1>2, <1>6, <3>5, <3>7, <5>1, <5>3, <5>4
      <4>2. QED BY <4>1
    <3>12. Cardinality(waiting) <= setup.reorder /\ Cardinality(waiting) \in Nat
      <4>1. q \in Nat
        BY <1>2
      <4>2. IsFiniteSet(waiting) /\ Cardinality(waiting) <= setup.reorder
        BY <1>1, <3>11, <4>1, FewNumbers
      <4>3. QED BY <4>2, FS_CardinalityType
    <3>13. QED BY <1>1, <3>1, <3>10, <3>12
  <2>9. QED BY <2>6, <2>7, <2>8
<1>10. QED BY <1>6, <1>7, <1>8, <1>9

-----------------------------------------------------------------------------
(* The order of what is handled and delivered. *)

LEMMA PiecesInNat ==
  ASSUME setup \in Setups, NEW s \in Seq(Pieces)
  PROVE  Carries(s) \subseteq Nat
<1>1. PICK n \in Nat : DOMAIN s = 1..n
  OBVIOUS
<1>2. ASSUME NEW k \in 1..n PROVE s[k].nal \in Nat
  <2>1. s[k] \in Pieces
    BY <1>1, ElementOfSeq
  <2>2. QED BY <2>1, Units DEF Pieces
<1>3. QED BY <1>1, <1>2 DEF Carries

LEMMA RowTyped ==
  ASSUME IInv
  PROVE  /\ NextNal \in Nat
         /\ \A p \in Packets : Carried(p) \subseteq Nat
         /\ \A i \in DOMAIN pending : pending[i] \in Packets
         /\ Delivered \subseteq Nat /\ Carries(currentNal) \subseteq Nat
<1>1. /\ setup \in Setups /\ at \in 0..Len(setup.ends) /\ pending \in Seq(Outgoing) /\ FrameTypes
  BY DEF IInv, SenderTypes, ReceiverTypes
<1>2. NextNal \in Nat
  <2>1. PICK k \in Nat : k = Len(setup.ends) /\ DOMAIN setup.ends = 1..k
    BY <1>1, SetupFacts
  <2>2. at # 0 => at \in DOMAIN setup.ends
    BY <1>1, <2>1
  <2>3. \A i \in DOMAIN setup.ends : setup.ends[i] \in Nat
    BY <1>1, <2>1, SetupFacts
  <2>4. QED BY <2>2, <2>3 DEF NextNal
<1>3. \A p \in Packets : Carried(p) \subseteq Nat
  <2>1. \A p \in Packets : p.pieces \in Seq(Pieces)
    BY DEF Packets
  <2>2. QED BY <1>1, <2>1, PiecesInNat DEF Carried
<1>4. \A i \in DOMAIN pending : pending[i] \in Packets
  <2>1. \A i \in DOMAIN pending : pending[i] \in Outgoing
    BY <1>1, ElementOfSeq
  <2>2. QED BY <2>1 DEF Outgoing
<1>5. Delivered \subseteq Nat
  <2>1. out \in Seq(Seq(Pieces))
    BY <1>1 DEF FrameTypes
  <2>2. \A i \in DOMAIN out : out[i] \in Seq(Pieces)
    BY <2>1, ElementOfSeq
  <2>3. \A i \in DOMAIN out : Carries(out[i]) \subseteq Nat
    BY <1>1, <2>2, PiecesInNat
  <2>4. QED BY <2>3 DEF Delivered
<1>6. Carries(currentNal) \subseteq Nat
  BY <1>1, PiecesInNat DEF FrameTypes
<1>7. QED BY <1>2, <1>3, <1>4, <1>5, <1>6

\* Two sequences one after the other.
LEMMA BothParts ==
  ASSUME NEW S, NEW a \in Seq(S), NEW b \in Seq(S)
  PROVE  /\ DOMAIN (a \o b) = 1..(Len(a) + Len(b))
         /\ \A i \in 1..Len(a) : (a \o b)[i] = a[i]
         /\ \A j \in 1..Len(b) : (a \o b)[Len(a) + j] = b[j]
<1>1. PICK m \in Nat, n \in Nat : Len(a) = m /\ Len(b) = n /\ DOMAIN a = 1..m /\ DOMAIN b = 1..n
  OBVIOUS
<1>2. Len(a \o b) = m + n /\ a \o b \in Seq(S)
  BY <1>1
<1>3. DOMAIN (a \o b) = 1..(m + n)
  BY <1>2
<1>4. \A i \in 1..m : (a \o b)[i] = a[i]
  BY <1>1
<1>5. \A j \in 1..n : (a \o b)[m + j] = b[j]
  BY <1>1
<1>6. QED BY <1>1, <1>3, <1>4, <1>5, Zenon

\* The units of two sequences of pieces one after the other.
LEMMA CarriesBoth ==
  ASSUME NEW S, NEW a \in Seq(S), NEW b \in Seq(S)
  PROVE  Carries(a \o b) \subseteq Carries(a) \cup Carries(b)
<1>1. PICK m \in Nat, n \in Nat : m = Len(a) /\ n = Len(b) /\ DOMAIN a = 1..m /\ DOMAIN b = 1..n
  OBVIOUS
<1>2. /\ DOMAIN (a \o b) = 1..(m + n)
      /\ \A i \in 1..m : (a \o b)[i] = a[i]
      /\ \A i \in 1..n : (a \o b)[m + i] = b[i]
  <2>1. /\ DOMAIN (a \o b) = 1..(Len(a) + Len(b))
        /\ \A i \in 1..Len(a) : (a \o b)[i] = a[i]
        /\ \A i \in 1..Len(b) : (a \o b)[Len(a) + i] = b[i]
    BY BothParts
  <2>2. QED BY <1>1, <2>1, Zenon
<1>3. ASSUME NEW i \in 1..(m + n) PROVE (a \o b)[i].nal \in Carries(a) \cup Carries(b)
  <2>1. CASE i \in 1..m
    BY <1>1, <1>2, <2>1 DEF Carries
  <2>2. CASE i \notin 1..m
    <3>1. PICK j \in 1..n : i = m + j
      <4>1. i - m \in 1..n /\ i = m + (i - m)
        BY <1>1, <2>2
      <4>2. QED BY <4>1
    <3>2. QED BY <1>1, <1>2, <3>1 DEF Carries
  <2>3. QED BY <2>1, <2>2
<1>4. QED BY <1>2, <1>3 DEF Carries

LEMMA WellMadeCarries ==
  ASSUME NEW p \in Packets, WellMade(p)
  PROVE  Carried(p) # {}
<1>1. p.pieces \in Seq(Pieces) /\ p.pieces # <<>>
  <2>1. p.pieces \in Seq(Pieces)
    BY DEF Packets
  <2>2. CASE p.type = 28
    <3>1. Len(p.pieces) = 1
      BY <2>2, Zenon DEF WellMade
    <3>2. PICK s \in Seq(Pieces) : s = p.pieces /\ Len(s) = 1
      BY <2>1, <3>1
    <3>3. s # <<>>
      BY <3>2
    <3>4. QED BY <2>1, <3>2, <3>3
  <2>3. CASE p.type # 28
    BY <2>1, <2>3 DEF WellMade, Whole
  <2>4. QED BY <2>2, <2>3
<1>2. 1 \in DOMAIN p.pieces
  BY <1>1
<1>3. QED BY <1>2 DEF Carried, Carries

\* The packet h is handled: what comes after it also comes after the frame that it
\* ends or goes on with.
LEMMA HandleOrder ==
  ASSUME IInv, NEW f \in Seqs, SentInRow(f), OutInRow(f), NEW h \in Alive, h \in Packets, WellMade(h),
         Fresh(f, h.seq), Handle(h), UNCHANGED <<setup, at, seq, pending>>, Alive' \subseteq Alive
  PROVE  OutInRow(f)'
<1> DEFINE D == Delivered
           C == Carries(currentNal)
           H == Carried(h)
           L == {q \in Alive : Ahead(f, h.seq) < Ahead(f, q.seq)} \cup {pending[i] : i \in DOMAIN pending}
<1>1. D \subseteq Nat /\ C \subseteq Nat /\ H \subseteq Nat /\ H # {} /\ NextNal \in Nat
      /\ ReceiverTypes
  BY RowTyped, WellMadeCarries DEF IInv
<1>2. /\ InOrder
      /\ \A m \in D : \A n \in C : m < n
      /\ \A p \in Alive : Fresh(f, p.seq) => Behind(p)
      /\ \A i \in DOMAIN pending : Behind(pending[i])
      /\ \A m \in D \cup C : m < NextNal
  BY Zenon DEF OutInRow
<1>3. \A n \in H : (\A m \in D : m < n) /\ (\A m \in C : m <= n)
  BY <1>2, Zenon DEF Behind
<1>4. \A n \in H : n < NextNal
  BY DEF SentInRow
<1>5. ASSUME NEW q \in L
      PROVE  Carried(q) \subseteq Nat /\ Behind(q) /\ Precedes(h, q)
  <2>1. CASE q \in Alive /\ Ahead(f, h.seq) < Ahead(f, q.seq)
    <3>1. q \in Packets /\ q.seq \in Seqs /\ h.seq \in Seqs /\ seqLast \in Seqs
      BY <2>1, AliveTyped, NetTyped
    <3>2. Ahead(f, h.seq) \in Nat /\ Ahead(f, q.seq) \in Nat /\ Ahead(f, seqLast) \in Nat
      BY <3>1, Numbers
    <3>3. Fresh(f, q.seq)
      BY <2>1, <3>2 DEF Fresh
    <3>4. Precedes(h, q)
      BY <2>1 DEF SentInRow
    <3>5. QED BY <1>2, <2>1, <3>1, <3>3, <3>4, RowTyped
  <2>2. CASE q \in {pending[i] : i \in DOMAIN pending}
    <3>1. PICK i \in DOMAIN pending : q = pending[i]
      BY <2>2
    <3>2. Precedes(h, q)
      BY <3>1 DEF SentInRow
    <3>3. QED BY <1>2, <3>1, <3>2, RowTyped
  <2>3. QED BY <2>1, <2>2
<1>6. ASSUME NEW q \in L, NEW n \in Carried(q)
      PROVE  (\A m \in D : m < n) /\ (\A m \in C \cup H : m <= n /\ (Ends(h) => m < n))
  <2>1. n \in Nat /\ (\A m \in D : m < n) /\ (\A m \in C : m <= n)
        /\ (\A m \in H : m <= n /\ (Ends(h) => m < n))
    BY <1>5, <1>6, Zenon DEF Behind, Precedes
  <2>2. PICK x \in H : x \in Nat /\ (Ends(h) => x < n) /\ \A m \in C : m \in Nat /\ m <= x
    BY <1>1, <1>3, <2>1
  <2>3. \A m \in C : Ends(h) => m < n
    BY <2>1, <2>2
  <2>4. QED BY <2>1, <2>3
<1>7. /\ some' = TRUE /\ seqLast' = h.seq
      /\ IF Ends(h)
         THEN out' \in {out, Append(out, Built(h))} /\ currentNal' = <<>>
         ELSE out' = out /\ currentNal' = Built(h)
  <2>1. /\ some' = TRUE /\ seqLast' = h.seq
        /\ IF h.last \/ h.end \/ ~(h.type = 28)
           THEN /\ out' = IF Missing(h) \/ Bad(h) THEN out ELSE Append(out, Built(h))
                /\ currentNal' = <<>>
           ELSE currentNal' = Built(h) /\ UNCHANGED out
    BY Zenon DEF Handle, Missing, Bad, Built
  <2>2. Ends(h) <=> h.last \/ h.end \/ ~(h.type = 28)
    BY Zenon DEF Ends
  <2>3. QED BY <2>1, <2>2
<1>8. Carries(Built(h)) \subseteq C \cup H
  <2>1. h.pieces \in Seq(Pieces) /\ currentNal \in Seq(Pieces) /\ <<>> \in Seq(Pieces)
    BY <1>1 DEF Packets, ReceiverTypes, FrameTypes
  <2>2. Carries(<<>>) = {}
    BY DEF Carries
  <2>3. /\ Carries(<<>> \o h.pieces) \subseteq {} \cup H
        /\ Carries(currentNal \o h.pieces) \subseteq C \cup H
    BY <2>1, <2>2, CarriesBoth DEF Carried
  <2>4. Built(h) = <<>> \o h.pieces \/ Built(h) = currentNal \o h.pieces
    BY Zenon DEF Built
  <2>5. QED BY <2>3, <2>4
<1>9. PICK n \in Nat : n = Len(out) /\ DOMAIN out = 1..n
  BY <1>1 DEF ReceiverTypes, FrameTypes
<1>10. \A i \in 1..n : Carries(out[i]) \subseteq D
  BY <1>9 DEF Delivered
<1>11. ASSUME out' = Append(out, Built(h))
       PROVE  InOrder' /\ Delivered' \subseteq D \cup (C \cup H)
  <2>1. DOMAIN out' = 1..(n + 1) /\ out'[n + 1] = Built(h) /\ \A i \in 1..n : out'[i] = out[i]
    BY <1>1, <1>9, <1>11 DEF ReceiverTypes, FrameTypes
  <2>2. \A i \in 1..(n + 1) : i \in 1..n \/ i = n + 1
    OBVIOUS
  <2>3. \A i, j \in 1..(n + 1) : i < j => i \in 1..n
    OBVIOUS
  <2>4. Delivered' \subseteq D \cup (C \cup H)
    <3>1. \A i \in DOMAIN out' : Carries(out'[i]) \subseteq D \cup (C \cup H)
      BY <1>8, <1>10, <2>1, <2>2
    <3>2. QED BY <3>1 DEF Delivered
  <2>5. ASSUME NEW i \in 1..(n + 1), NEW j \in 1..(n + 1), i < j,
               NEW x \in Carries(out'[i]), NEW y \in Carries(out'[j])
        PROVE  x < y
    <3>1. i \in 1..n /\ x \in Carries(out[i]) /\ x \in D
      BY <1>10, <2>1, <2>3, <2>5
    <3>2. CASE j \in 1..n
      BY <1>2, <1>9, <2>1, <2>5, <3>1, <3>2 DEF InOrder
    <3>3. CASE j = n + 1
      <4>1. y \in C \cup H
        BY <1>8, <2>1, <2>5, <3>3
      <4>2. QED BY <1>2, <1>3, <3>1, <4>1
    <3>4. QED BY <2>2, <3>2, <3>3
  <2>6. InOrder'
    BY <2>1, <2>5 DEF InOrder
  <2>7. QED BY <2>4, <2>6
<1>12. out' = out => InOrder' /\ Delivered' = D
  BY <1>2 DEF InOrder, Delivered
<1>13. Carries(<<>>) = {}
  BY DEF Carries
<1>14. /\ InOrder'
       /\ IF Ends(h) THEN Delivered' \subseteq D \cup (C \cup H) /\ Carries(currentNal') = {}
          ELSE Delivered' = D /\ Carries(currentNal') \subseteq C \cup H
  BY <1>7, <1>8, <1>11, <1>12, <1>13
<1> HIDE DEF D, C, H, L
<1>15. \A m \in Delivered' : \A y \in Carries(currentNal') : m < y
  BY <1>2, <1>3, <1>14
<1>16. ASSUME NEW q \in L PROVE Behind(q)'
  <2>1. \A y \in Carried(q) : (\A m \in Delivered' : m < y) /\ (\A m \in Carries(currentNal') : m <= y)
    BY <1>6, <1>14
  <2>2. QED BY <2>1, Zenon DEF Behind
<1>17. \A p \in Alive' : Fresh(f, p.seq)' => Behind(p)'
  <2>1. \A p \in Alive' : Fresh(f, p.seq)' => p \in L
    BY <1>7 DEF Fresh, L
  <2>2. QED BY <1>16, <2>1
<1>18. \A i \in DOMAIN pending' : Behind(pending[i])'
  <2>1. ASSUME NEW i \in DOMAIN pending PROVE Behind(pending[i])'
    <3>1. PICK q \in L : q = pending[i]
      BY DEF L
    <3>2. Behind(q)'
      BY <1>16
    <3>3. pending' = pending
      OBVIOUS
    <3>4. QED BY <3>1, <3>2, <3>3, Zenon DEF Behind, Carried
  <2>2. QED BY <2>1
<1>19. \A m \in Delivered' \cup Carries(currentNal') : m < NextNal'
  <2>1. NextNal' = NextNal
    BY DEF NextNal
  <2>2. QED BY <1>2, <1>4, <1>14, <2>1
<1>20. QED BY <1>14, <1>15, <1>17, <1>18, <1>19 DEF OutInRow

-----------------------------------------------------------------------------
(* The order of packets is kept by every step. *)

\* Packets that are lost or only looked at disturb none,
LEMMA SentStays ==
  ASSUME NEW f, UNCHANGED <<setup, at, seq, pending>>, Alive' \subseteq Alive, SentInRow(f)
  PROVE  SentInRow(f)'
<1>1. NextNal' = NextNal
  BY DEF NextNal
<1>2. /\ InRow(pending)
      /\ \A p, q \in Alive : Ahead(f, p.seq) < Ahead(f, q.seq) => Precedes(p, q)
      /\ \A p \in Alive : \A i \in DOMAIN pending : Precedes(p, pending[i])
      /\ \A p \in Alive : \A n \in Carried(p) : n < NextNal
      /\ \A i \in DOMAIN pending : \A n \in Carried(pending[i]) : n < NextNal
  BY Zenon DEF SentInRow
<1>3. /\ InRow(pending')
      /\ \A p, q \in Alive' : Ahead(f, p.seq) < Ahead(f, q.seq) => Precedes(p, q)
      /\ \A p \in Alive' : \A i \in DOMAIN pending' : Precedes(p, pending'[i])
      /\ \A p \in Alive' : \A n \in Carried(p) : n < NextNal'
      /\ \A i \in DOMAIN pending' : \A n \in Carried(pending'[i]) : n < NextNal'
  BY <1>1, <1>2, Zenon
<1>4. QED BY <1>3, Zenon DEF SentInRow

\* and no frame.
LEMMA OutStays ==
  ASSUME NEW f, UNCHANGED <<setup, at, pending, some, seqLast, currentNal, out>>,
         Alive' \subseteq Alive, OutInRow(f)
  PROVE  OutInRow(f)'
<1>1. NextNal' = NextNal /\ Delivered' = Delivered /\ (InOrder' <=> InOrder)
  BY DEF NextNal, Delivered, InOrder
<1>2. \A q : Behind(q)' <=> Behind(q)
  BY <1>1, Zenon DEF Behind
<1>3. /\ InOrder
      /\ \A m \in Delivered : \A n \in Carries(currentNal) : m < n
      /\ \A p \in Alive : Fresh(f, p.seq) => Behind(p)
      /\ \A i \in DOMAIN pending : Behind(pending[i])
      /\ \A m \in Delivered \cup Carries(currentNal) : m < NextNal
  BY Zenon DEF OutInRow
<1>4. \A m \in Delivered' : \A n \in Carries(currentNal') : m < n
  BY <1>1, <1>3, Zenon
<1>5. \A p \in Alive' : Fresh(f, p.seq)' => Behind(p)'
  <2>1. \A s : Fresh(f, s)' <=> Fresh(f, s)
    BY Zenon DEF Fresh
  <2>2. QED BY <1>2, <1>3, <2>1, Zenon
<1>6. \A i \in DOMAIN pending' : Behind(pending[i])'
  BY <1>1, <1>3, Zenon DEF Behind
<1>7. \A m \in Delivered' \cup Carries(currentNal') : m < NextNal'
  BY <1>1, <1>3, Zenon
<1>8. QED BY <1>1, <1>3, <1>4, <1>5, <1>6, <1>7, Zenon DEF OutInRow

LEMMA NetStays ==
  ASSUME NEW f, UNCHANGED <<setup, seq, net, some, seqLast, rtpData>>, NetInRow(f)
  PROVE  NetInRow(f)'
BY DEF NetInRow, Fresh, Used

\* The units of the next buffer come after those of the buffers before it.
LEMMA SendOrder ==
  ASSUME IInv, NEW f \in Seqs, OrderInv(f), Send
  PROVE  OrderInv(f)'
<1>1. /\ pending = <<>> /\ at < Len(setup.ends) /\ at' = at + 1
      /\ UNCHANGED <<setup, seq, net, some, seqLast, rtpData, currentNal, out>>
  BY DEF Send, network, receiver, frame
<1>2. setup \in Setups /\ at \in 0..Len(setup.ends)
  BY DEF IInv, SenderTypes
<1>3. PICK to \in Nat : to = setup.ends[at + 1] /\ NextNal' = to + 1
  <2>1. PICK k \in Nat : k = Len(setup.ends) /\ DOMAIN setup.ends = 1..k
    BY <1>2, SetupFacts
  <2>2. \A i \in DOMAIN setup.ends : setup.ends[i] \in Nat
    BY <1>2, <2>1, SetupFacts
  <2>3. at + 1 \in DOMAIN setup.ends /\ at + 1 # 0
    BY <1>1, <1>2, <2>1
  <2>4. NextNal' = setup.ends[at + 1] + 1
    BY <1>1, <2>3 DEF NextNal
  <2>5. QED BY <2>2, <2>3, <2>4
<1>4. NextNal \in Nat /\ NextNal <= to + 1
  <2>1. NextNal \in Nat
    BY RowTyped
  <2>2. CASE at = 0
    BY <1>3, <2>2 DEF NextNal
  <2>3. CASE at # 0
    <3>1. PICK k \in Nat : k = Len(setup.ends) /\ DOMAIN setup.ends = 1..k
      BY <1>2, SetupFacts
    <3>2. at + 1 \in 2..Len(setup.ends) /\ (at + 1) - 1 = at /\ at \in DOMAIN setup.ends
      BY <1>1, <1>2, <2>3, <3>1
    <3>3. setup.ends[at] <= to
      BY <1>2, <1>3, <3>2, BufferAssumption
    <3>4. setup.ends[at] \in Nat
      BY <1>2, <3>1, <3>2, SetupFacts
    <3>5. QED BY <1>3, <2>3, <3>3, <3>4 DEF NextNal
  <2>4. QED BY <2>1, <2>2, <2>3
<1>5. /\ InRow(pending')
      /\ \A i \in DOMAIN pending' : \A n \in Carried(pending'[i]) : n \in NextNal..to
  BY <1>3, SendInRow DEF UnitsOf
<1>6. Alive' = Alive
  BY <1>1 DEF Alive
<1>7. SentInRow(f) /\ NetInRow(f) /\ OutInRow(f)
  BY DEF OrderInv
<1>8. \A p \in Alive : \A n \in Carried(p) : n \in Nat /\ n < NextNal
  BY <1>7, AliveTyped, RowTyped DEF SentInRow
<1>9. SentInRow(f)'
  <2>1. \A p \in Alive : \A m \in Carried(p) : \A i \in DOMAIN pending' :
          \A n \in Carried(pending'[i]) : m < n /\ m <= n
    BY <1>4, <1>5, <1>8
  <2>2. \A p \in Alive' : \A i \in DOMAIN pending' : Precedes(p, pending'[i])
    BY <1>6, <2>1, Zenon DEF Precedes
  <2>3. \A p \in Alive' : \A n \in Carried(p) : n < NextNal'
    BY <1>3, <1>4, <1>6, <1>8
  <2>4. \A i \in DOMAIN pending' : \A n \in Carried(pending'[i]) : n < NextNal'
    BY <1>3, <1>4, <1>5
  <2>5. \A p, q \in Alive' : Ahead(f, p.seq) < Ahead(f, q.seq) => Precedes(p, q)
    BY <1>6, <1>7, Zenon DEF SentInRow
  <2>6. QED BY <1>5, <2>2, <2>3, <2>4, <2>5, Zenon DEF SentInRow
<1>10. OutInRow(f)'
  <2>1. /\ InOrder
        /\ \A m \in Delivered : \A n \in Carries(currentNal) : m < n
        /\ \A p \in Alive : Fresh(f, p.seq) => Behind(p)
        /\ \A m \in Delivered \cup Carries(currentNal) : m < NextNal
    BY <1>7, Zenon DEF OutInRow
  <2>2. Delivered' = Delivered /\ (InOrder' <=> InOrder)
    BY <1>1 DEF Delivered, InOrder
  <2>3. Delivered \subseteq Nat /\ Carries(currentNal) \subseteq Nat
    BY RowTyped
  <2>4. \A p \in Alive' : Fresh(f, p.seq)' => Behind(p)'
    <3>1. \A s : Fresh(f, s)' <=> Fresh(f, s)
      BY <1>1, Zenon DEF Fresh
    <3>2. \A q : Behind(q)' <=> Behind(q)
      BY <1>1, <2>2, Zenon DEF Behind
    <3>3. QED BY <1>6, <2>1, <3>1, <3>2, Zenon
  <2>5. \A i \in DOMAIN pending' : Behind(pending[i])'
    <3>1. \A i \in DOMAIN pending' : \A n \in Carried(pending'[i]) :
            (\A m \in Delivered : m < n) /\ (\A m \in Carries(currentNal) : m <= n)
      BY <1>4, <1>5, <2>1, <2>3
    <3>2. currentNal' = currentNal
      BY <1>1
    <3>3. QED BY <2>2, <3>1, <3>2, Zenon DEF Behind
  <2>6. \A m \in Delivered' \cup Carries(currentNal') : m < NextNal'
    BY <1>1, <1>3, <1>4, <2>1, <2>2, <2>3
  <2>7. \A m \in Delivered' : \A n \in Carries(currentNal') : m < n
    BY <1>1, <2>1, <2>2, Zenon
  <2>8. QED BY <2>1, <2>2, <2>4, <2>5, <2>6, <2>7, Zenon DEF OutInRow
<1>11. NetInRow(f)'
  BY <1>1, <1>7, NetStays
<1>12. QED BY <1>9, <1>10, <1>11 DEF OrderInv

\* The first packet is sent: what is left is the rest, in a row.
LEMMA RestInRow ==
  ASSUME IInv, pending # <<>>, InRow(pending)
  PROVE  /\ 1 \in DOMAIN pending /\ Head(pending) = pending[1] /\ InRow(Tail(pending))
         /\ \A i \in DOMAIN Tail(pending) :
              \E j \in DOMAIN pending : Tail(pending)[i] = pending[j] /\ Precedes(pending[1], pending[j])
<1>1. pending \in Seq(Outgoing)
  BY DEF IInv, SenderTypes
<1>2. PICK n \in Nat : n = Len(pending) /\ DOMAIN pending = 1..n /\ n >= 1
  BY <1>1
<1>3. PICK t \in Seq(Outgoing) : /\ t = Tail(pending) /\ DOMAIN t = 1..(n - 1)
                                 /\ \A i \in 1..(n - 1) : t[i] = pending[i + 1]
  <2>1. Tail(pending) \in Seq(Outgoing)
    BY <1>1
  <2>2. Len(Tail(pending)) = n - 1
    BY <1>1, <1>2
  <2>3. \A i \in 1..(n - 1) : Tail(pending)[i] = pending[i + 1]
    BY <1>1, <1>2
  <2>4. DOMAIN Tail(pending) = 1..(n - 1)
    BY <2>1, <2>2
  <2>5. QED BY <2>1, <2>3, <2>4
<1>4. \A i \in 1..(n - 1) : i + 1 \in 1..n /\ 1 < i + 1
  BY <1>2
<1>5. InRow(t)
  <2>1. \A i, j \in 1..(n - 1) : i < j => i + 1 < j + 1
    BY <1>2
  <2>2. ASSUME NEW i \in 1..(n - 1), NEW j \in 1..(n - 1), i < j PROVE Precedes(t[i], t[j])
    <3>1. Precedes(pending[i + 1], pending[j + 1])
      BY <1>2, <1>4, <2>1, <2>2, Zenon DEF InRow
    <3>2. QED BY <1>3, <3>1, Zenon
  <2>3. QED BY <1>3, <2>2, Zenon DEF InRow
<1>6. 1 \in 1..n /\ Head(pending) = pending[1]
  BY <1>1, <1>2
<1>7. ASSUME NEW i \in 1..(n - 1)
      PROVE  \E j \in DOMAIN pending : t[i] = pending[j] /\ Precedes(pending[1], pending[j])
  <2>1. Precedes(pending[1], pending[i + 1])
    BY <1>2, <1>4, <1>6, Zenon DEF InRow
  <2>2. QED BY <1>2, <1>3, <1>4, <2>1, Zenon
<1>8. QED BY <1>2, <1>3, <1>5, <1>6, <1>7, Zenon

\* The packet that is sent comes after all that are under way, and before the rest.
LEMMA SentOrder ==
  ASSUME IInv, NEW f \in Seqs, FramesInv(f), OrderInv(f), SendPacket, playing, seq' # f
  PROVE  OrderInv(f)'
<1>0. PICK h : h = [Head(pending) EXCEPT !.seq = seq]
  OBVIOUS
<1>1. /\ pending # <<>> /\ pending' = Tail(pending) /\ net' = Append(net, h) /\ seq' = NextSeq
      /\ UNCHANGED <<setup, at, some, seqLast, rtpData, currentNal, out>>
  BY <1>0 DEF SendPacket, receiver, frame
<1>2. SentInRow(f) /\ NetInRow(f) /\ OutInRow(f)
  BY DEF OrderInv
<1>3. /\ seq \in Seqs /\ pending \in Seq(Outgoing) /\ net \in Seq(Flying) /\ seqLast \in Seqs
      /\ setup.reorder \in Nat
  BY NetTyped DEF IInv, SenderTypes, NetworkTypes
<1>4. seq' = After(seq) /\ seq' \in Seqs /\ Ahead(f, seq') = Ahead(f, seq) + 1
      /\ Ahead(f, seq) \in Nat
  BY <1>1, <1>3, NextNumber, Numbers
<1>5. /\ 1 \in DOMAIN pending /\ Head(pending) = pending[1] /\ InRow(pending')
      /\ \A i \in DOMAIN pending' :
           \E j \in DOMAIN pending : pending'[i] = pending[j] /\ Precedes(pending[1], pending[j])
  BY <1>1, <1>2, RestInRow DEF SentInRow
<1>6. PICK a \in Outgoing : a = pending[1] /\ h = [a EXCEPT !.seq = seq]
  <2>1. pending[1] \in Outgoing
    BY <1>3, <1>5, ElementOfSeq
  <2>2. h = [pending[1] EXCEPT !.seq = seq]
    BY <1>0, <1>5, Zenon
  <2>3. QED BY <2>1, <2>2, Zenon
<1>7. /\ h.seq = seq /\ Carried(h) = Carried(a) /\ (Ends(h) <=> Ends(a))
  <2>1. /\ h.seq = seq /\ h.type = a.type /\ h.last = a.last /\ h.end = a.end /\ h.pieces = a.pieces
    BY <1>6 DEF Outgoing, Packets
  <2>2. QED BY <2>1 DEF Carried, Ends
<1>8. PICK n \in Nat : /\ DOMAIN net = 1..n /\ DOMAIN net' = 1..(n + 1) /\ net'[n + 1] = h
                       /\ \A k \in 1..n : net'[k] = net[k]
  <2>1. PICK n \in Nat : n = Len(net) /\ DOMAIN net = 1..n
    BY <1>3
  <2>2. /\ DOMAIN Append(net, h) = 1..(n + 1) /\ Append(net, h)[n + 1] = h
        /\ \A k \in 1..n : Append(net, h)[k] = net[k]
    BY <1>3, <2>1
  <2>3. QED BY <1>1, <2>1, <2>2
<1>9. \A k \in 1..(n + 1) : k \in 1..n \/ k = n + 1
  OBVIOUS
<1>10. \A p \in Alive' : p \in Alive \/ p = h
  <2>1. \A k \in DOMAIN net' : net'[k] \in Alive \cup {h}
    BY <1>8, <1>9, Zenon DEF Alive
  <2>2. QED BY <1>1, <2>1 DEF Alive
<1>11. \A p \in Alive : Ahead(f, p.seq) \in Nat /\ Ahead(f, p.seq) < Ahead(f, seq)
  <2>1. \A p \in Alive : p.seq \in Seqs /\ Used(f, p.seq)
    BY AliveTyped DEF FramesInv, LinksKept
  <2>2. QED BY <2>1, Numbers DEF Used
<1>12. some => Ahead(f, seqLast) < Ahead(f, seq) /\ Ahead(f, seqLast) \in Nat
  BY <1>2, <1>3, Numbers DEF NetInRow, Used
<1>13. NextNal' = NextNal
  BY <1>1 DEF NextNal
<1>14. SentInRow(f)'
  <2>1. /\ \A p, q \in Alive : Ahead(f, p.seq) < Ahead(f, q.seq) => Precedes(p, q)
        /\ \A p \in Alive : \A i \in DOMAIN pending : Precedes(p, pending[i])
        /\ \A p \in Alive : \A x \in Carried(p) : x < NextNal
        /\ \A i \in DOMAIN pending : \A x \in Carried(pending[i]) : x < NextNal
    BY <1>2, Zenon DEF SentInRow
  <2>2. ASSUME NEW p \in Alive', NEW q \in Alive', Ahead(f, p.seq) < Ahead(f, q.seq)
        PROVE  Precedes(p, q)
    <3>1. CASE p \in Alive /\ q \in Alive
      BY <2>1, <2>2, <3>1
    <3>2. CASE p \in Alive /\ q = h
      <4>1. Precedes(p, a)
        BY <1>5, <1>6, <2>1, <3>2
      <4>2. QED BY <1>7, <3>2, <4>1, Zenon DEF Precedes
    <3>3. CASE p = h /\ q \in Alive
      <4>1. Ahead(f, q.seq) < Ahead(f, p.seq) /\ Ahead(f, q.seq) \in Nat
        BY <1>7, <1>11, <3>3
      <4>2. QED BY <1>4, <1>7, <2>2, <3>3, <4>1
    <3>4. CASE p = h /\ q = h
      BY <1>4, <1>7, <2>2, <3>4
    <3>5. QED BY <1>10, <3>1, <3>2, <3>3, <3>4
  <2>3. ASSUME NEW p \in Alive', NEW i \in DOMAIN pending' PROVE Precedes(p, pending'[i])
    <3>1. PICK j \in DOMAIN pending : pending'[i] = pending[j] /\ Precedes(a, pending[j])
      BY <1>5, <1>6
    <3>2. CASE p \in Alive
      BY <2>1, <3>1, <3>2
    <3>3. CASE p = h
      <4>1. Precedes(h, pending[j])
        BY <1>7, <3>1, Zenon DEF Precedes
      <4>2. QED BY <3>1, <3>3, <4>1
    <3>4. QED BY <1>10, <3>2, <3>3
  <2>4. ASSUME NEW p \in Alive', NEW x \in Carried(p) PROVE x < NextNal
    BY <1>5, <1>6, <1>7, <1>10, <2>1, <2>4
  <2>5. \A i \in DOMAIN pending' : \A x \in Carried(pending'[i]) : x < NextNal
    BY <1>5, <2>1
  <2>6. QED BY <1>5, <1>13, <2>2, <2>3, <2>4, <2>5, Zenon DEF SentInRow
<1>15. OutInRow(f)'
  <2>1. /\ InOrder
        /\ \A m \in Delivered : \A x \in Carries(currentNal) : m < x
        /\ \A p \in Alive : Fresh(f, p.seq) => Behind(p)
        /\ \A i \in DOMAIN pending : Behind(pending[i])
        /\ \A m \in Delivered \cup Carries(currentNal) : m < NextNal
    BY <1>2, Zenon DEF OutInRow
  <2>2. Delivered' = Delivered /\ (InOrder' <=> InOrder) /\ currentNal' = currentNal
    BY <1>1 DEF Delivered, InOrder
  <2>3. \A q : Behind(q)' <=> Behind(q)
    BY <2>2, Zenon DEF Behind
  <2>4. Behind(h)
    <3>1. Behind(a)
      BY <1>5, <1>6, <2>1
    <3>2. QED BY <1>7, <3>1, Zenon DEF Behind
  <2>5. \A p \in Alive' : Fresh(f, p.seq)' => Behind(p)'
    <3>1. \A s : Fresh(f, s)' <=> Fresh(f, s)
      BY <1>1, Zenon DEF Fresh
    <3>2. QED BY <1>10, <2>1, <2>3, <2>4, <3>1, Zenon
  <2>6. \A i \in DOMAIN pending' : Behind(pending[i])'
    <3>1. \A i \in DOMAIN pending' : Behind(pending'[i])
      BY <1>5, <2>1, Zenon
    <3>2. QED BY <2>2, <3>1, Zenon DEF Behind
  <2>7. \A m \in Delivered' : \A x \in Carries(currentNal') : m < x
    BY <2>1, <2>2, Zenon
  <2>8. \A m \in Delivered' \cup Carries(currentNal') : m < NextNal'
    BY <1>13, <2>1, <2>2, Zenon
  <2>9. QED BY <2>1, <2>2, <2>5, <2>6, <2>7, <2>8, Zenon DEF OutInRow
<1>16. NetInRow(f)'
  <2>1. /\ \A i, j \in DOMAIN net : i < j => Ahead(f, net[i].seq) < Ahead(f, net[j].seq)
        /\ \A k \in DOMAIN net : Fresh(f, net[k].seq)
        /\ \A s \in DOMAIN rtpData : Fresh(f, s) \/ (f <= s /\ seqLast < f)
        /\ \A s \in DOMAIN rtpData : \A k \in DOMAIN net :
             s # net[k].seq /\ Ahead(f, s) <= Ahead(f, net[k].seq) + setup.reorder
        /\ IF some THEN Used(f, seqLast) ELSE DOMAIN rtpData = {}
    BY <1>2, Zenon DEF NetInRow
  <2>2. \A s : Fresh(f, s)' <=> Fresh(f, s)
    BY <1>1, Zenon DEF Fresh
  <2>3. \A k \in 1..n : net[k] \in Alive /\ Ahead(f, net[k].seq) < Ahead(f, seq)
    BY <1>8, <1>11 DEF Alive
  <2>4. ASSUME NEW i \in 1..(n + 1), NEW j \in 1..(n + 1), i < j
        PROVE  Ahead(f, net'[i].seq) < Ahead(f, net'[j].seq)
    <3>1. i \in 1..n
      BY <2>4
    <3>2. CASE j \in 1..n
      BY <1>8, <2>1, <2>4, <3>1, <3>2
    <3>3. CASE j = n + 1
      BY <1>7, <1>8, <2>3, <3>1, <3>3
    <3>4. QED BY <1>9, <3>2, <3>3
  <2>5. ASSUME NEW k \in 1..(n + 1) PROVE some => Ahead(f, seqLast) < Ahead(f, net'[k].seq)
    <3>1. CASE k \in 1..n
      BY <1>8, <2>1, <3>1 DEF Fresh
    <3>2. CASE k = n + 1
      BY <1>7, <1>8, <1>12, <3>2
    <3>3. QED BY <1>9, <3>1, <3>2
  <2>6. ASSUME NEW s \in DOMAIN rtpData, NEW k \in 1..(n + 1)
        PROVE  s # net'[k].seq /\ Ahead(f, s) <= Ahead(f, net'[k].seq) + setup.reorder
    <3>1. CASE k \in 1..n
      BY <1>8, <2>1, <3>1
    <3>2. CASE k = n + 1
      <4>1. Ahead(f, s) \in Nat /\ Ahead(f, s) < Ahead(f, seq)
        <5>1. rtpData[s].seq = s /\ rtpData[s] \in Alive
          BY NetTyped
        <5>2. QED BY <1>11, <5>1
      <4>2. Ahead(f, s) # Ahead(f, seq) /\ Ahead(f, s) <= Ahead(f, seq) + setup.reorder
        BY <1>3, <1>4, <4>1
      <4>3. QED BY <1>7, <1>8, <3>2, <4>2
    <3>3. QED BY <1>9, <3>1, <3>2
  <2>7. IF some' THEN Used(f, seqLast)' ELSE DOMAIN rtpData' = {}
    <3>1. some' = some /\ rtpData' = rtpData /\ seqLast' = seqLast
      BY <1>1
    <3>2. some => Ahead(f, seqLast) < Ahead(f, seq')
      BY <1>4, <1>12
    <3>3. some => Used(f, seqLast)'
      BY <3>1, <3>2 DEF Used, Ahead
    <3>4. QED BY <2>1, <3>1, <3>3, Zenon
  <2>8. \A i, j \in DOMAIN net' : i < j => Ahead(f, net'[i].seq) < Ahead(f, net'[j].seq)
    BY <1>8, <2>4
  <2>9. \A k \in DOMAIN net' : Fresh(f, net[k].seq)'
    BY <1>1, <1>8, <2>5 DEF Fresh
  <2>10. \A s \in DOMAIN rtpData' : Fresh(f, s)' \/ (f <= s /\ seqLast' < f)
    BY <1>1, <2>1, <2>2, Zenon
  <2>11. \A s \in DOMAIN rtpData' : \A k \in DOMAIN net' :
           s # net'[k].seq /\ Ahead(f, s) <= Ahead(f, net'[k].seq) + setup.reorder'
    BY <1>1, <1>8, <2>6, Zenon
  <2>12. QED BY <2>7, <2>8, <2>9, <2>10, <2>11, Zenon DEF NetInRow
<1>17. QED BY <1>14, <1>15, <1>16 DEF OrderInv

\* A channel that does not play has nothing under way.
LEMMA SendPacketOrder ==
  ASSUME IInv, NEW f \in Seqs, FramesInv(f), OrderInv(f), SendPacket, seq' # seq => seq' # f
  PROVE  OrderInv(f)'
<1>1. CASE playing
  <2>1. seq \in Seqs
    BY DEF IInv, SenderTypes
  <2>2. seq' = After(seq) /\ After(seq) # seq
    BY <1>1, <2>1, NextNumber, Numbers DEF SendPacket
  <2>3. QED BY <1>1, <2>2, SentOrder
<1>2. CASE ~playing
  <2>1. /\ pending # <<>> /\ pending' = Tail(pending)
        /\ UNCHANGED <<setup, at, seq, net, some, seqLast, rtpData, currentNal, out>>
    BY <1>2 DEF SendPacket, receiver, frame
  <2>2. SentInRow(f) /\ NetInRow(f) /\ OutInRow(f)
    BY DEF OrderInv
  <2>3. Alive = {} /\ Alive' = {}
    <3>1. net = <<>> /\ DOMAIN rtpData = {}
      BY <1>2, Zenon DEF FramesInv, Quiet
    <3>2. QED BY <2>1, <3>1 DEF Alive
  <2>4. /\ InRow(pending')
        /\ \A i \in DOMAIN pending' : \E j \in DOMAIN pending : pending'[i] = pending[j]
    BY <2>1, <2>2, RestInRow DEF SentInRow
  <2>5. NextNal' = NextNal /\ Delivered' = Delivered /\ (InOrder' <=> InOrder)
    BY <2>1 DEF NextNal, Delivered, InOrder
  <2>6. SentInRow(f)'
    <3>1. \A i \in DOMAIN pending : \A n \in Carried(pending[i]) : n < NextNal
      BY <2>2, Zenon DEF SentInRow
    <3>2. \A i \in DOMAIN pending' : \A n \in Carried(pending'[i]) : n < NextNal'
      BY <2>4, <2>5, <3>1, Zenon
    <3>3. QED BY <2>3, <2>4, <3>2, Zenon DEF SentInRow
  <2>7. OutInRow(f)'
    <3>1. /\ InOrder
          /\ \A m \in Delivered : \A n \in Carries(currentNal) : m < n
          /\ \A i \in DOMAIN pending : Behind(pending[i])
          /\ \A m \in Delivered \cup Carries(currentNal) : m < NextNal
      BY <2>2, Zenon DEF OutInRow
    <3>2. \A i \in DOMAIN pending' : Behind(pending'[i])
      BY <2>4, <3>1, Zenon
    <3>3. \A i \in DOMAIN pending' : Behind(pending[i])'
      BY <2>1, <2>5, <3>2, Zenon DEF Behind
    <3>4. \A m \in Delivered' : \A n \in Carries(currentNal') : m < n
      BY <2>1, <2>5, <3>1, Zenon
    <3>5. \A m \in Delivered' \cup Carries(currentNal') : m < NextNal'
      BY <2>1, <2>5, <3>1, Zenon
    <3>6. QED BY <2>3, <2>5, <3>1, <3>3, <3>4, <3>5, Zenon DEF OutInRow
  <2>8. NetInRow(f)'
    BY <2>1, <2>2, NetStays
  <2>9. QED BY <2>6, <2>7, <2>8 DEF OrderInv
<1>3. QED BY <1>1, <1>2

\* The numbers from 1 to p + 1 + q without p + 1.
LEMMA SkipOne ==
  ASSUME NEW p \in Nat, NEW q \in Nat
  PROVE  \E g : /\ \A i \in 1..p : g[i] = i
                /\ \A j \in 1..q : g[p + j] = p + 1 + j
                /\ \A i \in 1..(p + q) : g[i] \in 1..(p + 1 + q) /\ g[i] # p + 1
                /\ \A i, j \in 1..(p + q) : i < j => g[i] < g[j]
<1>1. PICK g : g = [i \in 1..(p + q) |-> IF i <= p THEN i ELSE i + 1]
  OBVIOUS
<1>2. \A i \in 1..(p + q) : g[i] = IF i <= p THEN i ELSE i + 1
  BY <1>1
<1>3. \A i \in 1..p : g[i] = i
  BY <1>2
<1>4. ASSUME NEW j \in 1..q PROVE g[p + j] = p + 1 + j
  <2>1. p + j \in 1..(p + q) /\ ~(p + j <= p) /\ (p + j) + 1 = p + 1 + j
    OBVIOUS
  <2>2. QED BY <1>2, <2>1
<1>5. \A i \in 1..(p + q) : g[i] \in 1..(p + 1 + q) /\ g[i] # p + 1
  BY <1>2
<1>6. \A i, j \in 1..(p + q) : i < j => g[i] < g[j]
  BY <1>2
<1>7. QED BY <1>3, <1>4, <1>5, <1>6

LEMMA OneOrOther ==
  ASSUME NEW p \in Nat, NEW q \in Nat, NEW i \in 1..(p + q)
  PROVE  i \in 1..p \/ \E j \in 1..q : i = p + j
<1>1. i <= p => i \in 1..p
  OBVIOUS
<1>2. ~(i <= p) => i - p \in 1..q /\ i = p + (i - p)
  OBVIOUS
<1>3. QED BY <1>1, <1>2

\* What is left of a sequence when one element is taken out.
LEMMA PartsLeft ==
  ASSUME NEW S, NEW s \in Seq(S), NEW k \in DOMAIN s
  PROVE  \E p, q \in Nat : /\ k = p + 1 /\ DOMAIN s = 1..(p + 1 + q)
                           /\ DOMAIN RemoveAt(s, k) = 1..(p + q)
                           /\ \A i \in 1..p : RemoveAt(s, k)[i] = s[i]
                           /\ \A j \in 1..q : RemoveAt(s, k)[p + j] = s[p + 1 + j]
<1>1. PICK n \in Nat : n = Len(s) /\ DOMAIN s = 1..n /\ k \in 1..n
  OBVIOUS
<1>2. PICK p \in Nat, q \in Nat : k = p + 1 /\ n = p + 1 + q /\ k - 1 = p /\ n - k = q
  <2>1. k - 1 \in Nat /\ n - k \in Nat /\ k = (k - 1) + 1 /\ n = (k - 1) + 1 + (n - k)
    BY <1>1
  <2>2. QED BY <2>1
<1>3. PICK a \in Seq(S) : a = SubSeq(s, 1, k - 1) /\ Len(a) = p /\ \A i \in 1..p : a[i] = s[i]
  <2>1. SubSeq(s, 1, k - 1) \in Seq(S) /\ Len(SubSeq(s, 1, k - 1)) = k - 1
    BY <1>1
  <2>2. \A i \in 1..(k - 1) : SubSeq(s, 1, k - 1)[i] = s[i]
    BY <1>1
  <2>3. QED BY <1>2, <2>1, <2>2, Zenon
<1>4. PICK b \in Seq(S) : b = SubSeq(s, k + 1, n) /\ Len(b) = q /\ \A j \in 1..q : b[j] = s[k + j]
  <2>1. SubSeq(s, k + 1, n) \in Seq(S) /\ Len(SubSeq(s, k + 1, n)) = n - k
    BY <1>1
  <2>2. \A j \in 1..(n - k) : SubSeq(s, k + 1, n)[j] = s[k + j]
    BY <1>1
  <2>3. QED BY <1>2, <2>1, <2>2, Zenon
<1>5. /\ DOMAIN (a \o b) = 1..(p + q)
      /\ \A i \in 1..p : (a \o b)[i] = a[i]
      /\ \A j \in 1..q : (a \o b)[p + j] = b[j]
  <2>1. Len(a) = p /\ Len(b) = q
    BY <1>3, <1>4
  <2>2. /\ DOMAIN (a \o b) = 1..(Len(a) + Len(b))
        /\ \A i \in 1..Len(a) : (a \o b)[i] = a[i]
        /\ \A j \in 1..Len(b) : (a \o b)[Len(a) + j] = b[j]
    BY BothParts
  <2>3. QED BY <2>1, <2>2, Zenon
<1>6. RemoveAt(s, k) = a \o b
  BY <1>1, <1>3, <1>4, Zenon DEF RemoveAt
<1>7. \A i \in 1..p : (a \o b)[i] = s[i]
  BY <1>3, <1>5, Zenon
<1>8. \A j \in 1..q : (a \o b)[p + j] = s[p + 1 + j]
  BY <1>2, <1>4, <1>5, Zenon
<1>9. k = p + 1 /\ DOMAIN s = 1..(p + 1 + q)
  BY <1>1, <1>2, Zenon
<1>10. /\ k = p + 1 /\ DOMAIN s = 1..(p + 1 + q)
       /\ DOMAIN RemoveAt(s, k) = 1..(p + q)
       /\ \A i \in 1..p : RemoveAt(s, k)[i] = s[i]
       /\ \A j \in 1..q : RemoveAt(s, k)[p + j] = s[p + 1 + j]
  BY <1>5, <1>6, <1>7, <1>8, <1>9, Zenon
<1> WITNESS p \in Nat, q \in Nat
<1>11. QED BY <1>10

\* The others stay in their order.
LEMMA OthersInOrder ==
  ASSUME NEW S, NEW s \in Seq(S), NEW k \in DOMAIN s
  PROVE  \E g : /\ \A i \in DOMAIN RemoveAt(s, k) :
                     /\ g[i] \in DOMAIN s /\ g[i] # k /\ RemoveAt(s, k)[i] = s[g[i]]
                /\ \A i, j \in DOMAIN RemoveAt(s, k) : i < j => g[i] < g[j]
<1>1. PICK t : t = RemoveAt(s, k)
  OBVIOUS
<1>2. PICK p \in Nat, q \in Nat : /\ k = p + 1 /\ DOMAIN s = 1..(p + 1 + q)
                                  /\ DOMAIN t = 1..(p + q)
                                  /\ \A i \in 1..p : t[i] = s[i]
                                  /\ \A j \in 1..q : t[p + j] = s[p + 1 + j]
  BY <1>1, PartsLeft, Zenon
<1>3. PICK g : /\ \A i \in 1..p : g[i] = i
               /\ \A j \in 1..q : g[p + j] = p + 1 + j
               /\ \A i \in 1..(p + q) : g[i] \in 1..(p + 1 + q) /\ g[i] # p + 1
               /\ \A i, j \in 1..(p + q) : i < j => g[i] < g[j]
  BY SkipOne, Zenon
<1>4. ASSUME NEW i \in 1..(p + q) PROVE t[i] = s[g[i]]
  <2>1. CASE i \in 1..p
    BY <1>2, <1>3, <2>1, Zenon
  <2>2. ASSUME NEW j \in 1..q, i = p + j PROVE t[i] = s[g[i]]
    BY <1>2, <1>3, <2>2, Zenon
  <2>3. QED BY <2>1, <2>2, OneOrOther, Zenon
<1>5. /\ \A i \in DOMAIN t : g[i] \in DOMAIN s /\ g[i] # k /\ t[i] = s[g[i]]
      /\ \A i, j \in DOMAIN t : i < j => g[i] < g[j]
  BY <1>2, <1>3, <1>4, Zenon
<1>6. QED BY <1>1, <1>5, Zenon

\* A packet is lost.
LEMMA LoseOrder ==
  ASSUME IInv, NEW f \in Seqs, OrderInv(f), NEW k \in DOMAIN net, Lose(k)
  PROVE  OrderInv(f)'
<1>1. /\ net' = RemoveAt(net, k)
      /\ UNCHANGED <<setup, at, seq, pending, some, seqLast, rtpData, currentNal, out>>
  BY DEF Lose, Drop, sender, receiver, frame
<1>2. SentInRow(f) /\ NetInRow(f) /\ OutInRow(f)
  BY DEF OrderInv
<1>3. PICK g : /\ \A i \in DOMAIN net' : g[i] \in DOMAIN net /\ g[i] # k /\ net'[i] = net[g[i]]
               /\ \A i, j \in DOMAIN net' : i < j => g[i] < g[j]
  <2>1. net \in Seq(Flying)
    BY DEF IInv, NetworkTypes
  <2>2. QED BY <1>1, <2>1, OthersInOrder
<1>4. Alive' \subseteq Alive
  BY <1>1, <1>3 DEF Alive
<1>5. SentInRow(f)' /\ OutInRow(f)'
  BY <1>1, <1>2, <1>4, SentStays, OutStays
<1>6. NetInRow(f)'
  <2>1. /\ \A i, j \in DOMAIN net : i < j => Ahead(f, net[i].seq) < Ahead(f, net[j].seq)
        /\ \A i \in DOMAIN net : Fresh(f, net[i].seq)
        /\ \A s \in DOMAIN rtpData : Fresh(f, s) \/ (f <= s /\ seqLast < f)
        /\ \A s \in DOMAIN rtpData : \A i \in DOMAIN net :
             s # net[i].seq /\ Ahead(f, s) <= Ahead(f, net[i].seq) + setup.reorder
        /\ IF some THEN Used(f, seqLast) ELSE DOMAIN rtpData = {}
    BY <1>2, Zenon DEF NetInRow
  <2>2. \A s : (Fresh(f, s)' <=> Fresh(f, s)) /\ (Used(f, s)' <=> Used(f, s))
    BY <1>1 DEF Fresh, Used
  <2>3. \A i, j \in DOMAIN net' : i < j => Ahead(f, net'[i].seq) < Ahead(f, net'[j].seq)
    BY <1>3, <2>1, Zenon
  <2>4. \A i \in DOMAIN net' : Fresh(f, net[i].seq)'
    <3>1. \A i \in DOMAIN net' : Fresh(f, net'[i].seq)
      BY <1>3, <2>1, Zenon
    <3>2. QED BY <1>1, <3>1, Zenon DEF Fresh
  <2>5. \A s \in DOMAIN rtpData' : Fresh(f, s)' \/ (f <= s /\ seqLast' < f)
    BY <1>1, <2>1, <2>2, Zenon
  <2>6. \A s \in DOMAIN rtpData' : \A i \in DOMAIN net' :
          s # net'[i].seq /\ Ahead(f, s) <= Ahead(f, net'[i].seq) + setup.reorder'
    <3>1. ASSUME NEW s \in DOMAIN rtpData, NEW i \in DOMAIN net'
          PROVE  s # net'[i].seq /\ Ahead(f, s) <= Ahead(f, net'[i].seq) + setup.reorder
      BY <1>3, <2>1
    <3>2. setup' = setup /\ rtpData' = rtpData
      BY <1>1
    <3>3. QED BY <3>1, <3>2
  <2>7. IF some' THEN Used(f, seqLast)' ELSE DOMAIN rtpData' = {}
    <3>1. Used(f, seqLast)' <=> Used(f, seqLast)
      BY <1>1 DEF Used
    <3>2. QED BY <1>1, <2>1, <3>1, Zenon
  <2>8. QED BY <2>3, <2>4, <2>5, <2>6, <2>7, Zenon DEF NetInRow
<1>7. QED BY <1>5, <1>6 DEF OrderInv

\* The receiver takes a packet: it waits, or the first that waits is handled.
LEMMA ReceiveOrder ==
  ASSUME IInv, NEW f \in Seqs, FramesInv(f), OrderInv(f), Calm(f), NEW k \in DOMAIN net, Receive(k)
  PROVE  OrderInv(f)'
<1>1. /\ net' = RemoveAt(net, k) /\ MayArrive(k) /\ UNCHANGED <<setup, at, seq, pending>>
  BY DEF Receive, sender
<1>2. SentInRow(f) /\ NetInRow(f) /\ OutInRow(f)
  BY DEF OrderInv
<1>3. PICK g : /\ \A i \in DOMAIN net' : g[i] \in DOMAIN net /\ g[i] # k /\ net'[i] = net[g[i]]
               /\ \A i, j \in DOMAIN net' : i < j => g[i] < g[j]
  <2>1. net \in Seq(Flying)
    BY DEF IInv, NetworkTypes
  <2>2. QED BY <1>1, <2>1, OthersInOrder
<1>4. PICK p \in Alive : p = net[k] /\ p \in Packets /\ p.seq \in Seqs
  BY NetTyped, AliveTyped
<1> DEFINE waiting == DOMAIN rtpData \cup {p.seq}
           data == [s \in waiting |-> IF s = p.seq THEN p ELSE rtpData[s]]
<1>5. DOMAIN data = waiting /\ \A s \in waiting : data[s] \in Alive /\ data[s].seq = s
  BY <1>4, NetTyped
<1>6. PICK key \in waiting :
        /\ \A s \in waiting : key <= s
        /\ IF IsNext(key, waiting)
           THEN rtpData' = [s \in waiting \ {key} |-> data[s]] /\ Handle(data[key])
           ELSE rtpData' = data /\ UNCHANGED <<some, seqLast, frame>>
  BY <1>4, Zenon DEF Receive
<1>7. /\ \A i, j \in DOMAIN net : i < j => Ahead(f, net[i].seq) < Ahead(f, net[j].seq)
      /\ \A i \in DOMAIN net : Fresh(f, net[i].seq)
      /\ \A s \in DOMAIN rtpData : Fresh(f, s) \/ (f <= s /\ seqLast < f)
      /\ \A s \in DOMAIN rtpData : \A i \in DOMAIN net :
           s # net[i].seq /\ Ahead(f, s) <= Ahead(f, net[i].seq) + setup.reorder
      /\ IF some THEN Used(f, seqLast) ELSE DOMAIN rtpData = {}
  BY <1>2, Zenon DEF NetInRow
<1>8. \A s \in waiting : \A i \in DOMAIN net : i # k =>
        s # net[i].seq /\ Ahead(f, s) <= Ahead(f, net[i].seq) + setup.reorder
  <2>1. \A i \in DOMAIN net : i # k =>
          p.seq # net[i].seq /\ Ahead(f, p.seq) <= Ahead(f, net[i].seq) + setup.reorder
    BY <1>1, <1>2, <1>4, ArrivesNear
  <2>2. QED BY <1>7, <2>1
<1>9. waiting = DOMAIN rtpData \cup {net[k].seq}
  BY <1>4
<1> HIDE DEF data, waiting
<1>10. DOMAIN rtpData' \subseteq waiting /\ \A s \in DOMAIN rtpData' : rtpData'[s] = data[s]
  <2>1. CASE IsNext(key, waiting)
    BY <1>5, <1>6, <2>1
  <2>2. CASE ~IsNext(key, waiting)
    BY <1>5, <1>6, <2>2
  <2>3. QED BY <2>1, <2>2
<1>11. Alive' \subseteq Alive
  <2>1. \A i \in DOMAIN net' : net'[i] \in Alive
    BY <1>3, Zenon DEF Alive
  <2>2. QED BY <1>5, <1>10, <2>1 DEF Alive
<1>12. SentInRow(f)'
  BY <1>1, <1>2, <1>11, SentStays
<1>13. \A i, j \in DOMAIN net' : i < j => Ahead(f, net'[i].seq) < Ahead(f, net'[j].seq)
  BY <1>3, <1>7, Zenon
<1>14. \A s \in DOMAIN rtpData' : \A i \in DOMAIN net' :
         s # net'[i].seq /\ Ahead(f, s) <= Ahead(f, net'[i].seq) + setup.reorder'
  <2>1. ASSUME NEW s \in DOMAIN rtpData', NEW i \in DOMAIN net'
        PROVE  s # net'[i].seq /\ Ahead(f, s) <= Ahead(f, net'[i].seq) + setup.reorder
    BY <1>3, <1>8, <1>10
  <2>2. setup' = setup
    BY <1>1
  <2>3. QED BY <2>1, <2>2
<1>15. CASE IsNext(key, waiting)
  <2>1. PICK h \in Alive : h = data[key] /\ Handle(h) /\ h.seq = key /\ h \in Packets
    BY <1>5, <1>6, <1>15, AliveTyped
  <2>2. /\ key \in Seqs /\ Fresh(f, key)
        /\ \A j \in DOMAIN net : j # k => Ahead(f, key) < Ahead(f, net[j].seq)
        /\ \A s \in waiting : s # key => Ahead(f, key) < Ahead(f, s) \/ (f <= s /\ key < f)
    BY <1>1, <1>2, <1>6, <1>9, <1>15, HandledNext, SMTT(30)
  <2>3. WellMade(h) /\ Used(f, key)
    BY <2>1 DEF FramesInv, LinksKept
  <2>4. OutInRow(f)'
    BY <1>1, <1>2, <1>11, <2>1, <2>2, <2>3, HandleOrder
  <2>5. some' = TRUE /\ seqLast' = key
    BY <2>1 DEF Handle
  <2>6. \A i \in DOMAIN net' : Fresh(f, net[i].seq)'
    <3>1. \A i \in DOMAIN net' : Ahead(f, key) < Ahead(f, net'[i].seq)
      BY <1>3, <2>2, Zenon
    <3>2. QED BY <2>5, <3>1, Zenon DEF Fresh
  <2>7. \A s \in DOMAIN rtpData' : Fresh(f, s)' \/ (f <= s /\ seqLast' < f)
    <3>1. \A s \in DOMAIN rtpData' : s \in waiting /\ s # key
      BY <1>6, <1>15
    <3>2. \A s \in DOMAIN rtpData' : Ahead(f, key) < Ahead(f, s) \/ (f <= s /\ key < f)
      BY <2>2, <3>1, Zenon
    <3>3. QED BY <2>5, <3>2, Zenon DEF Fresh
  <2>8. IF some' THEN Used(f, seqLast)' ELSE DOMAIN rtpData' = {}
    <3>1. Used(f, seqLast)'
      BY <1>1, <2>3, <2>5 DEF Used
    <3>2. QED BY <2>5, <3>1
  <2>9. NetInRow(f)'
    BY <1>13, <1>14, <2>6, <2>7, <2>8, Zenon DEF NetInRow
  <2>10. QED BY <1>12, <2>4, <2>9 DEF OrderInv
<1>16. CASE ~IsNext(key, waiting)
  <2>1. UNCHANGED <<some, seqLast, currentNal, out>> /\ some
    BY <1>6, <1>16 DEF frame, IsNext
  <2>2. OutInRow(f)'
    BY <1>1, <1>2, <1>11, <2>1, OutStays
  <2>3. \A s : Fresh(f, s)' <=> Fresh(f, s)
    BY <2>1, Zenon DEF Fresh
  <2>4. \A i \in DOMAIN net' : Fresh(f, net[i].seq)'
    <3>1. \A i \in DOMAIN net' : Fresh(f, net'[i].seq)
      BY <1>3, <1>7, Zenon
    <3>2. QED BY <2>1, <3>1, Zenon DEF Fresh
  <2>5. \A s \in DOMAIN rtpData' : Fresh(f, s)' \/ (f <= s /\ seqLast' < f)
    <3>1. \A s \in waiting : Fresh(f, s) \/ (f <= s /\ seqLast < f)
      BY <1>7, <1>9
    <3>2. QED BY <1>10, <2>1, <2>3, <3>1, Zenon
  <2>6. IF some' THEN Used(f, seqLast)' ELSE DOMAIN rtpData' = {}
    <3>1. Used(f, seqLast)
      BY <1>7, <2>1
    <3>2. Used(f, seqLast)'
      BY <1>1, <2>1, <3>1 DEF Used
    <3>3. QED BY <2>1, <3>2
  <2>7. NetInRow(f)'
    BY <1>13, <1>14, <2>4, <2>5, <2>6, Zenon DEF NetInRow
  <2>8. QED BY <1>12, <2>2, <2>7 DEF OrderInv
<1>17. QED BY <1>15, <1>16

\* Every step.
LEMMA NextOrder ==
  ASSUME IInv, NEW f \in Seqs, FramesInv(f), OrderInv(f), Calm(f), [Next]_vars,
         seq' # seq => seq' # f
  PROVE  OrderInv(f)'
<1>1. ASSUME UNCHANGED <<setup, at, seq, pending, net, some, seqLast, rtpData, currentNal, out>>
      PROVE  OrderInv(f)'
  <2>1. SentInRow(f) /\ NetInRow(f) /\ OutInRow(f)
    BY DEF OrderInv
  <2>2. Alive' \subseteq Alive
    BY <1>1 DEF Alive
  <2>3. QED BY <1>1, <2>1, <2>2, SentStays, NetStays, OutStays DEF OrderInv
<1>2. CASE Send
  BY <1>2, SendOrder
<1>3. CASE SendPacket
  BY <1>3, SendPacketOrder
<1>4. CASE Throttle \/ Time \/ Play \/ UNCHANGED vars
  <2>1. UNCHANGED <<setup, at, seq, pending, net, some, seqLast, rtpData, currentNal, out>>
    BY <1>4 DEF Throttle, Time, Play, vars, sender, network, receiver, frame
  <2>2. QED BY <1>1, <2>1
<1>5. CASE Stop \/ Start \/ Miss
  <2>1. stops \in 0..setup.stops /\ setup.stops = 0 /\ running
    BY DEF IInv, ReceiverTypes, FramesInv
  <2>2. ~(stops < setup.stops)
    BY <2>1
  <2>3. QED BY <1>5, <2>1, <2>2 DEF Stop, Start, Miss
<1>6. ASSUME NEW k \in DOMAIN net, Lose(k) PROVE OrderInv(f)'
  BY <1>6, LoseOrder
<1>7. ASSUME NEW k \in DOMAIN net, Receive(k) PROVE OrderInv(f)'
  BY <1>7, ReceiveOrder
<1>8. QED BY <1>2, <1>3, <1>4, <1>5, <1>6, <1>7 DEF Next, Sends

\* Nothing was sent yet.
LEMMA InitOrder ==
  ASSUME NEW f \in Seqs, Init
  PROVE  OrderInv(f)
<1>1. /\ pending = <<>> /\ net = <<>> /\ rtpData = <<>> /\ currentNal = <<>> /\ out = <<>>
      /\ ~some
  BY DEF Init
<1>2. Alive = {} /\ DOMAIN rtpData = {} /\ Delivered = {} /\ Carries(currentNal) = {}
  BY <1>1 DEF Alive, Delivered, Carries
<1>3. SentInRow(f)
  BY <1>1, <1>2 DEF SentInRow, InRow
<1>4. NetInRow(f)
  BY <1>1, <1>2 DEF NetInRow
<1>5. OutInRow(f)
  BY <1>1, <1>2 DEF OutInRow, InOrder
<1>6. QED BY <1>3, <1>4, <1>5 DEF OrderInv

\* As long as the receiver runs and the sequence numbers have not come round to the
\* first, f, frames are delivered in the order they were sent and none twice,
\* whatever the network loses, when it overtakes nothing, or not farther than the
\* receiver waits and not across a rollover: a packet that is handled comes after
\* all that were, and before all that are under way.
THEOREM FramesInOrder ==
  ASSUME NEW f \in Seqs
  PROVE  Spec /\ seq = f /\ setup.stops = 0 /\ [][seq' # f]_seq /\ []Calm(f) => []InOrder
<1>1. Init /\ seq = f /\ setup.stops = 0 => FramesInv(f)
  BY InitFrames
<1>2. Init /\ seq = f => OrderInv(f)
  BY InitOrder
<1>3. IInv /\ FramesInv(f) /\ [Next]_vars /\ [seq' # f]_seq => FramesInv(f)'
  BY NextFrames
<1>4. IInv /\ FramesInv(f) /\ OrderInv(f) /\ Calm(f) /\ [Next]_vars /\ [seq' # f]_seq => OrderInv(f)'
  BY NextOrder
<1>5. OrderInv(f) => InOrder
  BY DEF OrderInv, OutInRow
<1>6. QED BY <1>1, <1>2, <1>3, <1>4, <1>5, InitIInv, NextIInv, PTL DEF Spec

-----------------------------------------------------------------------------
(***************************************************************************)
(* What a lost packet costs.                                               *)
(*                                                                         *)
(* As before the numbers have not come round to the first, f, and the      *)
(* receiver runs.  Packets carry one unit of the stream after the other:   *)
(* of each it is known which unit the number before it is of, and whether  *)
(* that ends there, or else that this unit has lost the packet.  The last  *)
(* packet that was handled was of unit lu, and ended it if le.  A unit     *)
(* that is not hurt, after one that is not, is put together from its       *)
(* beginning.                                                              *)
(***************************************************************************)

\* The packets of a unit of the stream, or of some in an aggregate: the first starts
\* and the last ends, and each carries what the series does.
Starts(p) == p.type # 28 \/ p.start
Uniform(s) ==
  /\ s # <<>>
  /\ \A j \in DOMAIN s : /\ Starts(s[j]) <=> j = 1
                         /\ Ends(s[j]) <=> j = Len(s)
                         /\ Carried(s[j]) = NalsOf(s)

\* What every packet of a series carries is what the series does.
LEMMA NalsOfEach ==
  ASSUME NEW S, NEW s \in Seq(S), s # <<>>, NEW A, \A j \in DOMAIN s : Carried(s[j]) = A
  PROVE  NalsOf(s) = A
<1>1. 1 \in DOMAIN s
  OBVIOUS
<1>2. ToSet(s) = {s[j] : j \in DOMAIN s}
  BY DEF ToSet
<1>3. \A p \in ToSet(s) : Carried(p) = A
  BY <1>2
<1>4. s[1] \in ToSet(s)
  BY <1>1, <1>2
<1>5. \A p : Carried(p) = {piece.nal : piece \in ToSet(p.pieces)}
  BY DEF Carried, Carries, ToSet
<1>6. ASSUME NEW x \in NalsOf(s) PROVE x \in A
  <2>1. PICK piece \in UNION {ToSet(p.pieces) : p \in ToSet(s)} : x = piece.nal
    BY <1>6 DEF NalsOf
  <2>2. PICK p \in ToSet(s) : piece \in ToSet(p.pieces)
    BY <2>1
  <2>3. x \in Carried(p)
    BY <1>5, <2>1, <2>2
  <2>4. QED BY <1>3, <2>3
<1>7. ASSUME NEW x \in A PROVE x \in NalsOf(s)
  <2>1. x \in Carried(s[1])
    BY <1>3, <1>4
  <2>2. PICK piece \in ToSet(s[1].pieces) : x = piece.nal
    BY <1>5, <2>1
  <2>3. QED BY <1>4, <2>2 DEF NalsOf
<1>8. QED BY <1>6, <1>7

LEMMA OneUniform ==
  ASSUME NEW p, p.type # 28
  PROVE  Uniform(<<p>>) /\ NalsOf(<<p>>) = Carried(p)
<1> DEFINE s == <<p>>
<1>1. DOMAIN s = {1} /\ s[1] = p /\ Len(s) = 1 /\ s # <<>> /\ s \in Seq({p})
  OBVIOUS
<1> HIDE DEF s
<1>2. Starts(p) /\ Ends(p)
  BY DEF Starts, Ends
<1>3. \A j \in DOMAIN s : Carried(s[j]) = Carried(p)
  BY <1>1
<1>4. NalsOf(s) = Carried(p)
  BY <1>1, <1>3, NalsOfEach
<1>5. Uniform(s)
  BY <1>1, <1>2, <1>4, Zenon DEF Uniform
<1>6. QED BY <1>4, <1>5 DEF s

LEMMA NalPacketsUniform ==
  ASSUME setup \in Setups, NEW n \in DOMAIN setup.nals
  PROVE  Uniform(NalPackets(n))
<1>1. MaxPayload \in Nat /\ MaxPayload > 3 /\ n \in Nat /\ Size(n) \in Nat \ {0}
  BY RtpAssumption, Units
<1>2. CASE Size(n) <= MaxPayload
  <2>1. PICK p : p = Packet(1, FALSE, FALSE, TRUE, <<Piece(n, 1, Size(n))>>)
    OBVIOUS
  <2>2. NalPackets(n) = <<p>>
    BY <1>2, <2>1, Zenon DEF NalPackets
  <2>3. p.type # 28
    BY <2>1 DEF Packet
  <2>4. QED BY <2>2, <2>3, OneUniform
<1>3. CASE Size(n) > MaxPayload
  <2>1. PICK m \in Nat \ {0} : m = Fragments(n)
    <3>1. PICK c \in Nat \ {0} : c = MaxPayload - 2
      BY <1>1
    <3>2. PICK a \in Nat : a = Size(n) - 2
      BY <1>1, <1>3
    <3>3. PICK q \in Nat : q = a \div c
      BY <3>1, <3>2, Division
    <3>4. Fragments(n) = q + 1
      BY <3>1, <3>2, <3>3, Zenon DEF Fragments
    <3>5. q + 1 \in Nat \ {0}
      OBVIOUS
    <3>6. QED BY <3>4, <3>5
  <2> DEFINE s == [j \in 1..m |-> Packet(28, j = 1, j = m, j = m, <<Part(n, j, m)>>)]
  <2>2. NalPackets(n) = s
    BY <1>1, <1>3, <2>1 DEF NalPackets
  <2>3. ASSUME NEW i \in 1..m
        PROVE  /\ s[i].type = 28 /\ s[i].pieces = <<Part(n, i, m)>>
               /\ (s[i].start <=> i = 1) /\ (s[i].last <=> i = m) /\ (s[i].end <=> i = m)
    BY DEF Packet
  <2>4. DOMAIN s = 1..m /\ Len(s) = m /\ s \in Seq({s[i] : i \in 1..m})
    <3>1. DOMAIN s = 1..m
      OBVIOUS
    <3> HIDE DEF s
    <3>2. PICK T : T = {s[i] : i \in 1..m}
      OBVIOUS
    <3>4. s = [i \in 1..m |-> s[i]]
      BY <3>1 DEF s
    <3>5. s \in [1..m -> T]
      BY <3>2, <3>4, Zenon
    <3>6. m \in Nat
      BY <2>1
    <3>7. Len(s) = m /\ s \in Seq(T)
      BY <3>5, <3>6
    <3>8. QED BY <3>1, <3>2, <3>7
  <2> HIDE DEF s
  <2>5. ASSUME NEW i \in 1..m PROVE Carried(s[i]) = {n}
    <3>1. PICK x : x = Part(n, i, m)
      OBVIOUS
    <3>2. x.nal = n
      BY <3>1 DEF Part, Piece
    <3>3. s[i].pieces = <<x>>
      BY <2>3, <3>1
    <3>4. QED BY <3>2, <3>3 DEF Carried, Carries
  <2>6. s # <<>>
    BY <2>4
  <2>7. NalsOf(s) = {n}
    BY <2>4, <2>5, <2>6, NalsOfEach
  <2>8. ASSUME NEW i \in 1..m PROVE (Starts(s[i]) <=> i = 1) /\ (Ends(s[i]) <=> i = m)
    BY <2>3, Zenon DEF Starts, Ends
  <2>9. QED BY <2>2, <2>4, <2>5, <2>6, <2>7, <2>8, Zenon DEF Uniform
<1>4. QED BY <1>1, <1>2, <1>3

\* Every series that a buffer has been made into.
AllUniform(all) == \A u \in DOMAIN all : Uniform(all[u])

LEMMA AppendUniform ==
  ASSUME NEW S, NEW all \in Seq(Seq(S)), NEW s \in Seq(S), Uniform(s), AllUniform(all)
  PROVE  AllUniform(Append(all, s))
<1>1. PICK n \in Nat : n = Len(all) /\ DOMAIN all = 1..n
  OBVIOUS
<1> DEFINE more == Append(all, s)
<1>2. DOMAIN more = 1..(n + 1) /\ more[n + 1] = s /\ \A u \in 1..n : more[u] = all[u]
  BY <1>1
<1> HIDE DEF more
<1>3. \A u \in 1..(n + 1) : u \in 1..n \/ u = n + 1
  BY <1>1
<1>4. \A u \in 1..(n + 1) : Uniform(more[u])
  BY <1>1, <1>2, <1>3, Zenon DEF AllUniform
<1>5. QED BY <1>2, <1>4 DEF more, AllUniform

LEMMA FlushUniform ==
  ASSUME setup \in Setups, NEW m \in Goods, AllUniform(m.series)
  PROVE  AllUniform(Flush(m).series)
<1>1. CASE m.stap = <<>>
  <2>1. Flush(m) = m
    BY <1>1, Zenon DEF Flush
  <2>2. QED BY <2>1
<1>2. CASE m.stap # <<>>
  <2>1. PICK p \in Made : p = Packet(24, FALSE, FALSE, TRUE, m.stap)
    BY <1>2, AggregateMade
  <2>2. p.type # 28
    BY <2>1 DEF Packet
  <2>3. Uniform(<<p>>)
    BY <2>2, OneUniform
  <2>4. m.series \in Seq(Seq(Made)) /\ <<p>> \in Seq(Made)
    <3> HIDE DEF Made
    <3>1. QED BY DEF Goods
  <2>5. AllUniform(Append(m.series, <<p>>))
    BY <2>3, <2>4, AppendUniform
  <2>6. Flush(m) = [m EXCEPT !.series = Append(@, <<p>>), !.stap = <<>>, !.size = 0]
    BY <1>2, <2>1, Zenon DEF Flush
  <2>7. Flush(m).series = Append(m.series, <<p>>)
    BY <2>6 DEF Goods
  <2>8. QED BY <2>5, <2>7
<1>3. QED BY <1>1, <1>2

LEMMA SendUniform ==
  ASSUME setup \in Setups, NEW m \in Goods, NEW n \in DOMAIN setup.nals, AllUniform(m.series)
  PROVE  AllUniform(SendNal(m, n).series)
<1>1. PICK seen \in BOOLEAN : seen = (m.sps \/ Type(n) = "sps")
  OBVIOUS
<1>2. m.series \in Seq(Seq(Made)) /\ NalPackets(n) \in Seq(Made)
  BY NalPacketsMade DEF Goods
<1>3. AllUniform(Append(m.series, NalPackets(n)))
  BY <1>2, NalPacketsUniform, AppendUniform
<1>4. SendNal(m, n) = [m EXCEPT !.sps = seen,
         !.series = IF seen /\ Type(n) # "undefined" THEN Append(@, NalPackets(n)) ELSE @]
  BY <1>1, Zenon DEF SendNal
<1>5. SendNal(m, n).series = Append(m.series, NalPackets(n)) \/ SendNal(m, n).series = m.series
  BY <1>4 DEF Goods
<1>6. QED BY <1>3, <1>5

LEMMA PacketizeUniform ==
  ASSUME setup \in Setups, NEW m \in Goods, NEW n \in DOMAIN setup.nals, AllUniform(m.series)
  PROVE  AllUniform(Packetize(m, n).series)
<1>1. Flush(m) \in Goods /\ AllUniform(Flush(m).series)
  BY FlushGood, FlushUniform
<1>2. AllUniform(SendNal(m, n).series) /\ AllUniform(SendNal(Flush(m), n).series)
  BY <1>1, SendUniform
<1>3. ASSUME NEW a \in Goods PROVE Aggregate(a, n).series = a.series
  BY DEF Aggregate, Goods
<1>4. AllUniform(Aggregate(m, n).series) /\ AllUniform(Aggregate(Flush(m), n).series)
  <2>1. Aggregate(m, n).series = m.series /\ Aggregate(Flush(m), n).series = Flush(m).series
    BY <1>1, <1>3
  <2>2. QED BY <1>1, <2>1
<1>5. QED BY <1>1, <1>2, <1>4, Zenon DEF Packetize

LEMMA PacketizedUniform ==
  ASSUME setup \in Setups, NEW b \in Goods, b.series = <<>>, NEW nals \in Seq(DOMAIN setup.nals)
  PROVE  AllUniform(FoldLeft(Packetize, b, nals).series)
<1>1. PICK n \in Nat : n = Len(nals) /\ DOMAIN nals = 1..n /\ \A i \in 1..n : nals[i] \in DOMAIN setup.nals
  BY ElementOfSeq
<1>0. PICK g : /\ g[0] = b /\ FoldLeft(Packetize, b, nals) = g[Len(nals)]
               /\ \A k \in 0..Len(nals) : g[k] \in Goods
               /\ \A k \in 1..Len(nals) : g[k] = Packetize(g[k - 1], nals[k])
  BY PacketizedSteps, Zenon
<1>2. /\ g[0] = b /\ FoldLeft(Packetize, b, nals) = g[n]
      /\ \A k \in 0..n : g[k] \in Goods
      /\ \A k \in 1..n : g[k] = Packetize(g[k - 1], nals[k])
  BY <1>0, <1>1, Zenon
<1> DEFINE T == {k \in Nat : k <= n => AllUniform(g[k].series)}
<1>3. 0 \in T
  BY <1>2 DEF AllUniform
<1>4. ASSUME NEW k \in T PROVE k + 1 \in T
  <2>1. k \in Nat /\ (k + 1) - 1 = k
    OBVIOUS
  <2>2. SUFFICES ASSUME k + 1 <= n PROVE AllUniform(g[k + 1].series)
    BY <2>1
  <2>3. k \in 0..n /\ k + 1 \in 1..n /\ AllUniform(g[k].series)
    BY <2>1, <2>2
  <2>4. PICK i \in DOMAIN setup.nals : i = nals[k + 1]
    BY <1>1, <2>3
  <2>5. g[k] \in Goods /\ g[k + 1] = Packetize(g[k], i)
    BY <1>2, <2>1, <2>3, <2>4
  <2> HIDE DEF T
  <2>6. QED BY <2>3, <2>5, PacketizeUniform
<1>5. T = Nat
  <2> HIDE DEF T
  <2>1. QED BY <1>3, <1>4, NatSetInduction DEF T
<1>6. AllUniform(g[n].series)
  BY <1>5
<1>7. QED BY <1>2, <1>6

\* The unit of the packet before q, and packets one after the other to the end of
\* the unit hi; the units from lo + 1 to hi.
Before(q) == IF Starts(q) THEN q.unit - 1 ELSE q.unit
Succeeds(p, q) == Before(q) = p.unit /\ (Starts(q) <=> Ends(p))
Lined(s, hi) ==
  /\ \A i \in DOMAIN s : i + 1 \in DOMAIN s => Succeeds(s[i], s[i + 1])
  /\ s # <<>> => Ends(s[Len(s)]) /\ s[Len(s)].unit = hi
LinedFrom(s, lo, hi) ==
  /\ s # <<>> /\ Lined(s, hi) /\ Starts(s[1]) /\ s[1].unit = lo + 1
  /\ \A u \in lo + 1..hi : \E i \in DOMAIN s : s[i].unit = u

\* The end of one sequence and the beginning of the next.
LEMMA ConcatLined ==
  ASSUME NEW S, NEW a \in Seq(S), NEW b \in Seq(S), NEW lo \in Nat, NEW mid \in Nat, NEW hi \in Nat,
         LinedFrom(a, lo, mid), LinedFrom(b, mid, hi)
  PROVE  LinedFrom(a \o b, lo, hi)
<1>1. PICK m \in Nat, n \in Nat : m = Len(a) /\ n = Len(b) /\ DOMAIN a = 1..m /\ DOMAIN b = 1..n
  OBVIOUS
<1>2. m # 0 /\ n # 0
  <2>1. a # <<>> /\ b # <<>>
    BY DEF LinedFrom
  <2>2. QED BY <1>1, <2>1
<1>3. PICK c \in Seq(S) : c = a \o b
  <2>1. a \o b \in Seq(S)
    OBVIOUS
  <2>2. QED BY <2>1
<1>4. /\ DOMAIN c = 1..(m + n)
      /\ \A i \in 1..m : c[i] = a[i]
      /\ \A j \in 1..n : c[m + j] = b[j]
  <2>1. /\ DOMAIN (a \o b) = 1..(Len(a) + Len(b))
        /\ \A i \in 1..Len(a) : (a \o b)[i] = a[i]
        /\ \A j \in 1..Len(b) : (a \o b)[Len(a) + j] = b[j]
    BY BothParts
  <2>2. QED BY <1>1, <1>3, <2>1, Zenon
<1>5. Len(c) = m + n /\ c # <<>>
  <2>1. Len(c) \in Nat /\ DOMAIN c = 1..Len(c)
    OBVIOUS
  <2>2. QED BY <1>1, <1>2, <1>4, <2>1
<1>6. /\ \A i \in 1..m : i + 1 \in 1..m => Succeeds(a[i], a[i + 1])
      /\ Ends(a[m]) /\ a[m].unit = mid /\ Starts(a[1]) /\ a[1].unit = lo + 1
      /\ \A u \in lo + 1..mid : \E i \in 1..m : a[i].unit = u
  BY <1>1, Zenon DEF LinedFrom, Lined
<1>7. /\ \A i \in 1..n : i + 1 \in 1..n => Succeeds(b[i], b[i + 1])
      /\ Ends(b[n]) /\ b[n].unit = hi /\ Starts(b[1]) /\ b[1].unit = mid + 1
      /\ \A u \in mid + 1..hi : \E i \in 1..n : b[i].unit = u
  BY <1>1, Zenon DEF LinedFrom, Lined
<1>8. Succeeds(a[m], b[1])
  <2>1. (mid + 1) - 1 = mid
    OBVIOUS
  <2>2. QED BY <1>6, <1>7, <2>1 DEF Succeeds, Before
<1>9. 1 \in 1..m /\ m \in 1..m /\ 1 \in 1..n /\ n \in 1..n
  BY <1>2
<1>10. ASSUME NEW i \in 1..(m + n), i + 1 \in 1..(m + n) PROVE Succeeds(c[i], c[i + 1])
  <2>1. CASE i + 1 \in 1..m
    <3>1. i \in 1..m
      BY <2>1
    <3>2. QED BY <1>4, <1>6, <2>1, <3>1, Zenon
  <2>2. CASE i = m
    <3>1. c[m] = a[m] /\ c[m + 1] = b[1]
      BY <1>4, <1>9, Zenon
    <3>2. QED BY <1>8, <2>2, <3>1
  <2>3. CASE i \notin 1..m
    <3>1. PICK j \in 1..n : i = m + j
      BY <2>3, OneOrOther, Zenon
    <3>2. i + 1 = m + (j + 1) /\ j + 1 \in 1..n
      BY <1>10, <3>1
    <3>3. c[i] = b[j] /\ c[i + 1] = b[j + 1]
      BY <1>4, <3>1, <3>2, Zenon
    <3>4. QED BY <1>7, <3>2, <3>3, Zenon
  <2>4. QED BY <2>1, <2>2, <2>3
<1>11. c[m + n] = b[n] /\ c[1] = a[1]
  BY <1>4, <1>9, Zenon
<1>12. Lined(c, hi)
  BY <1>4, <1>5, <1>7, <1>10, <1>11, Zenon DEF Lined
<1>13. ASSUME NEW u \in lo + 1..hi PROVE \E i \in DOMAIN c : c[i].unit = u
  <2>1. CASE u <= mid
    <3>1. PICK i \in 1..m : a[i].unit = u
      BY <1>6, <2>1
    <3>2. i \in 1..(m + n)
      OBVIOUS
    <3>3. QED BY <1>4, <3>1, <3>2, Zenon
  <2>2. CASE mid < u
    <3>1. PICK j \in 1..n : b[j].unit = u
      BY <1>7, <2>2
    <3>2. m + j \in 1..(m + n)
      OBVIOUS
    <3>3. QED BY <1>4, <3>1, <3>2, Zenon
  <2>3. QED BY <2>1, <2>2
<1>14. LinedFrom(c, lo, hi)
  BY <1>5, <1>6, <1>11, <1>12, <1>13, Zenon DEF LinedFrom
<1>15. QED BY <1>3, <1>14

\* The packets of one unit.
LEMMA UniformLined ==
  ASSUME NEW S, NEW s \in Seq(S), Uniform(s), NEW lo \in Nat, \A i \in DOMAIN s : s[i].unit = lo + 1
  PROVE  LinedFrom(s, lo, lo + 1)
<1>1. PICK n \in Nat : n = Len(s) /\ DOMAIN s = 1..n
  OBVIOUS
<1>2. s # <<>> /\ \A i \in 1..n : (Starts(s[i]) <=> i = 1) /\ (Ends(s[i]) <=> i = n)
  BY <1>1, Zenon DEF Uniform
<1>3. 1 \in 1..n /\ n \in 1..n
  BY <1>1, <1>2
<1>4. ASSUME NEW i \in 1..n, i + 1 \in 1..n PROVE Succeeds(s[i], s[i + 1])
  <2>1. i # n /\ i + 1 # 1
    BY <1>4
  <2>2. ~Ends(s[i]) /\ ~Starts(s[i + 1])
    BY <1>2, <1>4, <2>1, Zenon
  <2>3. s[i].unit = lo + 1 /\ s[i + 1].unit = lo + 1
    BY <1>1, <1>4
  <2>4. QED BY <2>2, <2>3, Zenon DEF Succeeds, Before
<1>5. Lined(s, lo + 1)
  BY <1>1, <1>2, <1>3, <1>4, Zenon DEF Lined
<1>6. \A u \in lo + 1..lo + 1 : s[1].unit = u
  BY <1>1, <1>3
<1>7. QED BY <1>1, <1>2, <1>3, <1>5, <1>6, Zenon DEF LinedFrom

\* Units one after the other.
LEMMA FlattenedLined ==
  ASSUME NEW S, NEW all \in Seq(Seq(S)), NEW lo \in Nat, all # <<>>,
         \A u \in DOMAIN all : LinedFrom(all[u], lo + u - 1, lo + u)
  PROVE  LinedFrom(FlattenSeq(all), lo, lo + Len(all))
<1>1. PICK n \in Nat : n = Len(all) /\ DOMAIN all = 1..n
  OBVIOUS
<1>2. PICK e : /\ FlattenSeq(all) = IF n = 0 THEN <<>> ELSE e[n]
               /\ \A i \in 1..n : e[i] = IF i = 1 THEN all[i] ELSE e[i - 1] \o all[i]
  <2>1. <<>> \in Seq(S) /\ \A a, b \in Seq(S) : a \o b \in Seq(S)
    OBVIOUS
  <2>2. QED BY <1>1, <2>1, FlattenedSteps, Zenon
<1>3. \A u \in 1..n : all[u] \in Seq(S)
  BY <1>1, ElementOfSeq
<1>4. \A u \in 1..n : LinedFrom(all[u], lo + u - 1, lo + u)
  BY <1>1
<1> DEFINE Good(k) == e[k] \in Seq(S) /\ LinedFrom(e[k], lo, lo + k)
           T == {k \in Nat : k \in 1..n => Good(k)}
<1>5. 0 \in T
  BY <1>1
<1>6. ASSUME NEW k \in T PROVE k + 1 \in T
  <2>1. k \in Nat /\ (k + 1) - 1 = k /\ lo + (k + 1) - 1 = lo + k /\ lo + k \in Nat
    OBVIOUS
  <2>2. SUFFICES ASSUME k + 1 \in 1..n PROVE Good(k + 1)
    BY <2>1
  <2>3. LinedFrom(all[k + 1], lo + k, lo + (k + 1)) /\ all[k + 1] \in Seq(S)
    BY <1>3, <1>4, <2>1, <2>2, Zenon
  <2>4. CASE k = 0
    <3>1. e[1] = all[1] /\ k + 1 = 1 /\ lo + k = lo
      BY <1>2, <2>2, <2>4
    <3>2. QED BY <2>3, <3>1
  <2>5. CASE k # 0
    <3>1. k \in 1..n /\ k + 1 # 1
      BY <1>1, <2>1, <2>2, <2>5
    <3>2. Good(k)
      BY <3>1
    <3> HIDE DEF T
    <3>3. e[k + 1] = e[k] \o all[k + 1]
      BY <1>2, <2>1, <2>2, <3>1
    <3>4. PICK a \in Seq(S), b \in Seq(S) : a = e[k] /\ b = all[k + 1]
      BY <2>3, <3>2
    <3>5. lo + (k + 1) \in Nat
      BY <2>1
    <3>6. LinedFrom(a, lo, lo + k) /\ LinedFrom(b, lo + k, lo + (k + 1))
      BY <2>3, <3>2, <3>4
    <3>7. LinedFrom(a \o b, lo, lo + (k + 1))
      BY <2>1, <3>5, <3>6, ConcatLined
    <3>8. a \o b \in Seq(S)
      OBVIOUS
    <3>9. QED BY <3>3, <3>4, <3>7, <3>8
  <2>6. QED BY <2>4, <2>5
<1>7. T = Nat
  <2> HIDE DEF T
  <2>1. QED BY <1>5, <1>6, NatSetInduction DEF T
<1>8. n # 0 /\ n \in 1..n
  BY <1>1
<1>9. Good(n) /\ FlattenSeq(all) = e[n]
  BY <1>2, <1>7, <1>8
<1>10. QED BY <1>1, <1>9

\* What processBuffer() has made of a buffer: its units, one after the other, after
\* those before; each packet carries what `units' says of it.
LEMMA SendLined ==
  ASSUME IInv, Send, playing
  PROVE  /\ \A u \in DOMAIN units : u \in DOMAIN units' /\ units'[u] = units[u]
         /\ \A i \in DOMAIN pending' : Carried(pending'[i]) = units'[pending'[i].unit]
         /\ pending' = <<>> => units' = units
         /\ pending' # <<>> => LinedFrom(pending', Len(units), Len(units'))
         /\ Len(units) \in Nat /\ Len(units') \in Nat /\ Len(units) <= Len(units')
<1> DEFINE from == IF at = 0 THEN 1 ELSE setup.ends[at] + 1
           nals == [i \in 1..setup.ends[at + 1] - from + 1 |-> from + i - 1]
           empty == [series |-> <<>>, stap |-> <<>>, size |-> 0, sps |-> sps]
           made == Flush(FoldLeft(Packetize, empty, nals))
           place(m, u, j) == [m.series[u][j] EXCEPT !.unit = Len(units) + u]
           placed(m) == [u \in DOMAIN m.series |-> [j \in DOMAIN m.series[u] |-> place(m, u, j)]]
<1>1. setup \in Setups /\ at \in 0..Len(setup.ends) /\ sps \in BOOLEAN /\ at < Len(setup.ends)
      /\ units \in Seq(SUBSET DOMAIN setup.nals)
  BY DEF IInv, SenderTypes, Send
<1>2. PICK m : /\ m = made /\ pending' = FlattenSeq(placed(m))
               /\ units' = units \o [u \in DOMAIN m.series |-> NalsOf(m.series[u])]
  BY Zenon DEF Send
<1>3. m \in Goods /\ AllUniform(m.series)
  <2>1. nals \in Seq(DOMAIN setup.nals)
    BY <1>1, NextNals
  <2>2. empty \in Goods /\ empty.series = <<>>
    <3>1. 0 \in 0..MaxPayload /\ <<>> \in Seq(Seq(Made)) /\ <<>> \in Seq(Pieces)
      BY RtpAssumption
    <3> HIDE DEF Made
    <3>2. QED BY <1>1, <3>1 DEF Goods, Filled
  <2> HIDE DEF nals, empty
  <2>3. FoldLeft(Packetize, empty, nals) \in Goods
    BY <1>1, <2>1, <2>2, PacketizedGood
  <2>4. AllUniform(FoldLeft(Packetize, empty, nals).series)
    BY <1>1, <2>1, <2>2, PacketizedUniform
  <2>5. QED BY <1>1, <1>2, <2>3, <2>4, FlushGood, FlushUniform
<1> HIDE DEF made, nals, empty
<1>4. PICK n \in Nat : n = Len(m.series) /\ DOMAIN m.series = 1..n
  BY <1>3 DEF Goods
<1>5. PICK l \in Nat : l = Len(units) /\ DOMAIN units = 1..l
  BY <1>1
<1>6. \A u \in 1..n : m.series[u] \in Seq(Made) /\ Uniform(m.series[u])
  <2>1. m.series \in Seq(Seq(Made))
    BY <1>3 DEF Goods
  <2>2. QED BY <1>3, <1>4, <2>1, ElementOfSeq DEF AllUniform
<1> DEFINE row(u) == [j \in DOMAIN m.series[u] |-> place(m, u, j)]
           S == UNION {{row(u)[j] : j \in DOMAIN m.series[u]} : u \in 1..n}
<1>7. ASSUME NEW u \in 1..n
      PROVE  /\ row(u) \in Seq(S) /\ LinedFrom(row(u), l + u - 1, l + u)
             /\ \A j \in DOMAIN m.series[u] : /\ row(u)[j].unit = l + u
                                              /\ Carried(row(u)[j]) = NalsOf(m.series[u])
  <2>1. PICK k \in Nat : DOMAIN m.series[u] = 1..k /\ Len(m.series[u]) = k
    BY <1>6
  <2>2. ASSUME NEW j \in DOMAIN m.series[u]
        PROVE  Same(m.series[u][j], row(u)[j]) /\ row(u)[j].unit = l + u
    <3>1. PICK p \in Made : p = m.series[u][j]
      BY <1>6, ElementOfSeq
    <3>2. PICK k2 : k2 = Len(units) + u
      OBVIOUS
    <3>3. Same(p, [p EXCEPT !.unit = k2]) /\ [p EXCEPT !.unit = k2].unit = k2
      BY DEF Same, Made
    <3>4. row(u)[j] = [p EXCEPT !.unit = k2]
      BY <3>1, <3>2
    <3> HIDE DEF row
    <3>5. QED BY <1>5, <3>1, <3>2, <3>3, <3>4
  <2>3. DOMAIN row(u) = DOMAIN m.series[u]
    OBVIOUS
  <2>4. row(u) \in Seq(S) /\ Len(row(u)) = k
    <3> HIDE DEF place
    <3>1. \A j \in DOMAIN m.series[u] : place(m, u, j) \in S
      <4>1. \A j \in DOMAIN m.series[u] : row(u)[j] = place(m, u, j)
        OBVIOUS
      <4> HIDE DEF row
      <4>2. QED BY <4>1
    <3> HIDE DEF S
    <3>2. QED BY <2>1, <3>1
  <2> HIDE DEF row, S
  <2>5. \A j \in DOMAIN m.series[u] : /\ Carried(row(u)[j]) = Carried(m.series[u][j])
                                      /\ Ends(row(u)[j]) <=> Ends(m.series[u][j])
                                      /\ Starts(row(u)[j]) <=> Starts(m.series[u][j])
    BY <2>2, Zenon DEF Same, Carried, Ends, Starts
  <2>6. /\ m.series[u] # <<>>
        /\ \A j \in DOMAIN m.series[u] : /\ Starts(m.series[u][j]) <=> j = 1
                                         /\ Ends(m.series[u][j]) <=> j = k
                                         /\ Carried(m.series[u][j]) = NalsOf(m.series[u])
    BY <1>6, <2>1, Zenon DEF Uniform
  <2>7. row(u) # <<>>
    <3>1. k # 0
      BY <1>6, <2>1, <2>6
    <3>2. QED BY <2>4, <3>1
  <2>8. \A j \in DOMAIN row(u) : Carried(row(u)[j]) = NalsOf(m.series[u])
    BY <2>3, <2>5, <2>6, Zenon
  <2>9. NalsOf(row(u)) = NalsOf(m.series[u])
    BY <2>4, <2>7, <2>8, NalsOfEach
  <2>10. Uniform(row(u))
    <3>1. \A j \in DOMAIN row(u) : Starts(row(u)[j]) <=> j = 1
      BY <2>3, <2>5, <2>6, Zenon
    <3>2. \A j \in DOMAIN row(u) : Ends(row(u)[j]) <=> j = Len(row(u))
      BY <2>3, <2>4, <2>5, <2>6, Zenon
    <3>3. \A j \in DOMAIN row(u) : Carried(row(u)[j]) = NalsOf(row(u))
      BY <2>8, <2>9, Zenon
    <3>4. QED BY <2>7, <3>1, <3>2, <3>3, Zenon DEF Uniform
  <2>11. PICK lo \in Nat : lo = l + u - 1 /\ lo + 1 = l + u
    <3>1. l + u - 1 \in Nat /\ (l + u - 1) + 1 = l + u
      OBVIOUS
    <3>2. QED BY <3>1
  <2>12. \A j \in DOMAIN row(u) : row(u)[j].unit = lo + 1
    BY <2>2, <2>3, <2>11
  <2>13. LinedFrom(row(u), lo, lo + 1)
    BY <2>4, <2>10, <2>12, UniformLined
  <2>14. QED BY <2>2, <2>3, <2>4, <2>8, <2>11, <2>13
<1>8. placed(m) = [u \in 1..n |-> row(u)]
  BY <1>4
<1> HIDE DEF row, S, placed
<1>9. PICK all \in Seq(Seq(S)) : /\ all = placed(m) /\ DOMAIN all = 1..n /\ Len(all) = n
                                 /\ \A u \in 1..n : all[u] = row(u)
  <2>1. [u \in 1..n |-> row(u)] \in Seq(Seq(S)) /\ Len([u \in 1..n |-> row(u)]) = n
    BY <1>7
  <2>2. DOMAIN [u \in 1..n |-> row(u)] = 1..n /\ \A u \in 1..n : [v \in 1..n |-> row(v)][u] = row(u)
    OBVIOUS
  <2>3. QED BY <1>8, <2>1, <2>2, Zenon
<1>10. pending' = FlattenSeq(all) /\ pending' \in Seq(S)
  BY <1>2, <1>9, Flattened
<1>11. /\ Len(units') = l + n
       /\ \A u \in 1..l : u \in DOMAIN units' /\ units'[u] = units[u]
       /\ \A u \in 1..n : units'[l + u] = NalsOf(m.series[u])
  <2> DEFINE more == [u \in DOMAIN m.series |-> NalsOf(m.series[u])]
             V == {NalsOf(m.series[u]) : u \in 1..n} \cup SUBSET DOMAIN setup.nals
  <2>1. more \in Seq(V) /\ Len(more) = n /\ \A u \in 1..n : more[u] = NalsOf(m.series[u])
    BY <1>4
  <2>2. units \in Seq(V)
    BY <1>1
  <2>3. units' = units \o more
    BY <1>2
  <2> HIDE DEF more, V
  <2>4. PICK a \in Seq(V), b \in Seq(V) : a = units /\ b = more
    BY <2>1, <2>2
  <2>5. /\ DOMAIN (a \o b) = 1..(l + n) /\ Len(a \o b) = l + n
        /\ \A i \in 1..l : (a \o b)[i] = units[i]
        /\ \A j \in 1..n : (a \o b)[l + j] = more[j]
    <3>1. Len(a) = l /\ Len(b) = n
      BY <1>5, <2>1, <2>4
    <3>2. /\ DOMAIN (a \o b) = 1..(Len(a) + Len(b))
          /\ \A i \in 1..Len(a) : (a \o b)[i] = a[i]
          /\ \A j \in 1..Len(b) : (a \o b)[Len(a) + j] = b[j]
      BY BothParts
    <3>3. Len(a \o b) = Len(a) + Len(b)
      OBVIOUS
    <3>4. QED BY <2>4, <3>1, <3>2, <3>3, Zenon
  <2>6. \A u \in 1..l : u \in 1..(l + n)
    OBVIOUS
  <2>7. units' = a \o b
    BY <2>3, <2>4
  <2>8. QED BY <2>1, <2>5, <2>6, <2>7, Zenon
<1>12. ASSUME NEW i \in DOMAIN pending' PROVE Carried(pending'[i]) = units'[pending'[i].unit]
  <2>1. PICK q \in S : q = pending'[i]
    BY <1>10, ElementOfSeq
  <2>2. PICK u \in 1..n : \E j \in DOMAIN m.series[u] : q = row(u)[j]
    BY DEF S
  <2>3. q.unit = l + u /\ Carried(q) = NalsOf(m.series[u])
    BY <1>7, <2>2
  <2>4. QED BY <1>11, <2>1, <2>3
<1>13. CASE n = 0
  <2>1. all = <<>> /\ pending' = <<>>
    <3>1. all = <<>>
      BY <1>9, <1>13
    <3>2. PICK e : FlattenSeq(all) = IF Len(all) = 0 THEN <<>> ELSE e[Len(all)]
      <4>1. <<>> \in Seq(S) /\ \A a, b \in Seq(S) : a \o b \in Seq(S)
        OBVIOUS
      <4>2. QED BY <4>1, FlattenedSteps, Zenon
    <3>3. QED BY <1>9, <1>10, <1>13, <3>1, <3>2
  <2>2. units' = units
    <3>1. [u \in DOMAIN m.series |-> NalsOf(m.series[u])] = <<>>
      BY <1>4, <1>13
    <3>2. units \o <<>> = units
      BY <1>1
    <3>3. QED BY <1>2, <3>1, <3>2
  <2>3. QED BY <1>5, <1>12, <2>1, <2>2
<1>14. CASE n # 0
  <2>1. all # <<>>
    BY <1>9, <1>14
  <2>2. \A u \in DOMAIN all : LinedFrom(all[u], l + u - 1, l + u)
    BY <1>7, <1>9
  <2>3. LinedFrom(FlattenSeq(all), l, l + Len(all))
    BY <2>1, <2>2, FlattenedLined
  <2>4. LinedFrom(pending', Len(units), Len(units'))
    BY <1>5, <1>9, <1>10, <1>11, <2>3
  <2>5. pending' # <<>>
    BY <2>4 DEF LinedFrom
  <2>6. Len(units) \in Nat /\ Len(units') \in Nat /\ Len(units) <= Len(units')
    BY <1>5, <1>11
  <2>7. QED BY <1>5, <1>11, <1>12, <2>4, <2>5, <2>6
<1>15. QED BY <1>13, <1>14

-----------------------------------------------------------------------------
(* The packets that are missing, and the frame that is put together. *)

\* How many numbers are behind the receiver.  A unit is hurt when one of its packets
\* was lost, or has been left behind by one that overtook it, and cut off when that
\* was its last.
Handled(f) == IF some THEN Ahead(f, seqLast) + 1 ELSE 0
Hurt(f, u) == u \in hit \/ \E p \in Alive : p.unit = u /\ ~Fresh(f, p.seq)
CutOff(f, u) == u \in cut \/ \E p \in Alive : p.unit = u /\ Ends(p) /\ ~Fresh(f, p.seq)

\* Its unit lost the packet p, or one like it.
Noted(p) == p.unit \in hit /\ (Ends(p) => p.unit \in cut)

\* The packet with the number before the a-th is of unit u, and ends it or not: it
\* is the last one handled, of unit lu, or it is under way, or u has lost it.
Known(f, a, u, e, lu, le) ==
  \/ a = Handled(f) /\ u = lu /\ (e <=> le)
  \/ \E p \in Alive : Ahead(f, p.seq) + 1 = a /\ p.unit = u /\ (Ends(p) <=> e)
  \/ u \in hit /\ (e => u \in cut)

\* The unit before what is still to be sent, and whether that begins a unit.
LastUnit == IF pending = <<>> THEN Len(units) ELSE Before(Head(pending))
LastEnds == pending = <<>> \/ Starts(Head(pending))

\* The unit of p goes on with the next number.
GoneOn(f, p) ==
  \/ \E q \in Alive : q.unit = p.unit /\ Ahead(f, q.seq) = Ahead(f, p.seq) + 1
  \/ Ahead(f, seq) = Ahead(f, p.seq) + 1 /\ pending # <<>> /\ Head(pending).unit = p.unit

\* What is under way or to be sent carries the units of the stream one after the
\* other, but for those that have lost a packet.
SentLined(f, lu, le) ==
  /\ \A p \in Alive : p.unit \in DOMAIN units /\ Carried(p) = units[p.unit]
  /\ \A q \in Alive : Fresh(f, q.seq) => Known(f, Ahead(f, q.seq), Before(q), Starts(q), lu, le)
  /\ \A p \in Alive : Fresh(f, p.seq) /\ ~Ends(p) => p.unit \in hit \/ GoneOn(f, p)
  /\ playing => /\ Lined(pending, Len(units))
                /\ \A i \in DOMAIN pending : Carried(pending[i]) = units[pending[i].unit]
                /\ Known(f, Ahead(f, seq), LastUnit, LastEnds, lu, le)
  /\ ~playing => seq = f /\ units = <<>> /\ ~some /\ lu = 0 /\ le

\* The frame that is put together is the beginning of the unit lu, unless that is
\* hurt or the one before it cut off; of the units that came, those after one that is
\* not cut off were delivered.
Damaged(f, u) == Hurt(f, u) \/ CutOff(f, u - 1)
FrameLined(f, lu, le) ==
  /\ lu \in 0..Len(units)
  /\ le => currentNal = <<>> /\ ~containsMissing /\ ~framingError
  /\ ~le => lu # 0 /\ (Damaged(f, lu) \/ (Clean /\ Carries(currentNal) = units[lu]))
  /\ \A u \in DOMAIN units : Arrived(u) => CutOff(f, u - 1) \/ Came(u)

\* The packet h is handled: those after it are after the last.
LEMMA NowHandled ==
  ASSUME IInv, NEW f \in Seqs, NEW h \in Alive, Handle(h), Fresh(f, h.seq),
         NEW s \in Seqs
  PROVE  /\ some' = TRUE /\ seqLast' = h.seq /\ Handled(f)' = Ahead(f, h.seq) + 1
         /\ Fresh(f, s)' <=> Ahead(f, h.seq) < Ahead(f, s)
         /\ Fresh(f, s)' => Fresh(f, s)
         /\ Handled(f) <= Ahead(f, h.seq) /\ Handled(f) \in Nat /\ Ahead(f, h.seq) \in Nat
         /\ Ahead(f, s) \in Nat
<1>1. some' = TRUE /\ seqLast' = h.seq
  BY Zenon DEF Handle
<1>2. h.seq \in Seqs /\ seqLast \in Seqs
  BY AliveTyped, NetTyped
<1>3. Ahead(f, h.seq) \in Nat /\ Ahead(f, s) \in Nat /\ Ahead(f, seqLast) \in Nat
  BY <1>2, Numbers
<1>4. Handled(f)' = Ahead(f, h.seq) + 1 /\ (Fresh(f, s)' <=> Ahead(f, h.seq) < Ahead(f, s))
  <2>1. Ahead(f, seqLast)' = Ahead(f, h.seq)
    BY <1>1 DEF Ahead
  <2>2. QED BY <1>1, <2>1, Zenon DEF Handled, Fresh
<1>5. CASE some
  <2>1. Ahead(f, seqLast) < Ahead(f, h.seq)
    BY <1>5, Zenon DEF Fresh
  <2>2. Handled(f) = Ahead(f, seqLast) + 1
    BY <1>5, Zenon DEF Handled
  <2>3. Ahead(f, h.seq) < Ahead(f, s) => Ahead(f, seqLast) < Ahead(f, s)
    BY <1>3, <2>1
  <2>4. Fresh(f, s)' => Fresh(f, s)
    BY <1>4, <2>3, Zenon DEF Fresh
  <2>5. Handled(f) <= Ahead(f, h.seq) /\ Handled(f) \in Nat
    BY <1>3, <2>1, <2>2
  <2>6. QED BY <1>1, <1>3, <1>4, <2>4, <2>5, Zenon
<1>6. CASE ~some
  <2>1. Handled(f) = 0 /\ Fresh(f, s)
    BY <1>6, Zenon DEF Handled, Fresh
  <2>2. 0 <= Ahead(f, h.seq) /\ 0 \in Nat
    BY <1>3
  <2>3. QED BY <1>1, <1>3, <1>4, <2>1, <2>2, Zenon
<1>7. QED BY <1>5, <1>6

\* A unit that is hurt, or cut off, stays so when one is handled,
LEMMA HurtMore ==
  ASSUME IInv, NEW f \in Seqs, NEW h \in Alive, Handle(h), Fresh(f, h.seq), UNCHANGED <<hit, cut>>,
         \A p \in Alive : p = h \/ p \in Alive', NEW u
  PROVE  (Hurt(f, u) => Hurt(f, u)') /\ (CutOff(f, u) => CutOff(f, u)')
<1>1. ASSUME NEW p \in Alive, ~Fresh(f, p.seq) PROVE p \in Alive' /\ ~Fresh(f, p.seq)'
  <2>1. p \in Alive' /\ p.seq \in Seqs
    BY <1>1, AliveTyped
  <2>2. QED BY <1>1, <2>1, NowHandled
<1>2. hit' = hit /\ cut' = cut
  OBVIOUS
<1>3. QED BY <1>1, <1>2, Zenon DEF Hurt, CutOff

\* and those of the packets before it are, when they are under way.
LEMMA LeftBehind ==
  ASSUME IInv, NEW f \in Seqs, NEW h \in Alive, Handle(h), Fresh(f, h.seq),
         \A p \in Alive : p = h \/ p \in Alive',
         NEW p \in Alive, Ahead(f, p.seq) < Ahead(f, h.seq)
  PROVE  Hurt(f, p.unit)' /\ (Ends(p) => CutOff(f, p.unit)')
<1>1. p.seq \in Seqs /\ h.seq \in Seqs
  BY AliveTyped
<1>2. Ahead(f, p.seq) \in Nat /\ Ahead(f, h.seq) \in Nat
  BY <1>1, Numbers
<1>3. p # h /\ ~(Ahead(f, h.seq) < Ahead(f, p.seq))
  BY <1>2
<1>4. p \in Alive' /\ ~Fresh(f, p.seq)'
  BY <1>1, <1>3, NowHandled
<1>5. QED BY <1>4, Zenon DEF Hurt, CutOff

\* What one sequence of pieces and another carry.
LEMMA CarriesTogether ==
  ASSUME NEW S, NEW a \in Seq(S), NEW b \in Seq(S)
  PROVE  Carries(a \o b) = Carries(a) \cup Carries(b)
<1>1. PICK m \in Nat, n \in Nat : m = Len(a) /\ n = Len(b) /\ DOMAIN a = 1..m /\ DOMAIN b = 1..n
  OBVIOUS
<1>2. /\ DOMAIN (a \o b) = 1..(m + n)
      /\ \A i \in 1..m : (a \o b)[i] = a[i]
      /\ \A i \in 1..n : (a \o b)[m + i] = b[i]
  <2>1. /\ DOMAIN (a \o b) = 1..(Len(a) + Len(b))
        /\ \A i \in 1..Len(a) : (a \o b)[i] = a[i]
        /\ \A i \in 1..Len(b) : (a \o b)[Len(a) + i] = b[i]
    BY BothParts
  <2>2. QED BY <1>1, <2>1, Zenon
<1>3. \A i \in 1..m : i \in 1..(m + n)
  OBVIOUS
<1>4. \A j \in 1..n : m + j \in 1..(m + n)
  OBVIOUS
<1>5. Carries(a) \subseteq Carries(a \o b)
  BY <1>1, <1>2, <1>3 DEF Carries
<1>6. Carries(b) \subseteq Carries(a \o b)
  BY <1>1, <1>2, <1>4 DEF Carries
<1>7. QED BY <1>5, <1>6, CarriesBoth

\* The packet h of a unit that is not hurt, after one that is not cut off, follows the
\* last: nothing is missing, the frame goes on, and has the NAL units of h.
LEMMA HandleClean ==
  ASSUME IInv, NEW f \in Seqs, NEW h \in Alive, h \in Packets, WellMade(h), Handle(h),
         Fresh(f, h.seq), UNCHANGED <<hit, cut>>, \A p \in Alive : p = h \/ p \in Alive',
         NEW lu, NEW le \in BOOLEAN, SentLined(f, lu, le), FrameLined(f, lu, le),
         ~Damaged(f, h.unit)'
  PROVE  ~Missing(h) /\ ~Bad(h) /\ Carries(Built(h)) = units[h.unit] /\ Built(h) # <<>>
<1>1. h.seq \in Seqs /\ seqLast \in Seqs /\ h.pieces \in Seq(Pieces) /\ currentNal \in Seq(Pieces)
  BY AliveTyped, NetTyped DEF Packets, IInv, ReceiverTypes, FrameTypes
<1>2. ~Hurt(f, h.unit)' /\ ~CutOff(f, h.unit - 1)'
  <2>1. Damaged(f, h.unit)' <=> Hurt(f, h.unit)' \/ CutOff(f, h.unit - 1)'
    BY Zenon DEF Damaged
  <2>2. QED BY <2>1
<1>3. IF Starts(h) THEN ~CutOff(f, Before(h))' ELSE ~Hurt(f, Before(h))'
  BY <1>2, Zenon DEF Before
<1>4. Ahead(f, h.seq) = Handled(f) /\ Before(h) = lu /\ (Starts(h) <=> le)
  <2>1. Known(f, Ahead(f, h.seq), Before(h), Starts(h), lu, le)
    BY Zenon DEF SentLined
  <2>2. ~(Before(h) \in hit /\ (Starts(h) => Before(h) \in cut))
    <3>1. hit' = hit /\ cut' = cut
      OBVIOUS
    <3>2. QED BY <1>3, <3>1, Zenon DEF Hurt, CutOff
  <2>3. ~(\E p \in Alive : Ahead(f, p.seq) + 1 = Ahead(f, h.seq) /\ p.unit = Before(h)
                           /\ (Ends(p) <=> Starts(h)))
    <3>1. SUFFICES ASSUME NEW p \in Alive, Ahead(f, p.seq) + 1 = Ahead(f, h.seq),
                          p.unit = Before(h), Ends(p) <=> Starts(h)
                   PROVE  FALSE
      BY Zenon
    <3>2. Ahead(f, p.seq) \in Nat
      BY AliveTyped, Numbers
    <3>3. Ahead(f, p.seq) < Ahead(f, h.seq)
      BY <3>1, <3>2
    <3>4. Hurt(f, p.unit)' /\ (Ends(p) => CutOff(f, p.unit)')
      BY <3>3, LeftBehind
    <3>5. PICK u : u = p.unit
      OBVIOUS
    <3>6. Hurt(f, u)' /\ (Ends(p) => CutOff(f, u)')
      BY <3>4, <3>5, Zenon
    <3>7. IF Starts(h) THEN ~CutOff(f, u)' ELSE ~Hurt(f, u)'
      BY <1>3, <3>1, <3>5
    <3>8. QED BY <3>1, <3>6, <3>7, Zenon
  <2>4. QED BY <2>1, <2>2, <2>3, Zenon DEF Known
<1>5. ~Jumps(h)
  <2>1. CASE ~some
    BY <2>1 DEF Jumps
  <2>2. CASE some
    <3>1. Ahead(f, h.seq) = Ahead(f, seqLast) + 1
      BY <1>4, <2>2, Zenon DEF Handled
    <3>2. SeqModulus \in Nat /\ SeqModulus > 1
      BY RtpAssumption
    <3>3. h.seq = After(seqLast)
      BY <1>1, <3>1, <3>2 DEF Seqs, After, Ahead
    <3>4. h.seq = seqLast + 1 \/ (seqLast = SeqModulus - 1 /\ h.seq = 0)
      BY <3>3, Zenon DEF After
    <3>5. QED BY <3>4, Zenon DEF Jumps, Rollover
  <2>3. QED BY <2>1, <2>2
<1>6. Carried(h) = units[h.unit] /\ Carried(h) # {}
  BY WellMadeCarries DEF SentLined
<1>7. h.type = 28 => (h.end <=> h.last)
  BY Zenon DEF WellMade
<1>8. ASSUME ~containsMissing, ~framingError,
             h.type = 28 => (h.start <=> currentNal = <<>>),
             Carries(currentNal) \subseteq units[h.unit]
      PROVE  ~Missing(h) /\ ~Bad(h) /\ Carries(Built(h)) = units[h.unit] /\ Built(h) # <<>>
  <2>1. ~Missing(h)
    BY <1>5, <1>8, Zenon DEF Missing
  <2>2. ~Bad(h)
    <3>1. CASE h.type # 28
      BY <1>8, <3>1, Zenon DEF Bad
    <3>2. CASE h.type = 28
      <4>1. (h.start <=> currentNal = <<>>) /\ (h.end <=> h.last)
        BY <1>7, <1>8, <3>2
      <4>2. ~FramesBadly(h)
        BY <4>1, Zenon DEF FramesBadly
      <4>3. QED BY <1>8, <4>2, Zenon DEF Bad
    <3>3. QED BY <3>1, <3>2
  <2>3. <<>> \in Seq(Pieces) /\ Carries(<<>>) = {}
    BY DEF Carries
  <2>4. Carries(<<>> \o h.pieces) = {} \cup Carried(h)
        /\ Carries(currentNal \o h.pieces) = Carries(currentNal) \cup Carried(h)
    <3>1. Carries(<<>> \o h.pieces) = Carries(<<>>) \cup Carries(h.pieces)
      BY <1>1, <2>3, CarriesTogether
    <3>2. Carries(currentNal \o h.pieces) = Carries(currentNal) \cup Carries(h.pieces)
      BY <1>1, CarriesTogether
    <3>3. QED BY <2>3, <3>1, <3>2, Zenon DEF Carried
  <2>5. Built(h) = <<>> \o h.pieces \/ Built(h) = currentNal \o h.pieces
    BY Zenon DEF Built
  <2>6. Carries(Built(h)) = units[h.unit]
    BY <1>6, <1>8, <2>4, <2>5
  <2>7. Built(h) # <<>>
    BY <1>6, <2>3, <2>6
  <2>8. QED BY <2>1, <2>2, <2>6, <2>7
<1>9. CASE Starts(h)
  <2>1. le
    BY <1>4, <1>9
  <2>2. currentNal = <<>> /\ ~containsMissing /\ ~framingError
    BY <2>1, Zenon DEF FrameLined
  <2>3. h.type = 28 => h.start
    BY <1>9, Zenon DEF Starts
  <2>4. Carries(currentNal) \subseteq units[h.unit]
    BY <2>2 DEF Carries
  <2>5. h.type = 28 => (h.start <=> currentNal = <<>>)
    BY <2>2, <2>3, Zenon
  <2>6. QED BY <1>8, <2>2, <2>4, <2>5
<1>10. CASE ~Starts(h)
  <2>1. ~le /\ lu = h.unit
    BY <1>4, <1>10 DEF Before
  <2>2. ~Damaged(f, lu)
    <3>1. ~Hurt(f, h.unit) /\ ~CutOff(f, h.unit - 1)
      BY <1>2, HurtMore
    <3>2. QED BY <2>1, <3>1, Zenon DEF Damaged
  <2>3. Clean /\ Carries(currentNal) = units[lu]
    BY <2>1, <2>2, Zenon DEF FrameLined
  <2>4. currentNal # <<>> /\ ~containsMissing /\ ~framingError
    BY <2>3, Zenon DEF Clean
  <2>5. h.type = 28 /\ ~h.start
    BY <1>10, Zenon DEF Starts
  <2>6. h.type = 28 => (h.start <=> currentNal = <<>>)
    BY <2>4, <2>5, Zenon
  <2>7. Carries(currentNal) \subseteq units[h.unit]
    BY <2>1, <2>3
  <2>8. QED BY <1>8, <2>4, <2>6, <2>7
<1>11. QED BY <1>9, <1>10

\* What comes after h follows what it followed before, or h.
LEMMA KnownAfter ==
  ASSUME IInv, NEW f \in Seqs, NEW h \in Alive, Handle(h), Fresh(f, h.seq), UNCHANGED <<hit, cut>>,
         \A p \in Alive : p = h \/ p \in Alive',
         NEW s \in Seqs, Ahead(f, h.seq) < Ahead(f, s),
         NEW u, NEW e \in BOOLEAN, NEW lu, NEW le \in BOOLEAN, Known(f, Ahead(f, s), u, e, lu, le)
  PROVE  Known(f, Ahead(f, s), u, e, h.unit, Ends(h))'
<1>1. /\ Handled(f)' = Ahead(f, h.seq) + 1 /\ Handled(f) <= Ahead(f, h.seq) /\ Handled(f) \in Nat
      /\ Ahead(f, h.seq) \in Nat /\ Ahead(f, s) \in Nat
  BY NowHandled
<1>2. Ahead(f, s) # Handled(f)
  BY <1>1
<1>3. CASE u \in hit /\ (e => u \in cut)
  <2>1. u \in hit' /\ (e => u \in cut')
    BY <1>3
  <2>2. QED BY <2>1, Zenon DEF Known
<1>4. CASE ~(u \in hit /\ (e => u \in cut))
  <2>1. PICK p \in Alive : Ahead(f, p.seq) + 1 = Ahead(f, s) /\ p.unit = u /\ (Ends(p) <=> e)
    BY <1>2, <1>4, Zenon DEF Known
  <2>2. CASE p = h
    <3>1. Ahead(f, s) = Handled(f)' /\ u = h.unit /\ (e <=> Ends(h))
      BY <1>1, <2>1, <2>2
    <3>2. QED BY <3>1, Zenon DEF Known
  <2>3. CASE p # h
    <3>1. p \in Alive'
      BY <2>3
    <3>2. QED BY <2>1, <3>1, Zenon DEF Known
  <2>4. QED BY <2>2, <2>3
<1>5. QED BY <1>3, <1>4

\* A packet is handled, and with it a unit may end.
LEMMA HandleLined ==
  ASSUME IInv, playing, NEW f \in Seqs, NEW h \in Alive, h \in Packets, WellMade(h), Used(f, h.seq),
         Handle(h), Fresh(f, h.seq), UNCHANGED <<setup, playing, seq, pending, units, hit, cut>>,
         Alive' \subseteq Alive, \A p \in Alive : p = h \/ p \in Alive',
         NEW lu, NEW le \in BOOLEAN, SentLined(f, lu, le), FrameLined(f, lu, le)
  PROVE  SentLined(f, h.unit, Ends(h))' /\ FrameLined(f, h.unit, Ends(h))'
<1>1. h.unit \in DOMAIN units /\ seq \in Seqs /\ \A p \in Alive : p.seq \in Seqs
  BY AliveTyped, NetTyped DEF SentLined
<1>2. /\ \A p \in Alive : p.unit \in DOMAIN units /\ Carried(p) = units[p.unit]
      /\ \A q \in Alive : Fresh(f, q.seq) => Known(f, Ahead(f, q.seq), Before(q), Starts(q), lu, le)
      /\ \A p \in Alive : Fresh(f, p.seq) /\ ~Ends(p) => p.unit \in hit \/ GoneOn(f, p)
      /\ Lined(pending, Len(units))
      /\ \A i \in DOMAIN pending : Carried(pending[i]) = units[pending[i].unit]
      /\ Known(f, Ahead(f, seq), LastUnit, LastEnds, lu, le)
  BY Zenon DEF SentLined
<1>3. \A u : CutOff(f, u) => CutOff(f, u)'
  BY HurtMore
<1>4. ASSUME NEW p \in Alive, ~Ends(p), p.unit \notin hit, Fresh(f, p.seq),
             Ahead(f, h.seq) <= Ahead(f, p.seq)
      PROVE  /\ GoneOn(f, p)'
             /\ p.unit \in UnderWay'
  <2>1. GoneOn(f, p)
    BY <1>2, <1>4
  <2>2. CASE \E q \in Alive : q.unit = p.unit /\ Ahead(f, q.seq) = Ahead(f, p.seq) + 1
    <3>1. PICK q \in Alive : q.unit = p.unit /\ Ahead(f, q.seq) = Ahead(f, p.seq) + 1
      BY <2>2
    <3>2. Ahead(f, h.seq) \in Nat /\ Ahead(f, p.seq) \in Nat
      BY <1>1, Numbers
    <3>3. q # h
      BY <1>4, <3>1, <3>2
    <3>4. q \in Alive'
      BY <3>3
    <3>5. q.unit \in UnderWay'
      BY <3>4 DEF UnderWay, Alive
    <3>6. GoneOn(f, p)'
      BY <3>1, <3>4, Zenon DEF GoneOn
    <3>7. QED BY <3>1, <3>5, <3>6
  <2>3. CASE Ahead(f, seq) = Ahead(f, p.seq) + 1 /\ pending # <<>> /\ Head(pending).unit = p.unit
    <3>1. pending \in Seq(Outgoing)
      BY DEF IInv, SenderTypes
    <3>2. 1 \in DOMAIN pending /\ Head(pending) = pending[1]
      BY <2>3, <3>1
    <3>3. p.unit \in UnderWay'
      BY <2>3, <3>2 DEF UnderWay
    <3>4. Ahead(f, seq)' = Ahead(f, seq)
      BY DEF Ahead
    <3>5. GoneOn(f, p)'
      BY <2>3, <3>4, Zenon DEF GoneOn
    <3>6. QED BY <3>3, <3>5
  <2>4. QED BY <2>1, <2>2, <2>3, Zenon DEF GoneOn
<1>5. SentLined(f, h.unit, Ends(h))'
  <2>1. ASSUME NEW q \in Alive', Fresh(f, q.seq)'
        PROVE  /\ q \in Alive /\ q.seq \in Seqs /\ Fresh(f, q.seq)
               /\ Ahead(f, h.seq) < Ahead(f, q.seq) /\ Ahead(f, h.seq) <= Ahead(f, q.seq)
    <3>1. q \in Alive /\ q.seq \in Seqs
      BY <1>1
    <3>2. /\ Fresh(f, q.seq) /\ Ahead(f, h.seq) < Ahead(f, q.seq)
          /\ Ahead(f, h.seq) \in Nat /\ Ahead(f, q.seq) \in Nat
      BY <2>1, <3>1, NowHandled
    <3>3. QED BY <3>1, <3>2
  <2>2. ASSUME NEW q \in Alive', Fresh(f, q.seq)'
        PROVE  Known(f, Ahead(f, q.seq), Before(q), Starts(q), h.unit, Ends(h))'
    <3>1. Known(f, Ahead(f, q.seq), Before(q), Starts(q), lu, le)
      BY <1>2, <2>1, <2>2
    <3>2. Starts(q) \in BOOLEAN
      <4>1. q \in Packets
        BY <2>1, <2>2, AliveTyped
      <4>2. QED BY <4>1 DEF Packets, Starts
    <3>3. q.seq \in Seqs /\ Ahead(f, h.seq) < Ahead(f, q.seq)
      BY <2>1, <2>2
    <3>4. QED BY <3>1, <3>2, <3>3, KnownAfter
  <2>3. ASSUME NEW p \in Alive', Fresh(f, p.seq)', ~Ends(p) PROVE p.unit \in hit' \/ GoneOn(f, p)'
    <3>1. p \in Alive /\ Fresh(f, p.seq) /\ Ahead(f, h.seq) <= Ahead(f, p.seq)
      BY <2>1, <2>3
    <3>2. QED BY <1>4, <2>3, <3>1
  <2>4. Known(f, Ahead(f, seq), LastUnit, LastEnds, h.unit, Ends(h))'
    <3>1. Ahead(f, h.seq) < Ahead(f, seq)
      BY DEF Used
    <3>2. PICK u : u = LastUnit
      OBVIOUS
    <3>3. PICK e \in BOOLEAN : e <=> LastEnds
      OBVIOUS
    <3>4. Known(f, Ahead(f, seq), u, e, lu, le)
      BY <1>2, <3>2, <3>3, Zenon DEF Known
    <3>5. PICK s \in Seqs : s = seq
      BY <1>1
    <3>6. Known(f, Ahead(f, s), u, e, h.unit, Ends(h))'
      BY <3>1, <3>4, <3>5, KnownAfter
    <3>7. LastUnit' = u /\ (LastEnds' <=> e) /\ Ahead(f, seq)' = Ahead(f, s)
      <4>1. LastUnit' = LastUnit /\ (LastEnds' <=> LastEnds)
        BY DEF LastUnit, LastEnds
      <4>2. seq' = s
        BY <3>5
      <4>3. QED BY <3>2, <3>3, <4>1, <4>2 DEF Ahead
    <3>8. QED BY <3>6, <3>7, Zenon DEF Known
  <2>5. \A p \in Alive' : p.unit \in DOMAIN units' /\ Carried(p) = units'[p.unit]
    BY <1>2
  <2>6. /\ Lined(pending', Len(units'))
        /\ \A i \in DOMAIN pending' : Carried(pending'[i]) = units'[pending'[i].unit]
    BY <1>2
  <2>7. playing'
    OBVIOUS
  <2>8. QED BY <2>2, <2>3, <2>4, <2>5, <2>6, <2>7, Zenon DEF SentLined
<1>6. /\ IF Ends(h)
         THEN /\ out' = IF Missing(h) \/ Bad(h) THEN out ELSE Append(out, Built(h))
              /\ currentNal' = <<>> /\ containsMissing' = FALSE /\ framingError' = FALSE
         ELSE /\ currentNal' = Built(h) /\ (containsMissing' <=> Missing(h))
              /\ (framingError' <=> Bad(h)) /\ out' = out
  <2>1. IF h.last \/ h.end \/ ~(h.type = 28)
        THEN /\ out' = IF Missing(h) \/ Bad(h) THEN out ELSE Append(out, Built(h))
             /\ currentNal' = <<>> /\ containsMissing' = FALSE /\ framingError' = FALSE
        ELSE /\ currentNal' = Built(h) /\ (containsMissing' <=> Missing(h))
             /\ (framingError' <=> Bad(h)) /\ UNCHANGED out
    BY Zenon DEF Handle, Missing, Bad, Built
  <2>2. Ends(h) <=> h.last \/ h.end \/ ~(h.type = 28)
    BY Zenon DEF Ends
  <2>3. QED BY <2>1, <2>2, Zenon
<1>7. ~Damaged(f, h.unit)' =>
        ~Missing(h) /\ ~Bad(h) /\ Carries(Built(h)) = units[h.unit] /\ Built(h) # <<>>
  BY HandleClean
<1>8. PICK n \in Nat : n = Len(out) /\ DOMAIN out = 1..n /\ out \in Seq(Seq(Pieces))
  BY DEF IInv, ReceiverTypes, FrameTypes
<1>9. out' = Append(out, Built(h)) =>
        /\ DOMAIN out' = 1..(n + 1) /\ out'[n + 1] = Built(h) /\ \A i \in 1..n : out'[i] = out[i]
  BY <1>8
<1>10. \A u : Came(u) => Came(u)'
  <2>1. out' = out \/ out' = Append(out, Built(h))
    BY <1>6, Zenon
  <2>2. \A i \in 1..n : i \in 1..(n + 1)
    OBVIOUS
  <2>3. \A i \in DOMAIN out : i \in DOMAIN out' /\ out'[i] = out[i]
    BY <1>8, <1>9, <2>1, <2>2
  <2>4. units' = units
    OBVIOUS
  <2>5. QED BY <2>3, <2>4, Zenon DEF Came
<1>11. FrameLined(f, h.unit, Ends(h))'
  <2>1. h.unit \in 0..Len(units') /\ h.unit # 0
    <3>1. units \in Seq(SUBSET DOMAIN setup.nals)
      BY DEF IInv, SenderTypes
    <3>2. h.unit \in 1..Len(units) /\ Len(units) \in Nat
      BY <1>1, <3>1
    <3>3. QED BY <3>2
  <2>2. Ends(h) => currentNal' = <<>> /\ ~containsMissing' /\ ~framingError'
    BY <1>6
  <2>3. ~Ends(h) => Damaged(f, h.unit)' \/ (Clean' /\ Carries(currentNal') = units'[h.unit])
    <3>1. SUFFICES ASSUME ~Ends(h), ~Damaged(f, h.unit)'
                   PROVE  Clean' /\ Carries(currentNal') = units'[h.unit]
      OBVIOUS
    <3>2. /\ currentNal' = Built(h) /\ (containsMissing' <=> Missing(h)) /\ (framingError' <=> Bad(h))
      BY <1>6, <3>1
    <3>3. units' = units /\ Carries(currentNal)' = Carries(currentNal')
      BY DEF Carries
    <3>4. QED BY <1>7, <3>1, <3>2, <3>3, Zenon DEF Clean
  <2>4. ASSUME NEW u \in DOMAIN units', Arrived(u)' PROVE CutOff(f, u - 1)' \/ Came(u)'
    <3>1. u \notin hit' /\ u \notin UnderWay' /\ u \in DOMAIN units
      BY <2>4 DEF Arrived
    <3>2. CASE u # h.unit
      <4>1. Arrived(u)
        <5>1. SUFFICES ASSUME u \in UnderWay PROVE FALSE
          BY <3>1 DEF Arrived
        <5>2. CASE u \in {pending[i].unit : i \in DOMAIN pending}
          BY <3>1, <5>2 DEF UnderWay
        <5>3. CASE \E p \in Alive : p.unit = u
          <6>1. PICK p \in Alive : p.unit = u
            BY <5>3
          <6>2. p \in Alive'
            BY <3>2, <6>1
          <6>3. QED BY <3>1, <6>1, <6>2 DEF UnderWay, Alive
        <5>4. QED BY <5>1, <5>2, <5>3 DEF UnderWay, Alive
      <4>2. CutOff(f, u - 1) \/ Came(u)
        BY <3>1, <4>1, Zenon DEF FrameLined
      <4>3. QED BY <1>3, <1>10, <4>2
    <3>3. CASE u = h.unit
      <4>1. Ends(h)
        <5>1. SUFFICES ASSUME ~Ends(h) PROVE FALSE
          OBVIOUS
        <5>2. Ahead(f, h.seq) <= Ahead(f, h.seq)
          <6>1. Ahead(f, h.seq) \in Nat
            BY <1>1, Numbers
          <6>2. QED BY <6>1
        <5>3. h.unit \notin hit
          BY <3>1, <3>3
        <5>4. h.unit \in UnderWay'
          BY <1>4, <5>1, <5>2, <5>3
        <5>5. QED BY <3>1, <3>3, <5>4
      <4>2. CASE Damaged(f, u)'
        <5>1. ~Hurt(f, u)'
          <6>1. \A p \in Alive' : p.unit \in UnderWay'
            BY DEF UnderWay, Alive
          <6>2. QED BY <3>1, <6>1, Zenon DEF Hurt
        <5>2. Damaged(f, u)' <=> Hurt(f, u)' \/ CutOff(f, u - 1)'
          BY Zenon DEF Damaged
        <5>3. QED BY <4>2, <5>1, <5>2
      <4>3. CASE ~Damaged(f, u)'
        <5>1. ~Missing(h) /\ ~Bad(h) /\ Carries(Built(h)) = units[u]
          BY <1>7, <3>3, <4>3
        <5>2. out' = Append(out, Built(h))
          BY <1>6, <4>1, <5>1, Zenon
        <5>3. n + 1 \in DOMAIN out' /\ Carries(out'[n + 1]) = units'[u]
          BY <1>9, <5>1, <5>2
        <5>4. Came(u)'
          BY <5>3, Zenon DEF Came
        <5>5. QED BY <5>4
      <4>4. QED BY <4>2, <4>3
    <3>4. QED BY <3>2, <3>3
  <2>5. QED BY <2>1, <2>2, <2>3, <2>4, Zenon DEF FrameLined
<1>12. QED BY <1>5, <1>11

\* When the receiver handles nothing, what is known of the stream stays, but for the
\* units that lose a packet.
LEMMA KnownStays ==
  ASSUME NEW f, UNCHANGED <<some, seqLast>>, hit \subseteq hit', cut \subseteq cut',
         \A p \in Alive : p \in Alive' \/ Noted(p)'
  PROVE  /\ \A s : Fresh(f, s)' <=> Fresh(f, s)
         /\ \A u : (Hurt(f, u) => Hurt(f, u)') /\ (CutOff(f, u) => CutOff(f, u)')
         /\ \A a, u, e, lu, le : Known(f, a, u, e, lu, le) => Known(f, a, u, e, lu, le)'
<1>1. \A s : Fresh(f, s)' <=> Fresh(f, s)
  BY Zenon DEF Fresh
<1>2. ASSUME NEW p \in Alive, ~(p \in Alive') PROVE p.unit \in hit' /\ (Ends(p) => p.unit \in cut')
  BY <1>2, Zenon DEF Noted
<1>3. ASSUME NEW u, Hurt(f, u) PROVE Hurt(f, u)'
  <2>1. CASE u \in hit
    BY <2>1, Zenon DEF Hurt
  <2>2. ASSUME NEW p \in Alive, p.unit = u, ~Fresh(f, p.seq) PROVE Hurt(f, u)'
    <3>1. CASE p \in Alive'
      BY <1>1, <2>2, <3>1, Zenon DEF Hurt
    <3>2. CASE ~(p \in Alive')
      BY <1>2, <2>2, <3>2, Zenon DEF Hurt
    <3>3. QED BY <3>1, <3>2
  <2>3. QED BY <1>3, <2>1, <2>2, Zenon DEF Hurt
<1>4. ASSUME NEW u, CutOff(f, u) PROVE CutOff(f, u)'
  <2>1. CASE u \in cut
    BY <2>1, Zenon DEF CutOff
  <2>2. ASSUME NEW p \in Alive, p.unit = u, Ends(p), ~Fresh(f, p.seq) PROVE CutOff(f, u)'
    <3>1. CASE p \in Alive'
      BY <1>1, <2>2, <3>1, Zenon DEF CutOff
    <3>2. CASE ~(p \in Alive')
      BY <1>2, <2>2, <3>2, Zenon DEF CutOff
    <3>3. QED BY <3>1, <3>2
  <2>3. QED BY <1>4, <2>1, <2>2, Zenon DEF CutOff
<1>5. Handled(f)' = Handled(f)
  BY DEF Handled, Ahead
<1>6. ASSUME NEW a, NEW u, NEW e, NEW lu, NEW le, Known(f, a, u, e, lu, le)
      PROVE  Known(f, a, u, e, lu, le)'
  <2>1. CASE a = Handled(f) /\ u = lu /\ (e <=> le)
    BY <1>5, <2>1, Zenon DEF Known
  <2>2. CASE u \in hit /\ (e => u \in cut)
    BY <2>2, Zenon DEF Known
  <2>3. ASSUME NEW p \in Alive, Ahead(f, p.seq) + 1 = a /\ p.unit = u /\ (Ends(p) <=> e)
        PROVE  Known(f, a, u, e, lu, le)'
    <3>1. CASE p \in Alive'
      BY <2>3, <3>1, Zenon DEF Known
    <3>2. CASE ~(p \in Alive')
      BY <1>2, <2>3, <3>2, Zenon DEF Known
    <3>3. QED BY <3>1, <3>2
  <2>4. QED BY <1>6, <2>1, <2>2, <2>3, Zenon DEF Known
<1>7. QED BY <1>1, <1>3, <1>4, <1>6, Zenon

LEMMA SentLinedStays ==
  ASSUME NEW f, UNCHANGED <<playing, seq, pending, units, some, seqLast>>,
         hit \subseteq hit', cut \subseteq cut',
         Alive' \subseteq Alive, \A p \in Alive : p \in Alive' \/ Noted(p)',
         NEW lu, NEW le \in BOOLEAN, SentLined(f, lu, le)
  PROVE  SentLined(f, lu, le)'
<1>1. /\ \A p \in Alive : p.unit \in DOMAIN units /\ Carried(p) = units[p.unit]
      /\ \A q \in Alive : Fresh(f, q.seq) => Known(f, Ahead(f, q.seq), Before(q), Starts(q), lu, le)
      /\ \A p \in Alive : Fresh(f, p.seq) /\ ~Ends(p) => p.unit \in hit \/ GoneOn(f, p)
      /\ playing => /\ Lined(pending, Len(units))
                    /\ \A i \in DOMAIN pending : Carried(pending[i]) = units[pending[i].unit]
                    /\ Known(f, Ahead(f, seq), LastUnit, LastEnds, lu, le)
      /\ ~playing => seq = f /\ units = <<>> /\ ~some /\ lu = 0 /\ le
  BY Zenon DEF SentLined
<1>2. /\ \A s : Fresh(f, s)' <=> Fresh(f, s)
      /\ \A a, u, e : Known(f, a, u, e, lu, le) => Known(f, a, u, e, lu, le)'
  BY KnownStays, Zenon
<1>3. \A q \in Alive' : Fresh(f, q.seq)' => Known(f, Ahead(f, q.seq), Before(q), Starts(q), lu, le)'
  BY <1>1, <1>2, Zenon
<1>4. Ahead(f, seq)' = Ahead(f, seq) /\ LastUnit' = LastUnit /\ (LastEnds' <=> LastEnds)
  BY DEF Ahead, LastUnit, LastEnds
<1>5. ASSUME NEW p \in Alive', Fresh(f, p.seq)', ~Ends(p) PROVE p.unit \in hit' \/ GoneOn(f, p)'
  <2>1. p.unit \in hit \/ GoneOn(f, p)
    BY <1>1, <1>2, <1>5, Zenon
  <2>2. CASE p.unit \in hit
    BY <2>2
  <2>3. ASSUME NEW q \in Alive, q.unit = p.unit, Ahead(f, q.seq) = Ahead(f, p.seq) + 1
        PROVE  p.unit \in hit' \/ GoneOn(f, p)'
    BY <2>3, Zenon DEF GoneOn, Noted
  <2>4. CASE Ahead(f, seq) = Ahead(f, p.seq) + 1 /\ pending # <<>> /\ Head(pending).unit = p.unit
    BY <1>4, <2>4, Zenon DEF GoneOn
  <2>5. QED BY <2>1, <2>2, <2>3, <2>4, Zenon DEF GoneOn
<1>6. \A p \in Alive' : p.unit \in DOMAIN units' /\ Carried(p) = units'[p.unit]
  BY <1>1
<1>7. playing' => /\ Lined(pending', Len(units'))
                  /\ \A i \in DOMAIN pending' : Carried(pending'[i]) = units'[pending'[i].unit]
                  /\ Known(f, Ahead(f, seq), LastUnit, LastEnds, lu, le)'
  <2>1. SUFFICES ASSUME playing
                 PROVE  /\ Lined(pending', Len(units'))
                        /\ \A i \in DOMAIN pending' : Carried(pending'[i]) = units'[pending'[i].unit]
                        /\ Known(f, Ahead(f, seq), LastUnit, LastEnds, lu, le)'
    OBVIOUS
  <2>2. PICK u : u = LastUnit
    OBVIOUS
  <2>3. PICK e \in BOOLEAN : e <=> LastEnds
    OBVIOUS
  <2>4. Known(f, Ahead(f, seq), u, e, lu, le)
    BY <1>1, <2>1, <2>2, <2>3, Zenon DEF Known
  <2>5. PICK a : a = Ahead(f, seq)
    OBVIOUS
  <2>6. Known(f, a, u, e, lu, le)'
    BY <1>2, <2>4, <2>5
  <2>7. u = LastUnit' /\ (e <=> LastEnds') /\ a = Ahead(f, seq)'
    BY <1>4, <2>2, <2>5, <2>3
  <2>8. Known(f, Ahead(f, seq), LastUnit, LastEnds, lu, le)'
    BY <2>6, <2>7, Zenon DEF Known
  <2>9. QED BY <1>1, <2>1, <2>8
<1>8. ~playing' => seq' = f /\ units' = <<>> /\ ~some' /\ lu = 0 /\ le
  BY <1>1
<1>9. QED BY <1>3, <1>5, <1>6, <1>7, <1>8, Zenon DEF SentLined

LEMMA FrameLinedStays ==
  ASSUME NEW f, UNCHANGED <<some, seqLast, currentNal, containsMissing, framingError, out>>,
         hit \subseteq hit', cut \subseteq cut', \A p \in Alive : p \in Alive' \/ Noted(p)',
         Len(units) \in Nat, Len(units') \in Nat, Len(units) <= Len(units'),
         DOMAIN units = 1..Len(units),
         \A u \in DOMAIN units : u \in DOMAIN units' /\ units'[u] = units[u],
         \A u \in DOMAIN units : u \in UnderWay => u \in UnderWay' \cup hit',
         \A u \in DOMAIN units' : u \in DOMAIN units \/ u \in UnderWay',
         NEW lu, NEW le \in BOOLEAN, FrameLined(f, lu, le)
  PROVE  FrameLined(f, lu, le)'
<1>1. /\ lu \in 0..Len(units)
      /\ le => currentNal = <<>> /\ ~containsMissing /\ ~framingError
      /\ ~le => lu # 0 /\ (Damaged(f, lu) \/ (Clean /\ Carries(currentNal) = units[lu]))
      /\ \A u \in DOMAIN units : Arrived(u) => CutOff(f, u - 1) \/ Came(u)
  BY Zenon DEF FrameLined
<1>2. \A u : (Hurt(f, u) => Hurt(f, u)') /\ (CutOff(f, u) => CutOff(f, u)')
  BY KnownStays, Zenon
<1>3. lu \in 0..Len(units') /\ (lu # 0 => lu \in DOMAIN units)
  BY <1>1
<1>4. ~le => lu # 0 /\ (Damaged(f, lu)' \/ (Clean' /\ Carries(currentNal') = units'[lu]))
  <2>1. SUFFICES ASSUME ~le PROVE lu # 0 /\ (Damaged(f, lu)' \/ (Clean' /\ Carries(currentNal') = units'[lu]))
    OBVIOUS
  <2>2. lu # 0 /\ (Damaged(f, lu) \/ (Clean /\ Carries(currentNal) = units[lu]))
    BY <1>1, <2>1
  <2>3. Damaged(f, lu) => Damaged(f, lu)'
    BY <1>2, Zenon DEF Damaged
  <2>4. (Clean => Clean') /\ Carries(currentNal') = Carries(currentNal) /\ units'[lu] = units[lu]
    BY <1>3, <2>2 DEF Clean
  <2>5. QED BY <2>2, <2>3, <2>4, Zenon
<1>5. ASSUME NEW u \in DOMAIN units', Arrived(u)' PROVE CutOff(f, u - 1)' \/ Came(u)'
  <2>1. u \notin hit' /\ u \notin UnderWay'
    BY <1>5 DEF Arrived
  <2>2. u \in DOMAIN units /\ units'[u] = units[u] /\ u \notin hit /\ u \notin UnderWay
    BY <2>1
  <2>3. Arrived(u)
    BY <2>2 DEF Arrived
  <2>4. CutOff(f, u - 1) \/ Came(u)
    BY <1>1, <2>2, <2>3
  <2>5. Came(u) => Came(u)'
    BY <2>2, Zenon DEF Came
  <2>6. QED BY <1>2, <2>4, <2>5
<1>6. le => currentNal' = <<>> /\ ~containsMissing' /\ ~framingError'
  BY <1>1
<1>7. QED BY <1>3, <1>4, <1>5, <1>6, Zenon DEF FrameLined

\* Steps that take packets away, and leave them to the units that lost them.
LEMMA LinedStays ==
  ASSUME IInv, NEW f, UNCHANGED <<playing, seq, pending, units, some, seqLast, frame>>,
         hit \subseteq hit', cut \subseteq cut',
         Alive' \subseteq Alive, \A p \in Alive : p \in Alive' \/ Noted(p)',
         NEW lu, NEW le \in BOOLEAN, SentLined(f, lu, le), FrameLined(f, lu, le)
  PROVE  SentLined(f, lu, le)' /\ FrameLined(f, lu, le)'
<1>1. UNCHANGED <<currentNal, containsMissing, framingError, out>>
  BY DEF frame
<1>2. units \in Seq(SUBSET DOMAIN setup.nals)
  BY DEF IInv, SenderTypes
<1>3. /\ Len(units) \in Nat /\ Len(units') \in Nat /\ Len(units) <= Len(units')
      /\ DOMAIN units = 1..Len(units)
      /\ \A u \in DOMAIN units : u \in DOMAIN units' /\ units'[u] = units[u]
      /\ \A u \in DOMAIN units' : u \in DOMAIN units \/ u \in UnderWay'
  BY <1>2
<1>4. ASSUME NEW u \in UnderWay PROVE u \in UnderWay' \cup hit'
  <2>1. CASE u \in {pending[i].unit : i \in DOMAIN pending}
    BY <2>1 DEF UnderWay
  <2>2. CASE \E p \in Alive : p.unit = u
    <3>1. PICK p \in Alive : p.unit = u
      BY <2>2
    <3>2. CASE p \in Alive'
      BY <3>1, <3>2 DEF UnderWay, Alive
    <3>3. CASE Noted(p)'
      BY <3>1, <3>3 DEF Noted
    <3>4. QED BY <3>1, <3>2, <3>3
  <2>3. QED BY <1>4, <2>1, <2>2 DEF UnderWay, Alive
<1>5. SentLined(f, lu, le)'
  BY SentLinedStays
<1>6. FrameLined(f, lu, le)'
  BY <1>1, <1>3, <1>4, FrameLinedStays
<1>7. QED BY <1>5, <1>6

\* All but the one that is taken out are left.
LEMMA OthersLeft ==
  ASSUME NEW S, NEW s \in Seq(S), NEW k \in DOMAIN s, NEW i \in DOMAIN s, i # k
  PROVE  \E j \in DOMAIN RemoveAt(s, k) : RemoveAt(s, k)[j] = s[i]
<1>1. PICK t : t = RemoveAt(s, k)
  OBVIOUS
<1>2. PICK p \in Nat, q \in Nat : /\ k = p + 1 /\ DOMAIN s = 1..(p + 1 + q)
                                  /\ DOMAIN t = 1..(p + q)
                                  /\ \A h \in 1..p : t[h] = s[h]
                                  /\ \A h \in 1..q : t[p + h] = s[p + 1 + h]
  BY <1>1, PartsLeft, Zenon
<1>3. i \in 1..(p + 1 + q) /\ i # p + 1
  BY <1>2
<1>4. i \in 1..p \/ \E h \in 1..q : i = p + 1 + h
  <2>1. i > p + 1 => i - (p + 1) \in 1..q /\ i = p + 1 + (i - (p + 1))
    BY <1>3
  <2>2. ~(i > p + 1) => i \in 1..p
    BY <1>3
  <2>3. QED BY <2>1, <2>2
<1>5. CASE i \in 1..p
  <2>1. i \in 1..(p + q)
    BY <1>5
  <2>2. QED BY <1>1, <1>2, <1>5, <2>1, Zenon
<1>6. ASSUME NEW h \in 1..q, i = p + 1 + h PROVE \E j \in DOMAIN t : t[j] = s[i]
  <2>1. p + h \in 1..(p + q)
    OBVIOUS
  <2>2. QED BY <1>2, <1>6, <2>1, Zenon
<1>7. QED BY <1>1, <1>4, <1>5, <1>6, Zenon

\* A packet is lost.
LEMMA LoseLined ==
  ASSUME IInv, NEW f, NEW k \in DOMAIN net, Lose(k),
         NEW lu, NEW le \in BOOLEAN, SentLined(f, lu, le), FrameLined(f, lu, le)
  PROVE  SentLined(f, lu, le)' /\ FrameLined(f, lu, le)'
<1>1. /\ net' = RemoveAt(net, k) /\ net \in Seq(Flying)
      /\ UNCHANGED <<playing, seq, pending, units, some, seqLast, frame, rtpData>>
  BY DEF Lose, Drop, sender, receiver, IInv, NetworkTypes
<1>2. PICK p : p = net[k]
  OBVIOUS
<1>3. hit \subseteq hit' /\ cut \subseteq cut' /\ Noted(p)'
  <2>1. hit' = hit \cup {p.unit} /\ cut' = IF Ends(p) THEN cut \cup {p.unit} ELSE cut
    BY <1>2, Zenon DEF Lose, Drop
  <2>2. hit \subseteq hit' /\ cut \subseteq cut' /\ p.unit \in hit' /\ (Ends(p) => p.unit \in cut')
    BY <2>1
  <2>3. QED BY <2>2, Zenon DEF Noted
<1>4. Alive' \subseteq Alive
  <2>1. PICK g : \A i \in DOMAIN net' : g[i] \in DOMAIN net /\ g[i] # k /\ net'[i] = net[g[i]]
    BY <1>1, OthersInOrder
  <2>2. QED BY <1>1, <2>1 DEF Alive
<1>5. ASSUME NEW q \in Alive PROVE q \in Alive' \/ Noted(q)'
  <2>1. CASE q \in {rtpData[s] : s \in DOMAIN rtpData}
    BY <1>1, <2>1 DEF Alive
  <2>2. ASSUME NEW i \in DOMAIN net, q = net[i] PROVE q \in Alive' \/ Noted(q)'
    <3>1. CASE i = k
      BY <1>2, <1>3, <2>2, <3>1
    <3>2. CASE i # k
      <4>1. \E j \in DOMAIN net' : net'[j] = net[i]
        BY <1>1, <3>2, OthersLeft
      <4>2. QED BY <2>2, <4>1 DEF Alive
    <3>3. QED BY <3>1, <3>2
  <2>3. QED BY <1>5, <2>1, <2>2 DEF Alive
<1>6. QED BY <1>1, <1>3, <1>4, <1>5, LinedStays

\* The receiver takes a packet: it waits, or the first that waits is handled.
LEMMA ReceivedNext ==
  ASSUME IInv, NEW f \in Seqs, FramesInv(f), NetInRow(f), Calm(f), NEW k \in DOMAIN net, Receive(k)
  PROVE  \/ /\ UNCHANGED <<some, seqLast, frame>>
            /\ Alive' \subseteq Alive /\ \A p \in Alive : p \in Alive'
         \/ \E h \in Alive : /\ Handle(h) /\ Fresh(f, h.seq) /\ WellMade(h) /\ Used(f, h.seq)
                             /\ h \in Packets
                             /\ Alive' \subseteq Alive /\ \A p \in Alive : p = h \/ p \in Alive'
<1>1. net' = RemoveAt(net, k) /\ MayArrive(k) /\ net \in Seq(Flying)
  BY DEF Receive, IInv, NetworkTypes
<1>2. PICK g : \A i \in DOMAIN net' : g[i] \in DOMAIN net /\ g[i] # k /\ net'[i] = net[g[i]]
  BY <1>1, OthersInOrder
<1>3. PICK p \in Alive : p = net[k] /\ p.seq \in Seqs
  BY NetTyped, AliveTyped
<1> DEFINE waiting == DOMAIN rtpData \cup {p.seq}
           data == [s \in waiting |-> IF s = p.seq THEN p ELSE rtpData[s]]
<1>4. DOMAIN data = waiting /\ \A s \in waiting : data[s] \in Alive /\ data[s].seq = s
  BY <1>3, NetTyped
<1>5. data[p.seq] = p /\ \A s \in DOMAIN rtpData : data[s] = rtpData[s]
  <2>1. p.seq \notin DOMAIN rtpData
    BY <1>3 DEF NetInRow
  <2>2. QED BY <2>1
<1>6. PICK key \in waiting :
        /\ \A s \in waiting : key <= s
        /\ IF IsNext(key, waiting)
           THEN rtpData' = [s \in waiting \ {key} |-> data[s]] /\ Handle(data[key])
           ELSE rtpData' = data /\ UNCHANGED <<some, seqLast, frame>>
  BY <1>3, Zenon DEF Receive
<1>7. waiting = DOMAIN rtpData \cup {net[k].seq}
  BY <1>3
<1>8. p.seq \in waiting /\ DOMAIN rtpData \subseteq waiting
  OBVIOUS
<1> HIDE DEF data, waiting
<1>9. DOMAIN rtpData' \subseteq waiting /\ \A s \in DOMAIN rtpData' : rtpData'[s] = data[s]
  <2>1. CASE IsNext(key, waiting)
    BY <1>4, <1>6, <2>1
  <2>2. CASE ~IsNext(key, waiting)
    BY <1>4, <1>6, <2>2
  <2>3. QED BY <2>1, <2>2
<1>10. Alive' \subseteq Alive
  <2>1. \A i \in DOMAIN net' : net'[i] \in Alive
    BY <1>2, Zenon DEF Alive
  <2>2. QED BY <1>4, <1>9, <2>1 DEF Alive
<1>11. ASSUME NEW q \in Alive PROVE q \in Alive' \/ \E s \in waiting : q = data[s]
  <2>1. ASSUME NEW s \in DOMAIN rtpData, q = rtpData[s] PROVE \E r \in waiting : q = data[r]
    <3>1. s \in waiting /\ q = data[s]
      BY <1>5, <1>8, <2>1
    <3>2. QED BY <3>1
  <2>2. ASSUME NEW i \in DOMAIN net, q = net[i] PROVE q \in Alive' \/ \E s \in waiting : q = data[s]
    <3>1. CASE i = k
      BY <1>3, <1>5, <1>8, <2>2, <3>1
    <3>2. CASE i # k
      <4>1. \E j \in DOMAIN net' : net'[j] = net[i]
        BY <1>1, <3>2, OthersLeft
      <4>2. QED BY <2>2, <4>1 DEF Alive
    <3>3. QED BY <3>1, <3>2
  <2>3. QED BY <1>11, <2>1, <2>2 DEF Alive
<1>12. CASE IsNext(key, waiting)
  <2>1. PICK h \in Alive : h = data[key] /\ Handle(h) /\ h.seq = key /\ h \in Packets
    BY <1>4, <1>6, <1>12, AliveTyped
  <2>2. Fresh(f, key)
    <3>1. MayArrive(k) /\ (\A s \in waiting : key <= s) /\ IsNext(key, waiting)
      BY <1>1, <1>6, <1>12
    <3>2. QED BY <1>7, <3>1, HandledNext, SMTT(30)
  <2>3. WellMade(h) /\ Used(f, key)
    BY <2>1 DEF FramesInv, LinksKept
  <2>4. ASSUME NEW q \in Alive PROVE q = h \/ q \in Alive'
    <3>1. ASSUME NEW s \in waiting, q = data[s] PROVE q = h \/ q \in Alive'
      <4>1. CASE s = key
        BY <2>1, <3>1, <4>1
      <4>2. CASE s # key
        <5>1. s \in DOMAIN rtpData' /\ rtpData'[s] = data[s]
          BY <1>6, <1>12, <4>2
        <5>2. QED BY <3>1, <5>1 DEF Alive
      <4>3. QED BY <4>1, <4>2
    <3>2. QED BY <1>11, <3>1
  <2>5. QED BY <1>10, <2>1, <2>2, <2>3, <2>4
<1>13. CASE ~IsNext(key, waiting)
  <2>1. rtpData' = data /\ UNCHANGED <<some, seqLast, frame>>
    BY <1>6, <1>13
  <2>2. ASSUME NEW q \in Alive PROVE q \in Alive'
    <3>1. ASSUME NEW s \in waiting, q = data[s] PROVE q \in Alive'
      <4>1. s \in DOMAIN rtpData' /\ rtpData'[s] = data[s]
        BY <1>4, <2>1
      <4>2. QED BY <3>1, <4>1 DEF Alive
    <3>2. QED BY <1>11, <3>1
  <2>3. QED BY <1>10, <2>1, <2>2
<1>14. QED BY <1>12, <1>13

LEMMA ReceiveLined ==
  ASSUME IInv, NEW f \in Seqs, FramesInv(f), NetInRow(f), Calm(f), NEW k \in DOMAIN net, Receive(k),
         NEW lu, NEW le \in BOOLEAN, SentLined(f, lu, le), FrameLined(f, lu, le)
  PROVE  \E lu2 : \E le2 \in BOOLEAN : SentLined(f, lu2, le2)' /\ FrameLined(f, lu2, le2)'
<1>1. UNCHANGED <<setup, playing, seq, pending, units, hit, cut>>
  BY DEF Receive, sender
<1>2. CASE /\ UNCHANGED <<some, seqLast, frame>>
           /\ Alive' \subseteq Alive /\ \A p \in Alive : p \in Alive'
  <2>1. hit \subseteq hit' /\ cut \subseteq cut'
    BY <1>1
  <2>2. SentLined(f, lu, le)' /\ FrameLined(f, lu, le)'
    BY <1>1, <1>2, <2>1, LinedStays
  <2>3. QED BY <2>2
<1>3. ASSUME NEW h \in Alive, Handle(h), Fresh(f, h.seq), WellMade(h), Used(f, h.seq), h \in Packets,
             Alive' \subseteq Alive, \A p \in Alive : p = h \/ p \in Alive'
      PROVE  \E lu2 : \E le2 \in BOOLEAN : SentLined(f, lu2, le2)' /\ FrameLined(f, lu2, le2)'
  <2>1. playing
    <3>1. net # <<>>
      OBVIOUS
    <3>2. QED BY <3>1, Zenon DEF FramesInv, Quiet
  <2>2. SentLined(f, h.unit, Ends(h))' /\ FrameLined(f, h.unit, Ends(h))'
    BY <1>1, <1>3, <2>1, HandleLined
  <2>3. Ends(h) \in BOOLEAN
    BY <1>3 DEF Packets, Ends
  <2>4. QED BY <2>2, <2>3
<1>4. QED BY <1>2, <1>3, ReceivedNext

-----------------------------------------------------------------------------
(* What is sent. *)

LEMMA TailLined ==
  ASSUME NEW S, NEW s \in Seq(S), s # <<>>, NEW hi, Lined(s, hi)
  PROVE  /\ 1 \in DOMAIN s /\ Head(s) = s[1] /\ Lined(Tail(s), hi)
         /\ \A i \in DOMAIN Tail(s) : \E j \in DOMAIN s : Tail(s)[i] = s[j]
         /\ \A j \in DOMAIN s : s[j] = s[1] \/ \E i \in DOMAIN Tail(s) : Tail(s)[i] = s[j]
         /\ IF Tail(s) = <<>> THEN Ends(s[1]) /\ s[1].unit = hi
            ELSE Succeeds(s[1], Head(Tail(s)))
<1>1. PICK n \in Nat : n + 1 = Len(s) /\ DOMAIN s = 1..(n + 1)
  <2>1. Len(s) \in Nat /\ Len(s) # 0 /\ DOMAIN s = 1..Len(s)
    OBVIOUS
  <2>2. Len(s) - 1 \in Nat /\ (Len(s) - 1) + 1 = Len(s)
    BY <2>1
  <2>3. QED BY <2>1, <2>2
<1>2. PICK t \in Seq(S) : /\ t = Tail(s) /\ DOMAIN t = 1..n /\ Len(t) = n
                          /\ \A i \in 1..n : t[i] = s[i + 1]
  <2>1. Tail(s) \in Seq(S)
    OBVIOUS
  <2>2. Len(Tail(s)) = n
    BY <1>1
  <2>3. \A i \in 1..n : Tail(s)[i] = s[i + 1]
    BY <1>1
  <2>4. DOMAIN Tail(s) = 1..n
    BY <2>1, <2>2
  <2>5. QED BY <2>1, <2>2, <2>3, <2>4
<1>3. /\ 1 \in 1..(n + 1) /\ n + 1 \in 1..(n + 1)
      /\ \A i \in 1..n : i \in 1..(n + 1) /\ i + 1 \in 1..(n + 1) /\ (i + 1 \in 1..n => i + 1 + 1 \in 1..(n + 1))
  OBVIOUS
<1>4. Head(s) = s[1]
  OBVIOUS
<1>5. /\ \A i \in 1..(n + 1) : i + 1 \in 1..(n + 1) => Succeeds(s[i], s[i + 1])
      /\ Ends(s[n + 1]) /\ s[n + 1].unit = hi
  BY <1>1, Zenon DEF Lined
<1>6. Lined(t, hi)
  <2>1. ASSUME NEW i \in 1..n, i + 1 \in 1..n PROVE Succeeds(t[i], t[i + 1])
    <3>1. Succeeds(s[i + 1], s[i + 1 + 1])
      BY <1>3, <1>5, <2>1, Zenon
    <3>2. QED BY <1>2, <2>1, <3>1, Zenon
  <2>2. ASSUME t # <<>> PROVE Ends(t[n]) /\ t[n].unit = hi
    <3>1. n # 0
      BY <1>2, <2>2
    <3>2. n \in 1..n
      BY <3>1
    <3>3. t[n] = s[n + 1]
      BY <1>2, <3>2, Zenon
    <3>4. QED BY <1>5, <3>3
  <2>3. QED BY <1>2, <2>1, <2>2, Zenon DEF Lined
<1>7. \A i \in 1..n : \E j \in 1..(n + 1) : t[i] = s[j]
  BY <1>2, <1>3, Zenon
<1>8. ASSUME NEW j \in 1..(n + 1), j # 1 PROVE \E i \in 1..n : t[i] = s[j]
  <2>1. PICK i \in 1..n : j = i + 1
    <3>1. j - 1 \in 1..n /\ j = (j - 1) + 1
      BY <1>8
    <3>2. QED BY <3>1
  <2>2. QED BY <1>2, <2>1, Zenon
<1>9. IF t = <<>> THEN Ends(s[1]) /\ s[1].unit = hi ELSE Succeeds(s[1], Head(t))
  <2>1. CASE n = 0
    <3>1. t = <<>> /\ n + 1 = 1
      BY <1>2, <2>1
    <3>2. QED BY <1>5, <3>1
  <2>2. CASE n # 0
    <3>1. t # <<>> /\ 1 \in 1..n
      <4>1. Len(t) # 0
        BY <1>2, <2>2
      <4>2. t # <<>>
        BY <4>1
      <4>3. 1 \in 1..n
        BY <2>2
      <4>4. QED BY <4>2, <4>3
    <3>2. Head(t) = t[1]
      BY <3>1
    <3>3. Succeeds(s[1], s[1 + 1]) /\ t[1] = s[1 + 1]
      <4>1. 1 \in 1..(n + 1) /\ 1 + 1 \in 1..(n + 1)
        BY <1>3, <3>1
      <4>2. QED BY <1>2, <1>5, <3>1, <4>1, Zenon
    <3>4. QED BY <3>1, <3>2, <3>3
  <2>3. QED BY <2>1, <2>2
<1>10. \A j \in 1..(n + 1) : s[j] = s[1] \/ \E i \in 1..n : t[i] = s[j]
  BY <1>8, Zenon
<1>11. /\ DOMAIN s = 1..(n + 1) /\ t = Tail(s) /\ DOMAIN t = 1..n /\ 1 \in 1..(n + 1)
  BY <1>1, <1>2, <1>3
<1>12. QED BY <1>4, <1>6, <1>7, <1>9, <1>10, <1>11, Zenon

\* The next buffer.
LEMMA NextLined ==
  ASSUME IInv, NEW f, FramesInv(f), Send,
         NEW lu, NEW le \in BOOLEAN, SentLined(f, lu, le), FrameLined(f, lu, le)
  PROVE  SentLined(f, lu, le)' /\ FrameLined(f, lu, le)'
<1>1. /\ pending = <<>>
      /\ UNCHANGED <<playing, seq, net, hit, cut, some, seqLast, rtpData, currentNal,
                     containsMissing, framingError, out>>
  BY DEF Send, network, receiver, frame
<1>2. units \in Seq(SUBSET DOMAIN setup.nals)
  BY DEF IInv, SenderTypes
<1>3. Alive' = Alive /\ hit \subseteq hit' /\ cut \subseteq cut'
  BY <1>1 DEF Alive
<1>4. /\ \A s : Fresh(f, s)' <=> Fresh(f, s)
      /\ \A a, u, e : Known(f, a, u, e, lu, le) => Known(f, a, u, e, lu, le)'
  <2>1. \A p \in Alive : p \in Alive' \/ Noted(p)'
    BY <1>3
  <2>2. QED BY <1>1, <1>3, <2>1, KnownStays, Zenon
<1>5. /\ \A p \in Alive : p.unit \in DOMAIN units /\ Carried(p) = units[p.unit]
      /\ \A q \in Alive : Fresh(f, q.seq) => Known(f, Ahead(f, q.seq), Before(q), Starts(q), lu, le)
      /\ \A p \in Alive : Fresh(f, p.seq) /\ ~Ends(p) => p.unit \in hit \/ GoneOn(f, p)
      /\ playing => Known(f, Ahead(f, seq), LastUnit, LastEnds, lu, le)
      /\ ~playing => seq = f /\ units = <<>> /\ ~some /\ lu = 0 /\ le
  BY Zenon DEF SentLined
<1>6. /\ \A u \in DOMAIN units : u \in DOMAIN units' /\ units'[u] = units[u]
      /\ Len(units) \in Nat /\ Len(units') \in Nat /\ Len(units) <= Len(units')
      /\ DOMAIN units = 1..Len(units)
      /\ \A u \in DOMAIN units' : u \in DOMAIN units \/ u \in UnderWay'
  <2>1. CASE playing
    <3>1. /\ \A u \in DOMAIN units : u \in DOMAIN units' /\ units'[u] = units[u]
          /\ pending' = <<>> => units' = units
          /\ pending' # <<>> => LinedFrom(pending', Len(units), Len(units'))
          /\ Len(units) \in Nat /\ Len(units') \in Nat /\ Len(units) <= Len(units')
      BY <2>1, SendLined
    <3>2. CASE pending' = <<>>
      BY <1>2, <3>1, <3>2
    <3>3. CASE pending' # <<>>
      <4>1. \A u \in Len(units) + 1..Len(units') : \E i \in DOMAIN pending' : pending'[i].unit = u
        BY <3>1, <3>3, Zenon DEF LinedFrom
      <4>2. \A u \in Len(units) + 1..Len(units') : u \in UnderWay'
        BY <4>1 DEF UnderWay
      <4>3. DOMAIN units = 1..Len(units)
        BY <1>2
      <4>4. DOMAIN units' = 1..Len(units')
        <5>1. units' \in Seq(SUBSET DOMAIN setup'.nals)
          BY NextIInv DEF Next, IInv, SenderTypes
        <5>2. QED BY <5>1
      <4>5. QED BY <3>1, <4>2, <4>3, <4>4
    <3>4. QED BY <3>2, <3>3
  <2>2. CASE ~playing
    <3>1. units' = units
      BY <2>2, Zenon DEF Send
    <3>2. QED BY <1>2, <3>1
  <2>3. QED BY <2>1, <2>2
<1>7. FrameLined(f, lu, le)'
  <2>1. \A p \in Alive : p \in Alive' \/ Noted(p)'
    BY <1>3
  <2>2. \A u \in DOMAIN units : u \in UnderWay => u \in UnderWay' \cup hit'
    BY <1>1 DEF UnderWay
  <2>3. QED BY <1>1, <1>3, <1>6, <2>1, <2>2, FrameLinedStays
<1>8. \A p \in Alive' : p.unit \in DOMAIN units' /\ Carried(p) = units'[p.unit]
  BY <1>3, <1>5, <1>6
<1>9. \A q \in Alive' : Fresh(f, q.seq)' => Known(f, Ahead(f, q.seq), Before(q), Starts(q), lu, le)'
  BY <1>3, <1>4, <1>5, Zenon
<1>10. ASSUME NEW p \in Alive', Fresh(f, p.seq)', ~Ends(p) PROVE p.unit \in hit' \/ GoneOn(f, p)'
  <2>1. p.unit \in hit \/ GoneOn(f, p)
    BY <1>3, <1>4, <1>5, <1>10, Zenon
  <2>2. GoneOn(f, p) => GoneOn(f, p)'
    BY <1>1, <1>3, Zenon DEF GoneOn
  <2>3. QED BY <1>1, <2>1, <2>2
<1>11. playing' => /\ Lined(pending', Len(units'))
                   /\ \A i \in DOMAIN pending' : Carried(pending'[i]) = units'[pending'[i].unit]
                   /\ Known(f, Ahead(f, seq), LastUnit, LastEnds, lu, le)'
  <2>1. SUFFICES ASSUME playing
                 PROVE  /\ Lined(pending', Len(units'))
                        /\ \A i \in DOMAIN pending' : Carried(pending'[i]) = units'[pending'[i].unit]
                        /\ Known(f, Ahead(f, seq), LastUnit, LastEnds, lu, le)'
    BY <1>1
  <2>2. /\ \A i \in DOMAIN pending' : Carried(pending'[i]) = units'[pending'[i].unit]
        /\ pending' = <<>> => units' = units
        /\ pending' # <<>> => LinedFrom(pending', Len(units), Len(units'))
    BY <2>1, SendLined
  <2>3. LastUnit = Len(units) /\ LastEnds
    BY <1>1, Zenon DEF LastUnit, LastEnds
  <2>4. PICK l \in Nat : l = Len(units)
    BY <1>6
  <2>5. LastUnit' = l /\ LastEnds' /\ Lined(pending', Len(units'))
    <3>1. CASE pending' = <<>>
      <4>1. Lined(pending', Len(units'))
        BY <3>1 DEF Lined
      <4>2. QED BY <2>2, <2>4, <3>1, <4>1 DEF LastUnit, LastEnds
    <3>2. CASE pending' # <<>>
      <4>1. /\ Lined(pending', Len(units')) /\ Starts(pending'[1]) /\ pending'[1].unit = l + 1
        BY <2>2, <2>4, <3>2, Zenon DEF LinedFrom
      <4>2. Head(pending') = pending'[1]
        <5>1. pending' \in Seq(Outgoing')
          BY NextIInv DEF Next, IInv, SenderTypes
        <5>2. QED BY <3>2, <5>1
      <4>3. (l + 1) - 1 = l
        OBVIOUS
      <4>4. Before(Head(pending')) = l
        BY <4>1, <4>2, <4>3 DEF Before
      <4>5. LastUnit' = Before(Head(pending')) /\ (LastEnds' <=> Starts(Head(pending')))
        BY <3>2 DEF LastUnit, LastEnds, Before, Starts
      <4>6. QED BY <4>1, <4>2, <4>4, <4>5
    <3>3. QED BY <3>1, <3>2
  <2>6. PICK a : a = Ahead(f, seq)
    OBVIOUS
  <2>7. Known(f, a, l, TRUE, lu, le)
    BY <1>5, <2>1, <2>3, <2>4, <2>6, Zenon DEF Known
  <2>8. Known(f, a, l, TRUE, lu, le)'
    BY <1>4, <2>7
  <2>9. Ahead(f, seq)' = a
    BY <1>1, <2>6 DEF Ahead
  <2>10. Known(f, Ahead(f, seq), LastUnit, LastEnds, lu, le)'
    BY <2>5, <2>8, <2>9, Zenon DEF Known
  <2>11. QED BY <2>2, <2>5, <2>10
<1>12. ~playing' => seq' = f /\ units' = <<>> /\ ~some' /\ lu = 0 /\ le
  <2>1. ~playing => units' = units
    BY Zenon DEF Send
  <2>2. QED BY <1>1, <1>5, <2>1
<1>13. SentLined(f, lu, le)'
  BY <1>8, <1>9, <1>10, <1>11, <1>12, Zenon DEF SentLined
<1>14. QED BY <1>7, <1>13

\* The next packet is sent.
LEMMA SentLinedOn ==
  ASSUME IInv, NEW f \in Seqs, SendPacket, playing, seq' # f, NEW lu, NEW le \in BOOLEAN,
         SentLined(f, lu, le), FrameLined(f, lu, le)
  PROVE  SentLined(f, lu, le)' /\ FrameLined(f, lu, le)'
<1>1. /\ pending # <<>> /\ pending' = Tail(pending) /\ seq' = NextSeq
      /\ UNCHANGED <<setup, playing, units, hit, cut, some, seqLast, rtpData, currentNal,
                     containsMissing, framingError, out>>
  BY DEF SendPacket, receiver, frame
<1>2. /\ pending \in Seq(Outgoing) /\ seq \in Seqs /\ net \in Seq(Flying)
      /\ units \in Seq(SUBSET DOMAIN setup.nals)
  BY DEF IInv, SenderTypes, NetworkTypes
<1>3. /\ \A p \in Alive : p.unit \in DOMAIN units /\ Carried(p) = units[p.unit]
      /\ \A q \in Alive : Fresh(f, q.seq) => Known(f, Ahead(f, q.seq), Before(q), Starts(q), lu, le)
      /\ \A p \in Alive : Fresh(f, p.seq) /\ ~Ends(p) => p.unit \in hit \/ GoneOn(f, p)
      /\ Lined(pending, Len(units))
      /\ \A i \in DOMAIN pending : Carried(pending[i]) = units[pending[i].unit]
      /\ Known(f, Ahead(f, seq), LastUnit, LastEnds, lu, le)
  BY Zenon DEF SentLined
<1>4. /\ 1 \in DOMAIN pending /\ Head(pending) = pending[1] /\ Lined(pending', Len(units))
      /\ \A i \in DOMAIN pending' : \E j \in DOMAIN pending : pending'[i] = pending[j]
      /\ \A j \in DOMAIN pending : pending[j] = pending[1]
                                   \/ \E i \in DOMAIN pending' : pending'[i] = pending[j]
      /\ IF pending' = <<>> THEN Ends(pending[1]) /\ pending[1].unit = Len(units)
         ELSE Succeeds(pending[1], Head(pending'))
  <2>1. PICK t : t = Tail(pending)
    OBVIOUS
  <2>2. /\ 1 \in DOMAIN pending /\ Head(pending) = pending[1] /\ Lined(Tail(pending), Len(units))
        /\ \A i \in DOMAIN Tail(pending) : \E j \in DOMAIN pending : Tail(pending)[i] = pending[j]
        /\ \A j \in DOMAIN pending : pending[j] = pending[1]
                                     \/ \E i \in DOMAIN Tail(pending) : Tail(pending)[i] = pending[j]
        /\ IF Tail(pending) = <<>> THEN Ends(pending[1]) /\ pending[1].unit = Len(units)
           ELSE Succeeds(pending[1], Head(Tail(pending)))
    BY <1>1, <1>2, <1>3, TailLined
  <2>3. QED BY <1>1, <2>2, Zenon
<1>5. PICK h \in Outgoing : h = pending[1]
  BY <1>2, <1>4, ElementOfSeq
<1>6. PICK x : /\ x = [h EXCEPT !.seq = seq] /\ x.seq = seq /\ x.unit = h.unit
               /\ Carried(x) = Carried(h) /\ Before(x) = Before(h)
               /\ (Starts(x) <=> Starts(h)) /\ (Ends(x) <=> Ends(h))
  <2>1. PICK x : x = [h EXCEPT !.seq = seq]
    OBVIOUS
  <2>2. /\ x.seq = seq /\ x.unit = h.unit /\ x.pieces = h.pieces /\ x.type = h.type
        /\ x.start = h.start /\ x.last = h.last /\ x.end = h.end
    BY <2>1 DEF Outgoing, Packets
  <2>3. Carried(x) = Carried(h) /\ (Starts(x) <=> Starts(h)) /\ (Ends(x) <=> Ends(h))
    BY <2>2, Zenon DEF Carried, Starts, Ends
  <2>4. Before(x) = Before(h)
    BY <2>2, <2>3 DEF Before
  <2>5. QED BY <2>1, <2>2, <2>3, <2>4
<1>7. Alive' = Alive \cup {x}
  <2>1. net' = Append(net, x)
    BY <1>4, <1>5, <1>6 DEF SendPacket
  <2>2. PICK n \in Nat : n = Len(net) /\ DOMAIN net = 1..n
    BY <1>2
  <2>3. DOMAIN net' = 1..(n + 1) /\ net'[n + 1] = x /\ \A i \in 1..n : net'[i] = net[i]
    BY <1>2, <2>1, <2>2
  <2>4. \A i \in 1..(n + 1) : i \in 1..n \/ i = n + 1
    OBVIOUS
  <2>5. n + 1 \in 1..(n + 1) /\ \A i \in 1..n : i \in 1..(n + 1)
    OBVIOUS
  <2>6. {net'[i] : i \in DOMAIN net'} = {net[i] : i \in DOMAIN net} \cup {x}
    BY <2>2, <2>3, <2>4, <2>5
  <2>7. {rtpData'[s] : s \in DOMAIN rtpData'} = {rtpData[s] : s \in DOMAIN rtpData}
    BY <1>1
  <2>8. QED BY <2>6, <2>7 DEF Alive
<1>8. Ahead(f, seq)' = Ahead(f, seq) + 1
  <2>1. seq' = After(seq)
    BY <1>1, <1>2, NextNumber
  <2>2. Ahead(f, After(seq)) = Ahead(f, seq) + 1
    BY <1>2, <2>1, Numbers
  <2>3. Ahead(f, seq)' = Ahead(f, seq')
    BY DEF Ahead
  <2>4. QED BY <2>1, <2>2, <2>3
<1>9. /\ \A s : Fresh(f, s)' <=> Fresh(f, s)
      /\ \A a, u, e : Known(f, a, u, e, lu, le) => Known(f, a, u, e, lu, le)'
  <2>1. \A p \in Alive : p \in Alive' \/ Noted(p)'
    BY <1>7
  <2>2. hit \subseteq hit' /\ cut \subseteq cut'
    BY <1>1
  <2>3. QED BY <1>1, <2>1, <2>2, KnownStays, Zenon
<1>10. LastUnit = Before(x) /\ (LastEnds <=> Starts(x))
  BY <1>1, <1>4, <1>5, <1>6, Zenon DEF LastUnit, LastEnds
<1>11. Known(f, Ahead(f, x.seq), Before(x), Starts(x), lu, le)'
  <2>1. PICK a : a = Ahead(f, x.seq)
    OBVIOUS
  <2>2. a = Ahead(f, seq)
    BY <1>6, <2>1
  <2>3. Known(f, a, Before(x), Starts(x), lu, le)
    BY <1>3, <1>10, <2>2, Zenon DEF Known
  <2>4. QED BY <1>9, <2>1, <2>3
<1>12. \A q \in Alive' : Fresh(f, q.seq)' => Known(f, Ahead(f, q.seq), Before(q), Starts(q), lu, le)'
  <2>1. ASSUME NEW q \in Alive, Fresh(f, q.seq)'
        PROVE  Known(f, Ahead(f, q.seq), Before(q), Starts(q), lu, le)'
    BY <1>3, <1>9, <2>1, Zenon
  <2>2. QED BY <1>7, <1>11, <2>1
<1>13. x.unit \in DOMAIN units /\ Carried(x) = units[x.unit]
  BY <1>3, <1>4, <1>5, <1>6 DEF Outgoing
<1>14. \A p \in Alive' : p.unit \in DOMAIN units' /\ Carried(p) = units'[p.unit]
  BY <1>1, <1>3, <1>7, <1>13
<1>15. ~Ends(x) => GoneOn(f, x)'
  <2>1. SUFFICES ASSUME ~Ends(x) PROVE GoneOn(f, x)'
    OBVIOUS
  <2>2. pending' # <<>> /\ Succeeds(h, Head(pending'))
    BY <1>4, <1>5, <1>6, <2>1, Zenon
  <2>3. Head(pending').unit = x.unit
    <3>1. PICK q : q = Head(pending')
      OBVIOUS
    <3>2. ~Starts(q) /\ Before(q) = h.unit
      BY <1>6, <2>1, <2>2, <3>1, Zenon DEF Succeeds
    <3>3. q.unit = h.unit
      BY <3>2, Zenon DEF Before
    <3>4. QED BY <1>6, <3>1, <3>3
  <2>4. Ahead(f, seq)' = Ahead(f, x.seq) + 1
    BY <1>6, <1>8
  <2>5. QED BY <2>2, <2>3, <2>4, Zenon DEF GoneOn
<1>16. ASSUME NEW p \in Alive, p.unit \in hit \/ GoneOn(f, p) PROVE p.unit \in hit' \/ GoneOn(f, p)'
  <2>1. CASE p.unit \in hit
    BY <1>1, <2>1
  <2>2. ASSUME NEW q \in Alive, q.unit = p.unit /\ Ahead(f, q.seq) = Ahead(f, p.seq) + 1
        PROVE  GoneOn(f, p)'
    <3>1. q \in Alive'
      BY <1>7
    <3>2. QED BY <2>2, <3>1, Zenon DEF GoneOn
  <2>3. CASE Ahead(f, seq) = Ahead(f, p.seq) + 1 /\ Head(pending).unit = p.unit
    <3>1. x \in Alive' /\ x.unit = p.unit /\ Ahead(f, x.seq) = Ahead(f, p.seq) + 1
      BY <1>4, <1>5, <1>6, <1>7, <2>3
    <3>2. QED BY <3>1, Zenon DEF GoneOn
  <2>4. QED BY <1>16, <2>1, <2>2, <2>3, Zenon DEF GoneOn
<1>17. \A p \in Alive' : Fresh(f, p.seq)' /\ ~Ends(p) => p.unit \in hit' \/ GoneOn(f, p)'
  <2>1. ASSUME NEW p \in Alive, Fresh(f, p.seq)', ~Ends(p) PROVE p.unit \in hit' \/ GoneOn(f, p)'
    BY <1>3, <1>9, <1>16, <2>1
  <2>2. QED BY <1>7, <1>15, <2>1
<1>18. Known(f, Ahead(f, seq), LastUnit, LastEnds, lu, le)'
  <2>1. x \in Alive' /\ Ahead(f, x.seq) + 1 = Ahead(f, seq)'
    BY <1>6, <1>7, <1>8
  <2>2. x.unit = LastUnit' /\ (Ends(x) <=> LastEnds')
    <3>1. CASE pending' = <<>>
      <4>1. Ends(x) /\ x.unit = Len(units)
        BY <1>4, <1>5, <1>6, <3>1
      <4>2. LastUnit' = Len(units) /\ LastEnds'
        BY <1>1, <3>1 DEF LastUnit, LastEnds
      <4>3. QED BY <4>1, <4>2
    <3>2. CASE pending' # <<>>
      <4>1. PICK q : q = Head(pending')
        OBVIOUS
      <4>2. Before(q) = x.unit /\ (Starts(q) <=> Ends(x))
        BY <1>4, <1>5, <1>6, <3>2, <4>1, Zenon DEF Succeeds
      <4>3. LastUnit' = Before(q) /\ (LastEnds' <=> Starts(q))
        BY <3>2, <4>1, Zenon DEF LastUnit, LastEnds, Before, Starts
      <4>4. QED BY <4>2, <4>3
    <3>3. QED BY <3>1, <3>2
  <2>3. \E p \in Alive' : Ahead(f, p.seq) + 1 = Ahead(f, seq)' /\ p.unit = LastUnit'
                          /\ (Ends(p) <=> LastEnds')
    BY <2>1, <2>2, Zenon
  <2>4. QED BY <2>3, Zenon DEF Known
<1>19. \A i \in DOMAIN pending' : Carried(pending'[i]) = units'[pending'[i].unit]
  BY <1>1, <1>3, <1>4
<1>20. SentLined(f, lu, le)'
  <2>1. playing' /\ Lined(pending', Len(units'))
    BY <1>1, <1>4
  <2>2. QED BY <1>12, <1>14, <1>17, <1>18, <1>19, <2>1, Zenon DEF SentLined
<1>21. FrameLined(f, lu, le)'
  <2>1. \A p \in Alive : p \in Alive' \/ Noted(p)'
    BY <1>7
  <2>2. \A u \in UnderWay : u \in UnderWay'
    <3>1. \A p \in Alive' : p.unit \in UnderWay'
      BY DEF UnderWay, Alive
    <3>2. ASSUME NEW j \in DOMAIN pending PROVE pending[j].unit \in UnderWay'
      <4>1. CASE pending[j] = pending[1]
        BY <1>5, <1>6, <1>7, <3>1, <4>1
      <4>2. ASSUME NEW i \in DOMAIN pending', pending'[i] = pending[j] PROVE pending[j].unit \in UnderWay'
        BY <4>2 DEF UnderWay
      <4>3. QED BY <1>4, <4>1, <4>2
    <3>3. UnderWay = {pending[j].unit : j \in DOMAIN pending} \cup {p.unit : p \in Alive}
      BY DEF UnderWay, Alive
    <3>4. QED BY <1>7, <3>1, <3>2, <3>3
  <2>3. /\ Len(units) \in Nat /\ Len(units') \in Nat /\ Len(units) <= Len(units')
        /\ DOMAIN units = 1..Len(units)
        /\ \A u \in DOMAIN units : u \in DOMAIN units' /\ units'[u] = units[u]
        /\ \A u \in DOMAIN units' : u \in DOMAIN units \/ u \in UnderWay'
    BY <1>1, <1>2
  <2>4. \A u \in DOMAIN units : u \in UnderWay => u \in UnderWay' \cup hit'
    BY <2>2
  <2>5. hit \subseteq hit' /\ cut \subseteq cut'
    BY <1>1
  <2>6. QED BY <1>1, <2>1, <2>3, <2>4, <2>5, FrameLinedStays
<1>22. QED BY <1>20, <1>21

\* A channel that does not play has sent nothing.
LEMMA QuietLined ==
  ASSUME IInv, NEW f \in Seqs, FramesInv(f), ~playing, SendPacket \/ Play,
         NEW lu, NEW le \in BOOLEAN, SentLined(f, lu, le), FrameLined(f, lu, le)
  PROVE  SentLined(f, lu, le)' /\ FrameLined(f, lu, le)'
<1>1. /\ UNCHANGED <<seq, net, units, hit, some, seqLast, rtpData, currentNal, containsMissing,
                     framingError, out>>
      /\ playing' => pending = <<>> /\ pending' = <<>>
  BY DEF SendPacket, Play, network, receiver, frame
<1>2. Alive = {} /\ Alive' = {}
  <2>1. net = <<>> /\ DOMAIN rtpData = {}
    BY Zenon DEF FramesInv, Quiet
  <2>2. QED BY <1>1, <2>1 DEF Alive
<1>3. seq = f /\ units = <<>> /\ ~some /\ lu = 0 /\ le
  BY Zenon DEF SentLined
<1>4. SentLined(f, lu, le)'
  <2>1. playing' => /\ Lined(pending', Len(units'))
                    /\ \A i \in DOMAIN pending' : Carried(pending'[i]) = units'[pending'[i].unit]
                    /\ Known(f, Ahead(f, seq), LastUnit, LastEnds, lu, le)'
    <3>1. SUFFICES ASSUME playing'
                   PROVE  /\ Lined(pending', Len(units'))
                          /\ \A i \in DOMAIN pending' : Carried(pending'[i]) = units'[pending'[i].unit]
                          /\ Known(f, Ahead(f, seq), LastUnit, LastEnds, lu, le)'
      OBVIOUS
    <3>2. pending' = <<>>
      BY <1>1, <3>1
    <3>3. /\ Lined(pending', Len(units'))
          /\ \A i \in DOMAIN pending' : Carried(pending'[i]) = units'[pending'[i].unit]
      BY <3>2 DEF Lined
    <3>4. LastUnit' = lu /\ LastEnds'
      BY <1>1, <1>3, <3>2 DEF LastUnit, LastEnds
    <3>5. Ahead(f, seq)' = Handled(f)'
      <4>1. Handled(f)' = 0
        BY <1>1, <1>3 DEF Handled
      <4>2. Ahead(f, seq)' = 0
        <5>1. f \in Int
          BY RtpAssumption DEF Seqs
        <5>2. QED BY <1>1, <1>3, <5>1 DEF Ahead
      <4>3. QED BY <4>1, <4>2
    <3>6. Known(f, Ahead(f, seq), LastUnit, LastEnds, lu, le)'
      BY <1>3, <3>4, <3>5, Zenon DEF Known
    <3>7. QED BY <3>3, <3>6
  <2>2. seq' = f /\ units' = <<>> /\ ~some' /\ lu = 0 /\ le
    BY <1>1, <1>3
  <2>3. QED BY <1>2, <2>1, <2>2, Zenon DEF SentLined
<1>5. FrameLined(f, lu, le)'
  <2>1. currentNal = <<>> /\ ~containsMissing /\ ~framingError
    BY <1>3, Zenon DEF FrameLined
  <2>2. DOMAIN units' = {} /\ lu \in 0..Len(units')
    BY <1>1, <1>3
  <2>3. currentNal' = <<>> /\ ~containsMissing' /\ ~framingError'
    BY <1>1, <2>1
  <2>4. QED BY <1>3, <2>2, <2>3, Zenon DEF FrameLined
<1>6. QED BY <1>4, <1>5

\* Every step.
CostInv(f) == \E lu : \E le \in BOOLEAN : SentLined(f, lu, le) /\ FrameLined(f, lu, le)

LEMMA NextCost ==
  ASSUME IInv, NEW f \in Seqs, FramesInv(f), OrderInv(f), Calm(f), CostInv(f), [Next]_vars,
         seq' # seq => seq' # f
  PROVE  CostInv(f)'
<1>1. PICK lu : \E le \in BOOLEAN : SentLined(f, lu, le) /\ FrameLined(f, lu, le)
  BY DEF CostInv
<1>2. PICK le \in BOOLEAN : SentLined(f, lu, le) /\ FrameLined(f, lu, le)
  BY <1>1
<1>3. ASSUME SentLined(f, lu, le)' /\ FrameLined(f, lu, le)' PROVE CostInv(f)'
  BY <1>3 DEF CostInv
<1>4. CASE Send
  BY <1>2, <1>3, <1>4, NextLined
<1>5. CASE SendPacket
  <2>1. CASE playing
    <3>1. seq \in Seqs
      BY DEF IInv, SenderTypes
    <3>2. seq' = After(seq) /\ After(seq) # seq
      BY <1>5, <2>1, <3>1, NextNumber, Numbers DEF SendPacket
    <3>3. QED BY <1>2, <1>3, <1>5, <2>1, <3>2, SentLinedOn
  <2>2. CASE ~playing
    BY <1>2, <1>3, <1>5, <2>2, QuietLined
  <2>3. QED BY <2>1, <2>2
<1>6. CASE Play
  <2>1. ~playing
    BY <1>6 DEF Play
  <2>2. QED BY <1>2, <1>3, <1>6, <2>1, QuietLined
<1>7. CASE Throttle \/ Time \/ UNCHANGED vars
  <2>1. UNCHANGED <<playing, seq, pending, units, some, seqLast, frame, hit, cut, net, rtpData>>
    BY <1>7 DEF Throttle, Time, vars, sender, network, receiver
  <2>2. Alive' = Alive /\ hit \subseteq hit' /\ cut \subseteq cut'
    BY <2>1 DEF Alive
  <2>3. Alive' \subseteq Alive /\ \A p \in Alive : p \in Alive' \/ Noted(p)'
    BY <2>2
  <2>4. QED BY <1>2, <1>3, <2>1, <2>2, <2>3, LinedStays
<1>8. CASE Stop \/ Start \/ Miss
  <2>1. stops \in 0..setup.stops /\ setup.stops = 0 /\ running
    BY DEF IInv, ReceiverTypes, FramesInv
  <2>2. ~(stops < setup.stops)
    BY <2>1
  <2>3. QED BY <1>8, <2>1, <2>2 DEF Stop, Start, Miss
<1>9. ASSUME NEW k \in DOMAIN net, Lose(k) PROVE CostInv(f)'
  BY <1>2, <1>3, <1>9, LoseLined
<1>10. ASSUME NEW k \in DOMAIN net, Receive(k) PROVE CostInv(f)'
  <2>1. NetInRow(f)
    BY DEF OrderInv
  <2>2. \E lu2 : \E le2 \in BOOLEAN : SentLined(f, lu2, le2)' /\ FrameLined(f, lu2, le2)'
    BY <1>2, <1>10, <2>1, ReceiveLined
  <2>3. QED BY <2>2, Zenon DEF CostInv
<1>11. QED BY <1>4, <1>5, <1>6, <1>7, <1>8, <1>9, <1>10 DEF Next, Sends

\* A frame whose packets came is delivered, after one whose last packet came.
CostsOwn == \A u \in DOMAIN units : Arrived(u) /\ u - 1 \notin cut \cup UnderWay => Came(u)

LEMMA CostHolds ==
  ASSUME IInv, NEW f, CostInv(f)
  PROVE  CostsOwn
<1>1. PICK lu : \E le \in BOOLEAN : SentLined(f, lu, le) /\ FrameLined(f, lu, le)
  BY DEF CostInv
<1>2. \A u \in DOMAIN units : Arrived(u) => CutOff(f, u - 1) \/ Came(u)
  BY <1>1, Zenon DEF FrameLined
<1>3. \A u : u \notin cut \cup UnderWay => ~CutOff(f, u)
  <2>1. \A p \in Alive : p.unit \in UnderWay
    BY DEF UnderWay, Alive
  <2>2. QED BY <2>1 DEF CutOff
<1>4. QED BY <1>2, <1>3, Zenon DEF CostsOwn

\* As long as the receiver runs and the sequence numbers have not come round to the
\* first, f, a packet that is lost costs the frame it belongs to, and the next one when
\* it was the last of its frame, no more, whatever the network loses, when it overtakes
\* nothing, or not farther than the receiver waits and not across a rollover.  Losses
\* and packets that overtake may come together.
THEOREM OwnFrameLost ==
  ASSUME NEW f \in Seqs
  PROVE  Spec /\ seq = f /\ setup.stops = 0 /\ [][seq' # f]_seq /\ []Calm(f) => []CostsOwn
<1>1. Init /\ seq = f /\ setup.stops = 0 => FramesInv(f)
  BY InitFrames
<1>2. Init /\ seq = f => OrderInv(f)
  BY InitOrder
<1>3. Init /\ seq = f => CostInv(f)
  <2> SUFFICES ASSUME Init, seq = f PROVE CostInv(f)
    OBVIOUS
  <2>1. /\ pending = <<>> /\ net = <<>> /\ rtpData = <<>> /\ units = <<>> /\ ~some
        /\ currentNal = <<>> /\ ~containsMissing /\ ~framingError
    BY DEF Init
  <2>2. Alive = {}
    BY <2>1 DEF Alive
  <2>3. SentLined(f, 0, TRUE)
    <3>1. Lined(pending, Len(units)) /\ LastUnit = 0 /\ LastEnds
      BY <2>1 DEF Lined, LastUnit, LastEnds
    <3>2. Ahead(f, seq) = 0 /\ Handled(f) = 0
      <4>1. f \in Int
        BY RtpAssumption DEF Seqs
      <4>2. QED BY <2>1, <4>1 DEF Ahead, Handled
    <3>3. Known(f, Ahead(f, seq), LastUnit, LastEnds, 0, TRUE)
      BY <3>1, <3>2, Zenon DEF Known
    <3>4. \A i \in DOMAIN pending : Carried(pending[i]) = units[pending[i].unit]
      BY <2>1
    <3>5. QED BY <2>1, <2>2, <3>1, <3>3, <3>4, Zenon DEF SentLined
  <2>4. FrameLined(f, 0, TRUE)
    BY <2>1 DEF FrameLined
  <2>5. QED BY <2>3, <2>4 DEF CostInv
<1>4. IInv /\ FramesInv(f) /\ [Next]_vars /\ [seq' # f]_seq => FramesInv(f)'
  BY NextFrames
<1>5. IInv /\ FramesInv(f) /\ OrderInv(f) /\ Calm(f) /\ [Next]_vars /\ [seq' # f]_seq => OrderInv(f)'
  BY NextOrder
<1>6. IInv /\ FramesInv(f) /\ OrderInv(f) /\ Calm(f) /\ CostInv(f) /\ [Next]_vars /\ [seq' # f]_seq
        => CostInv(f)'
  BY NextCost
<1>7. IInv /\ CostInv(f) => CostsOwn
  BY CostHolds
<1>8. QED BY <1>1, <1>2, <1>3, <1>4, <1>5, <1>6, <1>7, InitIInv, NextIInv, PTL DEF Spec

\* So is what the runs check of networks that only lose, or only overtake.
THEOREM LossCostBounded ==
  ASSUME NEW f \in Seqs
  PROVE  Spec /\ seq = f /\ setup.stops = 0 /\ [][seq' # f]_seq /\ []Calm(f) => []LossCost
<1>1. CostsOwn => LossCost
  BY Zenon DEF CostsOwn, LossCost, Came
<1>2. QED BY <1>1, OwnFrameLost, PTL

=============================================================================
