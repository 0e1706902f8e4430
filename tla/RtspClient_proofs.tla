-------------------------- MODULE RtspClient_proofs --------------------------
(***************************************************************************)
(* Theorems about RtspClient, for every value of its constants.            *)
(*                                                                         *)
(* What waits for an answer is one line: the answers on their way, then    *)
(* the requests.  The timer adds to its end, the server's answer takes its *)
(* request's place, the client reads from the front.  Three invariants,    *)
(* each with those before it: Typed, that the tables and the line fit the  *)
(* state; Tidy, that sessions are kept apart and none is forgotten;        *)
(* Agreed, that the server's clock is never ahead of the client's.         *)
(***************************************************************************)
EXTENDS RtspClient, FoldTheorems, SequenceTheorems

RequestTypes == {"OPTIONS", "DESCRIBE", "SETUP", "PLAY", "TEARDOWN", "GET_PARAMETER"}
Requests == [type : RequestTypes, arg : Nat, auth : BOOLEAN]
Replies == [type : RequestTypes, arg : Nat, ok : BOOLEAN, id : Keys, content : BOOLEAN]

\* The requests that wait for their answers, oldest first: an answer takes its
\* request's place.
Bare(s) == [i \in DOMAIN s |-> [type |-> s[i].type, arg |-> s[i].arg]]
Line == Bare(back) \o Bare(wire)
Of(s, type) == {i \in DOMAIN s : s[i].type = type}
In(L, type) == {L[i].arg : i \in Of(L, type)}
Asked(type) == In(Line, type)

\* What requests and answers name: the receiver of a SETUP, or a session.
Names(c) == IF c.type = "SETUP" THEN c.arg \in Receivers \cup {0} ELSE c.arg \in 0..issued
Named == /\ \A i \in DOMAIN Line : Names(Line[i])
         /\ \A i \in DOMAIN back : back[i].id \in 0..issued
Lines == wire \in Seq(Requests) /\ back \in Seq(Replies) /\ Named

\* Nothing happens before the first connection, which only a loss ends.
Joined ==
  /\ ~alive => state = "UNKNOWN" /\ wire = <<>> /\ back = <<>> /\ DOMAIN played = {}
  /\ ~lost => (alive <=> conn = "connected")
  /\ conn # "connected" => back = <<>>

\* A session's key is its id, unless operator[] made it.
Kept ==
  /\ DOMAIN setuped \subseteq 0..issued /\ DOMAIN played \subseteq 0..issued
  /\ \A k \in DOMAIN setuped : /\ setuped[k].id = k /\ setuped[k].rtp # 0
                               /\ setuped[k].timed <=> k # 0
  /\ \A k \in DOMAIN played : played[k].timed => /\ played[k].id = k /\ k # 0
                                                 /\ played[k].rtp # 0

\* Each state waits for answers of its own kind only.
Phases ==
  /\ state \in {"UNKNOWN", "OPTIONS_WAIT"} => described = 0
  /\ state \in {"DESCRIBED", "SETUP_WAIT", "PLAY_WAIT", "PLAYED", "STREAMING"} => described > 0
  /\ Asked("DESCRIBE") # {} => state = "DESCRIBE_WAIT" /\ described = 0
  /\ Asked("SETUP") # {} => state = "SETUP_WAIT"
  /\ Asked("PLAY") # {} => state = "PLAY_WAIT"
  /\ Asked("PLAY") \subseteq DOMAIN setuped
  /\ DOMAIN setuped # {} => state \in {"SETUP_WAIT", "PLAY_WAIT"}

\* No more SETUPs than tracks: all are answered when each track has its session.
Counted == Cardinality(Of(Line, "SETUP")) + Cardinality(DOMAIN setuped) <= described

\* A DESCRIBE, or a session's PLAY, is not sent again before its answer.
Same(c, d) == /\ c.type = d.type
              /\ c.type = "DESCRIBE" \/ (c.type = "PLAY" /\ c.arg = d.arg)
OnceIn(L) == \A i, j \in DOMAIN L : Same(L[i], L[j]) => i = j
Once == OnceIn(Line)

Asking == Phases /\ Counted /\ Once

\* A session that is new to the client is not one it plays or has played.
News == {back[i].id : i \in Of(back, "SETUP")}
Olds == DOMAIN played \cup Asked("GET_PARAMETER") \cup Asked("TEARDOWN")
Exactly == "coalesce" \notin setup.faults \/ "refuse" \notin setup.faults
Apart ==
  Exactly => /\ \A k \in (DOMAIN setuped \cup News) \cap Olds : k = 0
             /\ \A k \in DOMAIN setuped \cap News : k = 0
             /\ \A i, j \in Of(back, "SETUP") : back[i].id = back[j].id /\ back[i].id # 0 => i = j
Granted == "refuse" \notin setup.faults => 0 \notin DOMAIN setuped \cup News

\* What an answer on its way says of the server's session.
Recent ==
  /\ \A i \in Of(back, "TEARDOWN") : back[i].arg \notin DOMAIN srv
  /\ \A i \in DOMAIN back : back[i].id \in DOMAIN srv => srv[back[i].id].idle = 0
  /\ \A i \in Of(back, "GET_PARAMETER") :
       back[i].arg \in DOMAIN srv => srv[back[i].arg].idle = 0
  /\ \A i \in Of(back, "PLAY") :
       back[i].arg \in DOMAIN srv => srv[back[i].arg].idle = 0 /\ srv[back[i].arg].playing

Tidy == Apart /\ Granted /\ Recent /\ NoOrphans

\* While the connection holds and no TEARDOWN's answer can be lost.
Exact == ~lost /\ ("coalesce" \notin setup.faults \/ toggles = 0)
Untoggled == toggles = 0 => asyncPlay /\ Asked("TEARDOWN") = {}

\* Between SETUP and PLAY a session is not kept alive.  It need not be: its PLAY goes
\* out with the next tick, unless a track has none and all wait for ever.
Stuck == Asked("SETUP") = {} /\ Cardinality(DOMAIN setuped) # described
Quiet == ~ticked /\ wire = <<>> /\ back = <<>>
SetupKept ==
  (Exact /\ state = "SETUP_WAIT" /\ ~Stuck) =>
    \A k \in DOMAIN setuped \ {0} :
      k \in DOMAIN srv /\ (srv[k].idle = 0 \/ (srv[k].idle <= 1 /\ Quiet))
AnswersKept ==
  Exact => \A i \in DOMAIN back : /\ back[i].id # 0
                                  /\ back[i].type = "SETUP" \/ toggles = 0
                                  => back[i].id \in DOMAIN srv
PlaysKept == Exact => \A k \in Asked("PLAY") \ {0} : k \in DOMAIN srv

\* The server has waited no longer than the client, and before its time is over a
\* keep-alive is on its way.
Alive(k) ==
  /\ k \in DOMAIN srv /\ srv[k].playing /\ srv[k].idle <= played[k].age
  /\ ticked => \/ played[k].age + 2 <= Timeout \/ srv[k].idle = 0
               \/ \E i \in Of(wire, "GET_PARAMETER") : wire[i].arg = k
PlayedKept ==
  Exact => \A k \in DOMAIN played : played[k].timed => k \in Asked("TEARDOWN") \/ Alive(k)

Agreed == Untoggled /\ SetupKept /\ AnswersKept /\ PlaysKept /\ PlayedKept

Typed == TypeOK /\ Lines /\ Joined /\ Kept /\ Asking

-----------------------------------------------------------------------------
(* The line of requests *)

Calls == [type : RequestTypes, arg : Nat]

LEMMA BareSeq ==
  ASSUME NEW s, s \in Seq(Requests) \/ s \in Seq(Replies)
  PROVE  /\ Bare(s) \in Seq(Calls) /\ Len(s) \in Nat /\ Len(Bare(s)) = Len(s)
         /\ DOMAIN s = 1..Len(s) /\ DOMAIN Bare(s) = 1..Len(s)
         /\ \A i \in 1..Len(s) : Bare(s)[i].type = s[i].type /\ Bare(s)[i].arg = s[i].arg
<1>1. PICK n \in Nat : n = Len(s) /\ DOMAIN s = 1..n
  OBVIOUS
<1>2. ASSUME NEW i \in 1..n PROVE s[i].type \in RequestTypes /\ s[i].arg \in Nat
  <2>1. s[i] \in Requests \/ s[i] \in Replies
    BY <1>1
  <2>2. QED BY <2>1 DEF Requests, Replies
<1>3. Bare(s) = [i \in 1..n |-> [type |-> s[i].type, arg |-> s[i].arg]]
  BY <1>1 DEF Bare
<1>4. \A i \in 1..n : [type |-> s[i].type, arg |-> s[i].arg] \in Calls
  BY <1>2 DEF Calls
<1>5. Bare(s) \in [1..n -> Calls]
  BY <1>3, <1>4
<1>6. Bare(s) \in Seq(Calls) /\ Len(Bare(s)) = n
  <2>1. \A f \in [1..n -> Calls] : f \in Seq(Calls) /\ Len(f) = n
    BY <1>1
  <2>2. QED BY <1>5, <2>1
<1>7. \A i \in 1..n : Bare(s)[i].type = s[i].type /\ Bare(s)[i].arg = s[i].arg
  BY <1>3
<1>8. DOMAIN Bare(s) = 1..n
  BY <1>3
<1>9. QED BY <1>1, <1>6, <1>7, <1>8

\* The elements of a line: the answers on their way, then the requests.
Parts(b, w, L, n, m) ==
  /\ L \in Seq(Calls) /\ Len(L) = n + m /\ DOMAIN L = 1..(n + m)
  /\ n \in Nat /\ m \in Nat /\ DOMAIN b = 1..n /\ DOMAIN w = 1..m
  /\ \A i \in 1..n : L[i] = Bare(b)[i] /\ L[i].type = b[i].type /\ L[i].arg = b[i].arg
  /\ \A i \in 1..m : /\ L[n + i] = Bare(w)[i]
                     /\ L[n + i].type = w[i].type /\ L[n + i].arg = w[i].arg

LEMMA LineParts ==
  ASSUME NEW b \in Seq(Replies), NEW w \in Seq(Requests), NEW L, L = Bare(b) \o Bare(w),
         NEW n, n = Len(b), NEW m, m = Len(w)
  PROVE  Parts(b, w, L, n, m)
<1>1. /\ Bare(b) \in Seq(Calls) /\ Len(Bare(b)) = n /\ n \in Nat /\ DOMAIN b = 1..n
      /\ \A i \in 1..n : Bare(b)[i].type = b[i].type /\ Bare(b)[i].arg = b[i].arg
  BY BareSeq
<1>2. /\ Bare(w) \in Seq(Calls) /\ Len(Bare(w)) = m /\ m \in Nat /\ DOMAIN w = 1..m
      /\ \A i \in 1..m : Bare(w)[i].type = w[i].type /\ Bare(w)[i].arg = w[i].arg
  BY BareSeq
<1> DEFINE B == Bare(b)
           W == Bare(w)
<1>0. /\ L = B \o W /\ B \in Seq(Calls) /\ W \in Seq(Calls) /\ Len(B) = n /\ Len(W) = m
      /\ n \in Nat /\ m \in Nat
  BY <1>1, <1>2
<1> HIDE DEF B, W
<1>3. /\ L \in Seq(Calls) /\ Len(L) = n + m
      /\ \A i \in 1..(n + m) : L[i] = IF i <= n THEN B[i] ELSE W[i - n]
  <2>1. /\ B \o W \in Seq(Calls) /\ Len(B \o W) = Len(B) + Len(W)
        /\ \A i \in 1..(Len(B) + Len(W)) :
             (B \o W)[i] = IF i <= Len(B) THEN B[i] ELSE W[i - Len(B)]
    BY <1>0, ConcatProperties, Zenon
  <2>2. QED BY <1>0, <2>1
<1>4. DOMAIN L = 1..(n + m)
  BY <1>3
<1>5. \A i \in 1..n : L[i] = B[i]
  BY <1>1, <1>2, <1>3
<1>6. ASSUME NEW i \in 1..m PROVE L[n + i] = W[i]
  <2>1. n + i \in 1..(n + m) /\ ~(n + i <= n) /\ (n + i) - n = i
    BY <1>1, <1>2
  <2>2. QED BY <1>3, <2>1
<1>7. QED BY <1>1, <1>2, <1>3, <1>4, <1>5, <1>6 DEF B, W, Parts

\* An answer takes its request's place.
LEMMA LineServed ==
  ASSUME NEW b \in Seq(Replies), NEW w \in Seq(Requests), w # <<>>, NEW x \in Replies,
         x.type = Head(w).type, x.arg = Head(w).arg
  PROVE  /\ Bare(Append(b, x)) \o Bare(Tail(w)) = Bare(b) \o Bare(w)
         /\ Append(b, x) \in Seq(Replies) /\ Tail(w) \in Seq(Requests)
<1> DEFINE L == Bare(b) \o Bare(w)
           b2 == Append(b, x)
           w2 == Tail(w)
           M == Bare(b2) \o Bare(w2)
           n == Len(b)
           m == Len(w)
<1>1. /\ b2 \in Seq(Replies) /\ Len(b2) = n + 1 /\ n \in Nat /\ b2[n + 1] = x
      /\ \A i \in 1..n : b2[i] = b[i]
  BY AppendProperties, LenProperties
<1>2. /\ w2 \in Seq(Requests) /\ Len(w2) = m - 1 /\ m \in Nat \ {0} /\ Head(w) = w[1]
      /\ \A i \in 1..(m - 1) : w2[i] = w[i + 1]
  BY HeadTailProperties, EmptySeq
<1> HIDE DEF b2, w2
<1>3. Parts(b, w, L, n, m)
  BY LineParts, Zenon
<1>4. Parts(b2, w2, M, n + 1, m - 1)
  <2> HIDE DEF n, m
  <2>1. QED BY <1>1, <1>2, LineParts, Zenon
<1> HIDE DEF n, m, L, M
<1>5. ASSUME NEW i \in 1..(n + m) PROVE M[i] = L[i]
  <2>1. CASE i <= n
    <3>1. i \in 1..n /\ i \in 1..(n + 1)
      BY <1>1, <1>2, <2>1
    <3>2. Bare(b2)[i] = Bare(b)[i]
      BY <1>1, <1>3, <1>4, <3>1 DEF Bare, Parts
    <3>3. QED BY <1>3, <1>4, <3>1, <3>2 DEF Parts
  <2>2. CASE i = n + 1
    <3>1. n + 1 \in 1..(n + 1) /\ 1 \in 1..m
      BY <1>1, <1>2
    <3>2. Bare(b2)[n + 1] = [type |-> x.type, arg |-> x.arg]
      BY <1>1, <1>3, <1>4, <3>1 DEF Bare, Parts
    <3>3. Bare(w)[1] = [type |-> x.type, arg |-> x.arg]
      BY <1>2, <1>3, <1>4, <3>1 DEF Bare, Parts
    <3>4. QED BY <1>3, <1>4, <2>2, <3>1, <3>2, <3>3 DEF Parts
  <2>3. CASE i > n + 1
    <3>1. PICK j \in 1..(m - 1) : i = (n + 1) + j
      <4>1. i - (n + 1) \in 1..(m - 1) /\ i = (n + 1) + (i - (n + 1))
        BY <1>1, <1>2, <2>3
      <4>2. QED BY <4>1
    <3>2. j + 1 \in 1..m /\ i = n + (j + 1)
      BY <1>1, <1>2, <3>1
    <3>3. Bare(w2)[j] = Bare(w)[j + 1]
      BY <1>2, <1>3, <1>4, <3>1, <3>2 DEF Bare, Parts
    <3>4. QED BY <1>3, <1>4, <3>1, <3>2, <3>3 DEF Parts
  <2>4. QED BY <1>1, <1>2, <2>1, <2>2, <2>3
<1>6. Len(M) = n + m /\ L \in Seq(Calls) /\ M \in Seq(Calls) /\ Len(L) = n + m
  BY <1>1, <1>2, <1>3, <1>4, SMTT(30) DEF Parts
<1>7. M = L
  BY <1>5, <1>6, SeqEqual
<1>8. QED BY <1>1, <1>2, <1>7 DEF L, M, b2, w2

\* Answers are read from the front.
Dropped(L, M, k) == /\ L \in Seq(Calls) /\ M \in Seq(Calls) /\ k \in 1..Len(L)
                    /\ Len(M) = Len(L) - k
                    /\ \A i \in 1..(Len(L) - k) : M[i] = L[i + k]

LEMMA LineRead ==
  ASSUME NEW b \in Seq(Replies), NEW w \in Seq(Requests), NEW k \in 1..Len(b)
  PROVE  /\ Dropped(Bare(b) \o Bare(w), Bare(SubSeq(b, k + 1, Len(b))) \o Bare(w), k)
         /\ SubSeq(b, k + 1, Len(b)) \in Seq(Replies)
         /\ Len(SubSeq(b, k + 1, Len(b))) = Len(b) - k
         /\ \A i \in 1..(Len(b) - k) : SubSeq(b, k + 1, Len(b))[i] = b[i + k]
<1> DEFINE n == Len(b)
           m == Len(w)
           b2 == SubSeq(b, k + 1, n)
           L == Bare(b) \o Bare(w)
           M == Bare(b2) \o Bare(w)
<1>1. n \in Nat /\ m \in Nat /\ k \in 1..n /\ DOMAIN b = 1..n
  BY LenProperties
<1>2. /\ b2 \in Seq(Replies) /\ Len(b2) = n - k
      /\ \A i \in 1..(n - k) : b2[i] = b[i + k]
  <2>1. k + 1 \in Int /\ n \in Int /\ \A i \in (k + 1)..n : b[i] \in Replies
    BY <1>1
  <2>2. /\ b2 \in Seq(Replies) /\ Len(b2) = IF k + 1 <= n THEN n - (k + 1) + 1 ELSE 0
        /\ \A i \in 1..(n - (k + 1) + 1) : b2[i] = b[(k + 1) + i - 1]
    BY <2>1, SubSeqProperties
  <2> HIDE DEF b2, n
  <2>3. Len(b2) = n - k
    BY <1>1, <2>2
  <2>4. n - (k + 1) + 1 = n - k /\ \A i \in 1..(n - k) : (k + 1) + i - 1 = i + k
    BY <1>1
  <2>5. QED BY <2>2, <2>3, <2>4
<1> HIDE DEF b2
<1>3. Parts(b, w, L, n, m)
  BY LineParts, Zenon
<1>4. Parts(b2, w, M, n - k, m)
  <2>1. m = Len(w)
    OBVIOUS
  <2> HIDE DEF n, m
  <2>2. QED BY <1>2, <2>1, LineParts, Zenon
<1> HIDE DEF n, m, L, M
<1>5. ASSUME NEW i \in 1..((n + m) - k) PROVE M[i] = L[i + k]
  <2>1. CASE i <= n - k
    <3>1. i \in 1..(n - k) /\ i + k \in 1..n
      BY <1>1, <2>1
    <3>2. Bare(b2)[i] = Bare(b)[i + k]
      BY <1>1, <1>2, <1>3, <1>4, <3>1 DEF Bare, Parts
    <3>3. QED BY <1>3, <1>4, <3>1, <3>2 DEF Parts
  <2>2. CASE i > n - k
    <3>1. PICK j \in 1..m : i = (n - k) + j
      <4>1. i - (n - k) \in 1..m /\ i = (n - k) + (i - (n - k))
        BY <1>1, <2>2
      <4>2. QED BY <4>1
    <3>2. i + k = n + j
      BY <1>1, <3>1
    <3>3. QED BY <1>3, <1>4, <3>1, <3>2 DEF Parts
  <2>3. QED BY <1>1, <2>1, <2>2
<1>6. Len(M) = (n + m) - k /\ k \in 1..(n + m)
  BY <1>1, <1>4 DEF Parts
<1>7. Dropped(L, M, k)
  BY <1>3, <1>4, <1>5, <1>6 DEF Dropped, Parts
<1>8. QED BY <1>2, <1>7 DEF L, M, n, b2

LEMMA OfFinite ==
  ASSUME NEW L \in Seq(Calls), NEW t
  PROVE  /\ Of(L, t) \subseteq 1..Len(L) /\ IsFiniteSet(Of(L, t)) /\ Cardinality(Of(L, t)) \in Nat
         /\ In(L, t) = {} <=> Of(L, t) = {}
         /\ In(L, t) = {} => Cardinality(Of(L, t)) = 0
<1>1. DOMAIN L = 1..Len(L) /\ Len(L) \in Nat
  BY LenProperties
<1>2. Of(L, t) \in SUBSET (1..Len(L))
  BY <1>1 DEF Of
<1>3. IsFiniteSet(Of(L, t))
  <2>1. IsFiniteSet(1..Len(L))
    BY <1>1, FS_Interval
  <2>2. QED BY <1>2, <2>1, FS_Subset, Zenon
<1>4. Cardinality(Of(L, t)) \in Nat /\ (Of(L, t) = {} => Cardinality(Of(L, t)) = 0)
  BY <1>3, FS_CardinalityType, FS_EmptySet
<1>5. In(L, t) = {} <=> Of(L, t) = {}
  BY DEF In
<1>6. QED BY <1>2, <1>3, <1>4, <1>5

\* Reading answers off the line.
LEMMA DroppedCalls ==
  ASSUME NEW L, NEW M, NEW k, Dropped(L, M, k), NEW t
  PROVE  /\ In(M, t) \subseteq In(L, t)
         /\ Cardinality(Of(M, t)) <= Cardinality(Of(L, t))
         /\ \A j \in 1..k : L[j].type = t => Cardinality(Of(M, t)) + 1 <= Cardinality(Of(L, t))
         /\ (k = 1 /\ L[1].type # t) => In(M, t) = In(L, t)
         /\ k = 1 => In(L, t) \subseteq In(M, t) \cup {L[1].arg}
<1> DEFINE n == Len(L)
           f == [i \in Of(M, t) |-> i + k]
<1>1. /\ n \in Nat /\ DOMAIN L = 1..n /\ k \in 1..n /\ DOMAIN M = 1..(n - k)
      /\ \A i \in 1..(n - k) : M[i] = L[i + k]
  BY LenProperties DEF Dropped
<1>2. /\ IsFiniteSet(Of(L, t)) /\ Cardinality(Of(L, t)) \in Nat
      /\ IsFiniteSet(Of(M, t)) /\ Cardinality(Of(M, t)) \in Nat
  BY OfFinite DEF Dropped
<1> HIDE DEF n
<1>3. ASSUME NEW i \in Of(M, t) PROVE i \in 1..(n - k) /\ i + k \in Of(L, t) /\ M[i] = L[i + k]
  <2>1. i \in 1..(n - k) /\ M[i].type = t
    BY <1>1 DEF Of
  <2>2. i + k \in 1..n
    BY <1>1, <2>1
  <2>3. QED BY <1>1, <2>1, <2>2 DEF Of
<1>4. In(M, t) \subseteq In(L, t)
  BY <1>3 DEF In
<1>5. \A S \in SUBSET Of(L, t) : (\A i \in Of(M, t) : i + k \in S) => f \in Injection(Of(M, t), S)
  <2>1. ASSUME NEW S \in SUBSET Of(L, t), \A i \in Of(M, t) : i + k \in S
        PROVE  f \in Injection(Of(M, t), S)
    <3>1. f \in [Of(M, t) -> S]
      BY <2>1
    <3>2. \A i, j \in Of(M, t) : i + k = j + k => i = j
      BY <1>1, <1>3
    <3>3. QED BY <3>1, <3>2 DEF Injection, IsInjective
  <2>2. QED BY <2>1
<1> HIDE DEF f
<1>6. Cardinality(Of(M, t)) <= Cardinality(Of(L, t))
  BY <1>2, <1>3, <1>5, FS_Injection
<1>7. ASSUME NEW j \in 1..k, L[j].type = t
      PROVE  Cardinality(Of(M, t)) + 1 <= Cardinality(Of(L, t))
  <2>1. j \in Of(L, t)
    BY <1>1, <1>7 DEF Of
  <2>2. \A i \in Of(M, t) : i + k \in Of(L, t) \ {j}
    <3>1. ASSUME NEW i \in Of(M, t) PROVE i + k # j
      BY <1>1, <1>3, <3>1
    <3>2. QED BY <1>3, <3>1
  <2>3. f \in Injection(Of(M, t), Of(L, t) \ {j})
    BY <1>5, <2>2
  <2>4. /\ IsFiniteSet(Of(L, t) \ {j})
        /\ Cardinality(Of(L, t) \ {j}) = Cardinality(Of(L, t)) - 1
    BY <1>2, <2>1, FS_RemoveElement
  <2>5. Cardinality(Of(M, t)) <= Cardinality(Of(L, t) \ {j})
    BY <2>3, <2>4, FS_Injection
  <2>6. QED BY <1>2, <2>4, <2>5
<1>8. ASSUME k = 1, NEW i \in Of(L, t), i # 1 PROVE L[i].arg \in In(M, t)
  <2>1. i \in 1..n /\ L[i].type = t
    BY <1>1 DEF Of
  <2>2. i - 1 \in 1..(n - k) /\ (i - 1) + k = i
    BY <1>1, <1>8, <2>1
  <2>3. i - 1 \in Of(M, t) /\ M[i - 1] = L[i]
    BY <1>1, <2>1, <2>2 DEF Of
  <2>4. QED BY <2>3 DEF In
<1>9. (k = 1 /\ L[1].type # t) => In(L, t) \subseteq In(M, t)
  BY <1>8 DEF In, Of
<1>10. k = 1 => In(L, t) \subseteq In(M, t) \cup {L[1].arg}
  BY <1>8 DEF In
<1>11. QED BY <1>4, <1>6, <1>7, <1>9, <1>10

LEMMA DroppedOnce ==
  ASSUME NEW L, NEW M, NEW k, Dropped(L, M, k), OnceIn(L)
  PROVE  /\ OnceIn(M)
         /\ \A j \in 1..k : L[j].type = "DESCRIBE" => In(M, "DESCRIBE") = {}
         /\ \A j \in 1..k : L[j].type = "PLAY" => L[j].arg \notin In(M, "PLAY")
<1> DEFINE n == Len(L)
<1>1. /\ n \in Nat /\ DOMAIN L = 1..n /\ k \in 1..n /\ DOMAIN M = 1..(n - k)
      /\ \A i \in 1..(n - k) : M[i] = L[i + k]
  BY LenProperties DEF Dropped
<1> HIDE DEF n
<1>2. ASSUME NEW i \in 1..(n - k) PROVE i + k \in 1..n /\ i + k \notin 1..k
  BY <1>1
<1>3. ASSUME NEW i \in 1..(n - k), NEW j \in 1..(n - k), Same(M[i], M[j]) PROVE i = j
  <2>1. i + k = j + k
    BY <1>1, <1>2, <1>3 DEF OnceIn
  <2>2. QED BY <1>1, <2>1
<1>4. ASSUME NEW j \in 1..k, NEW i \in 1..(n - k) PROVE ~Same(L[j], M[i])
  BY <1>1, <1>2 DEF OnceIn
<1>5. QED BY <1>1, <1>3, <1>4, SMTT(30) DEF OnceIn, Same, In, Of

\* Writing requests: those of the state and the keep-alives.
Grown(L, M, reqs, keep) ==
  /\ L \in Seq(Calls) /\ M \in Seq(Calls) /\ reqs \in Seq(Requests)
  /\ Len(L) \in Nat /\ Len(M) \in Nat /\ Len(L) <= Len(M) /\ \A i \in 1..Len(L) : M[i] = L[i]
  /\ \A i \in 1..Len(M) : i > Len(L) =>
       \/ /\ i - Len(L) \in DOMAIN reqs
          /\ M[i].type = reqs[i - Len(L)].type /\ M[i].arg = reqs[i - Len(L)].arg
       \/ M[i].type = "GET_PARAMETER" /\ M[i].arg \in keep

KeepsOnly(more, keep) ==
  \A i \in DOMAIN more : more[i].type = "GET_PARAMETER" /\ more[i].arg \in keep
Written(w, reqs, more, w2) == w2 = w \/ w2 = w \o reqs \o more
Extends(w, more, w2) ==
  /\ w2 \in Seq(Requests)
  /\ DOMAIN w \subseteq DOMAIN w2 /\ \A i \in DOMAIN w : w2[i] = w[i]
  /\ w2 # w => \A j \in DOMAIN more : \E i \in DOMAIN w2 : w2[i] = more[j]

LEMMA LineWritten ==
  ASSUME NEW b \in Seq(Replies), NEW w \in Seq(Requests), NEW reqs \in Seq(Requests),
         NEW more \in Seq(Requests), NEW keep, KeepsOnly(more, keep),
         NEW w2, Written(w, reqs, more, w2)
  PROVE  /\ Grown(Bare(b) \o Bare(w), Bare(b) \o Bare(w2), reqs, keep)
         /\ Extends(w, more, w2)
<1> DEFINE n == Len(b)
           m == Len(w)
           p == Len(reqs)
           q == Len(more)
           L == Bare(b) \o Bare(w)
           M == Bare(b) \o Bare(w2)
<1>1. /\ n \in Nat /\ m \in Nat /\ p \in Nat /\ q \in Nat
      /\ DOMAIN w = 1..m /\ DOMAIN reqs = 1..p /\ DOMAIN more = 1..q
  BY LenProperties
<1>2. /\ w \o reqs \in Seq(Requests) /\ Len(w \o reqs) = m + p
      /\ \A i \in 1..(m + p) : (w \o reqs)[i] = IF i <= m THEN w[i] ELSE reqs[i - m]
  BY ConcatProperties
<1> DEFINE v == w \o reqs
           u == v \o more
<1>3. /\ u \in Seq(Requests) /\ Len(u) = Len(v) + q
      /\ \A i \in 1..(Len(v) + q) : u[i] = IF i <= Len(v) THEN v[i] ELSE more[i - Len(v)]
  <2>1. v \in Seq(Requests)
    BY <1>2
  <2> HIDE DEF v
  <2>2. QED BY <2>1, ConcatProperties
<1>4. Parts(b, w, L, n, m)
  BY LineParts, Zenon
<1>5. w2 = w \/ w2 = u
  BY DEF Written
<1>6. w2 \in Seq(Requests)
  BY <1>3, <1>5
<1>7. Parts(b, w2, M, n, Len(w2))
  BY <1>6, LineParts, Zenon
<1>8. /\ v \in Seq(Requests) /\ Len(v) = m + p
      /\ \A i \in 1..(m + p) : v[i] = IF i <= m THEN w[i] ELSE reqs[i - m]
  BY <1>2
<1>9. Len(w) = m
  OBVIOUS
<1> HIDE DEF n, m, p, q, L, M, u, v
<1>10. CASE w2 = w
  <2>1. Len(w2) = m
    BY <1>9, <1>10
  <2>2. Parts(b, w, M, n, m)
    BY <1>7, <1>10, <2>1
  <2>3. /\ L \in Seq(Calls) /\ M \in Seq(Calls) /\ Len(L) = n + m /\ Len(M) = n + m
    BY <1>4, <2>2 DEF Parts
  <2>4. ASSUME NEW i \in 1..(n + m) PROVE M[i] = L[i]
    <3>1. CASE i <= n
      <4>1. i \in 1..n
        BY <1>1, <3>1
      <4>2. QED BY <1>4, <2>2, <4>1 DEF Parts
    <3>2. CASE i > n
      <4>1. i - n \in 1..m /\ i = n + (i - n)
        BY <1>1, <3>2
      <4>2. PICK j \in 1..m : i = n + j
        BY <4>1
      <4>3. QED BY <1>4, <2>2, <4>2 DEF Parts
    <3>3. QED BY <1>1, <3>1, <3>2
  <2>5. Grown(L, M, reqs, keep)
    BY <1>1, <2>3, <2>4 DEF Grown
  <2>6. QED BY <1>6, <1>10, <2>5 DEF L, M, Extends
<1>11. CASE w2 = u
  <2>1. Len(w2) = (m + p) + q /\ DOMAIN w2 = 1..((m + p) + q)
    BY <1>3, <1>6, <1>8, <1>11, LenProperties
  <2>2. /\ \A i \in 1..((m + p) + q) : u[i] = IF i <= m + p THEN v[i] ELSE more[i - (m + p)]
    BY <1>3, <1>8
  <2>3. ASSUME NEW i \in 1..m PROVE i \in 1..((m + p) + q) /\ w2[i] = w[i]
    <3>1. i \in 1..((m + p) + q) /\ i \in 1..(m + p) /\ i <= m + p /\ i <= m
      BY <1>1
    <3>2. QED BY <1>8, <1>11, <2>2, <3>1
  <2>4. ASSUME NEW i \in 1..p PROVE m + i \in 1..((m + p) + q) /\ w2[m + i] = reqs[i]
    <3>1. m + i \in 1..((m + p) + q) /\ m + i \in 1..(m + p) /\ m + i <= m + p /\ ~(m + i <= m)
          /\ (m + i) - m = i
      BY <1>1
    <3>2. QED BY <1>8, <1>11, <2>2, <3>1
  <2>5. ASSUME NEW i \in 1..q
        PROVE  (m + p) + i \in 1..((m + p) + q) /\ w2[(m + p) + i] = more[i]
    <3>1. (m + p) + i \in 1..((m + p) + q) /\ ~((m + p) + i <= m + p)
          /\ ((m + p) + i) - (m + p) = i
      BY <1>1
    <3>2. QED BY <1>11, <2>2, <3>1
  <2>6. Parts(b, w2, M, n, (m + p) + q)
    BY <1>7, <2>1
  <2>7. /\ L \in Seq(Calls) /\ M \in Seq(Calls) /\ Len(L) = n + m
        /\ Len(M) = n + ((m + p) + q)
    BY <1>4, <2>6 DEF Parts
  <2>8. ASSUME NEW i \in 1..(n + m) PROVE M[i] = L[i]
    <3>1. CASE i <= n
      <4>1. i \in 1..n
        BY <1>1, <3>1
      <4>2. QED BY <1>4, <2>6, <4>1 DEF Parts
    <3>2. CASE i > n
      <4>1. PICK j \in 1..m : i = n + j
        <5>1. i - n \in 1..m /\ i = n + (i - n)
          BY <1>1, <3>2
        <5>2. QED BY <5>1
      <4>2. j \in 1..((m + p) + q) /\ j \in DOMAIN w /\ j \in DOMAIN w2
        BY <1>1, <2>1, <2>3
      <4>3. Bare(w2)[j] = Bare(w)[j]
        BY <2>3, <4>2 DEF Bare
      <4>4. M[n + j] = Bare(w2)[j] /\ L[n + j] = Bare(w)[j]
        BY <1>4, <2>6, <4>1, <4>2 DEF Parts
      <4>5. QED BY <4>1, <4>3, <4>4
    <3>3. QED BY <1>1, <3>1, <3>2
  <2>9. ASSUME NEW i \in 1..(n + ((m + p) + q)), i > n + m
        PROVE  \/ /\ i - (n + m) \in DOMAIN reqs
                  /\ M[i].type = reqs[i - (n + m)].type /\ M[i].arg = reqs[i - (n + m)].arg
               \/ M[i].type = "GET_PARAMETER" /\ M[i].arg \in keep
    <3>1. CASE i <= n + (m + p)
      <4>1. i - (n + m) \in 1..p /\ i = n + (m + (i - (n + m)))
        BY <1>1, <2>9, <3>1
      <4>2. PICK j \in 1..p : j = i - (n + m) /\ i = n + (m + j)
        BY <4>1
      <4>3. m + j \in 1..((m + p) + q) /\ w2[m + j] = reqs[j]
        BY <2>4
      <4>4. M[i].type = reqs[j].type /\ M[i].arg = reqs[j].arg
        BY <2>6, <4>2, <4>3 DEF Parts
      <4>5. QED BY <1>1, <4>2, <4>4
    <3>2. CASE i > n + (m + p)
      <4>1. i - (n + (m + p)) \in 1..q /\ i = n + ((m + p) + (i - (n + (m + p))))
        BY <1>1, <2>9, <3>2
      <4>2. PICK j \in 1..q : i = n + ((m + p) + j)
        BY <4>1
      <4>3. (m + p) + j \in 1..((m + p) + q) /\ w2[(m + p) + j] = more[j]
        BY <2>5
      <4>4. M[i].type = more[j].type /\ M[i].arg = more[j].arg
        BY <2>6, <4>2, <4>3 DEF Parts
      <4>5. QED BY <1>1, <4>2, <4>4 DEF KeepsOnly
    <3>3. QED BY <1>1, <3>1, <3>2
  <2>10. n + m <= n + ((m + p) + q) /\ n + m \in Nat /\ n + ((m + p) + q) \in Nat
    BY <1>1
  <2>11. Grown(L, M, reqs, keep)
    BY <2>7, <2>8, <2>9, <2>10 DEF Grown
  <2>12. \A j \in DOMAIN more : \E i \in DOMAIN w2 : w2[i] = more[j]
    BY <1>1, <2>1, <2>5
  <2>13. DOMAIN w \subseteq DOMAIN w2 /\ \A i \in DOMAIN w : w2[i] = w[i]
    BY <1>1, <2>1, <2>3
  <2>14. QED BY <1>6, <2>11, <2>12, <2>13 DEF L, M, Extends
<1>12. QED BY <1>5, <1>10, <1>11

\* What is new on the line is what was written.
LEMMA GrownCalls ==
  ASSUME NEW L, NEW M, NEW reqs, NEW keep, Grown(L, M, reqs, keep), NEW t
  PROVE  /\ In(L, t) \subseteq In(M, t)
         /\ In(M, t) \subseteq In(L, t) \cup {reqs[j].arg : j \in Of(reqs, t)}
                               \cup (IF t = "GET_PARAMETER" THEN keep ELSE {})
         /\ (Of(reqs, t) = {} /\ t # "GET_PARAMETER") =>
               /\ In(M, t) = In(L, t) /\ Cardinality(Of(M, t)) = Cardinality(Of(L, t))
         /\ (In(L, t) = {} /\ t # "GET_PARAMETER") => Cardinality(Of(M, t)) <= Len(reqs)
<1> DEFINE n == Len(L)
<1>1. /\ n \in Nat /\ DOMAIN L = 1..n /\ DOMAIN M = 1..Len(M) /\ Len(M) \in Nat /\ n <= Len(M)
      /\ \A i \in 1..n : M[i] = L[i]
  BY LenProperties DEF Grown
<1>2. DOMAIN reqs = 1..Len(reqs) /\ Len(reqs) \in Nat
  BY LenProperties DEF Grown
<1>3. \A i \in 1..Len(M) : i > n =>
       \/ /\ i - n \in DOMAIN reqs
          /\ M[i].type = reqs[i - n].type /\ M[i].arg = reqs[i - n].arg
       \/ M[i].type = "GET_PARAMETER" /\ M[i].arg \in keep
  BY DEF Grown
<1>4. /\ IsFiniteSet(Of(L, t)) /\ Cardinality(Of(L, t)) \in Nat
      /\ IsFiniteSet(Of(M, t)) /\ Cardinality(Of(M, t)) \in Nat
      /\ In(L, t) = {} => Of(L, t) = {}
  BY OfFinite DEF Grown
<1> HIDE DEF n
<1>5. \A i \in 1..n : i \in 1..Len(M)
  BY <1>1
<1>6. Of(L, t) \subseteq Of(M, t)
  BY <1>1, <1>5 DEF Of
<1>7. In(L, t) \subseteq In(M, t)
  BY <1>1, <1>5 DEF Of, In
<1>8. ASSUME NEW i \in Of(M, t), i \notin Of(L, t)
      PROVE  i \in 1..Len(M) /\ i > n /\ M[i].type = t
  BY <1>1, <1>8 DEF Of
<1>9. ASSUME NEW i \in Of(M, t), i \notin Of(L, t), t # "GET_PARAMETER"
      PROVE  i - n \in Of(reqs, t) /\ M[i].arg = reqs[i - n].arg /\ i \in (n + 1)..(n + Len(reqs))
  <2>1. i \in 1..Len(M) /\ i > n /\ M[i].type = t
    BY <1>8, <1>9
  <2>2. i - n \in DOMAIN reqs /\ reqs[i - n].type = t /\ M[i].arg = reqs[i - n].arg
    BY <1>3, <1>9, <2>1
  <2>3. i \in (n + 1)..(n + Len(reqs))
    BY <1>1, <1>2, <2>1, <2>2
  <2>4. QED BY <2>2, <2>3 DEF Of
<1>10. ASSUME NEW i \in Of(M, t), i \notin Of(L, t), t = "GET_PARAMETER"
       PROVE  M[i].arg \in keep \cup {reqs[j].arg : j \in Of(reqs, t)}
  BY <1>3, <1>8, <1>10 DEF Of
<1>11. \A i \in Of(L, t) : M[i].arg = L[i].arg
  BY <1>1 DEF Of
<1>12. In(M, t) \subseteq In(L, t) \cup {reqs[j].arg : j \in Of(reqs, t)}
                             \cup (IF t = "GET_PARAMETER" THEN keep ELSE {})
  <2>1. ASSUME NEW i \in Of(M, t)
        PROVE  M[i].arg \in In(L, t) \cup {reqs[j].arg : j \in Of(reqs, t)}
                              \cup (IF t = "GET_PARAMETER" THEN keep ELSE {})
    <3>1. CASE i \in Of(L, t)
      BY <1>11, <3>1 DEF In
    <3>2. CASE i \notin Of(L, t) /\ t # "GET_PARAMETER"
      BY <1>9, <3>2
    <3>3. CASE i \notin Of(L, t) /\ t = "GET_PARAMETER"
      BY <1>10, <3>3
    <3>4. QED BY <3>1, <3>2, <3>3
  <2>2. QED BY <2>1 DEF In
<1>13. ASSUME Of(reqs, t) = {}, t # "GET_PARAMETER"
       PROVE  In(M, t) = In(L, t) /\ Cardinality(Of(M, t)) = Cardinality(Of(L, t))
  <2>1. Of(M, t) = Of(L, t)
    BY <1>6, <1>9, <1>13
  <2>2. QED BY <1>11, <2>1 DEF In
<1>14. ASSUME In(L, t) = {}, t # "GET_PARAMETER" PROVE Cardinality(Of(M, t)) <= Len(reqs)
  <2>0. Of(L, t) = {}
    BY <1>4, <1>14
  <2>a. ASSUME NEW i \in Of(M, t) PROVE i \in (n + 1)..(n + Len(reqs))
    <3>1. i \notin Of(L, t)
      BY <2>0
    <3>2. QED BY <1>9, <1>14, <3>1
  <2>1. Of(M, t) \in SUBSET ((n + 1)..(n + Len(reqs)))
    BY <2>a
  <2>2. PICK a \in Int, b \in Int : a = n + 1 /\ b = n + Len(reqs)
    BY <1>1, <1>2
  <2>3. IsFiniteSet(a..b) /\ Cardinality(a..b) = IF a > b THEN 0 ELSE b - a + 1
    BY FS_Interval
  <2>4. Cardinality(Of(M, t)) <= Cardinality(a..b)
    BY <2>1, <2>2, <2>3, FS_Subset
  <2>5. Cardinality(a..b) = Len(reqs)
    BY <1>1, <1>2, <2>2, <2>3
  <2>6. QED BY <2>4, <2>5
<1>15. QED BY <1>7, <1>12, <1>13, <1>14

LEMMA GrownOnce ==
  ASSUME NEW L, NEW M, NEW reqs, NEW keep, Grown(L, M, reqs, keep), OnceIn(L),
         \A i, j \in DOMAIN reqs : Same(reqs[i], reqs[j]) => i = j,
         \A i \in DOMAIN reqs :
           /\ reqs[i].type = "DESCRIBE" => In(L, "DESCRIBE") = {}
           /\ reqs[i].type = "PLAY" => In(L, "PLAY") = {}
  PROVE  OnceIn(M)
<1> DEFINE n == Len(L)
<1>1. /\ n \in Nat /\ DOMAIN L = 1..n /\ DOMAIN M = 1..Len(M) /\ Len(M) \in Nat /\ n <= Len(M)
      /\ \A i \in 1..n : M[i] = L[i]
  BY LenProperties DEF Grown
<1>2. DOMAIN reqs = 1..Len(reqs) /\ Len(reqs) \in Nat
  BY LenProperties DEF Grown
<1>3. \A i \in 1..Len(M) : i > n =>
       \/ /\ i - n \in DOMAIN reqs
          /\ M[i].type = reqs[i - n].type /\ M[i].arg = reqs[i - n].arg
       \/ M[i].type = "GET_PARAMETER" /\ M[i].arg \in keep
  BY DEF Grown
<1> HIDE DEF n
<1>4. ASSUME NEW i \in 1..Len(M), NEW j \in 1..Len(M), Same(M[i], M[j]), i > n PROVE j > n
  <2>1. SUFFICES ASSUME j \in 1..n PROVE FALSE
    BY <1>1
  <2>2. M[j] = L[j] /\ (M[i].type = "DESCRIBE" \/ M[i].type = "PLAY") /\ M[j].type = M[i].type
    BY <1>1, <1>4, <2>1 DEF Same
  <2>3. i - n \in DOMAIN reqs /\ M[i].type = reqs[i - n].type
    BY <1>3, <1>4, <2>2
  <2>4. L[j].arg \in In(L, M[i].type)
    BY <1>1, <2>1, <2>2 DEF In, Of
  <2>5. QED BY <2>2, <2>3, <2>4
<1>5. \A c, d : Same(c, d) => Same(d, c)
  BY DEF Same
<1>6. ASSUME NEW i \in 1..Len(M), NEW j \in 1..Len(M), Same(M[i], M[j]) PROVE i = j
  <2>1. CASE i > n
    <3>1. j > n
      BY <1>4, <1>6, <2>1
    <3>2. /\ M[i].type = "DESCRIBE" \/ M[i].type = "PLAY"
          /\ M[j].type = M[i].type
      BY <1>6 DEF Same
    <3>3. /\ i - n \in DOMAIN reqs /\ j - n \in DOMAIN reqs
          /\ M[i].type = reqs[i - n].type /\ M[i].arg = reqs[i - n].arg
          /\ M[j].type = reqs[j - n].type /\ M[j].arg = reqs[j - n].arg
      BY <1>3, <2>1, <3>1, <3>2
    <3>4. Same(reqs[i - n], reqs[j - n])
      BY <1>6, <3>3 DEF Same
    <3>5. i - n = j - n
      BY <3>3, <3>4
    <3>6. QED BY <1>1, <3>5
  <2>2. CASE j > n
    <3>1. i > n
      BY <1>4, <1>5, <1>6, <2>2
    <3>2. QED BY <2>1, <3>1
  <2>3. CASE ~(i > n) /\ ~(j > n)
    <3>1. i \in 1..n /\ j \in 1..n
      BY <1>1, <2>3
    <3>2. QED BY <1>1, <1>6, <3>1 DEF OnceIn
  <2>4. QED BY <2>1, <2>2, <2>3
<1>7. QED BY <1>1, <1>6 DEF OnceIn

-----------------------------------------------------------------------------
(* The requests that a tick writes *)

LEMMA ForEachRequests ==
  ASSUME auth \in BOOLEAN, NEW type \in RequestTypes, NEW keys \in SUBSET Nat, IsFiniteSet(keys)
  PROVE  /\ ForEach(type, keys) \in Seq(Requests)
         /\ \A i \in DOMAIN ForEach(type, keys) :
              ForEach(type, keys)[i].type = type /\ ForEach(type, keys)[i].arg \in keys
         /\ \A i, j \in DOMAIN ForEach(type, keys) :
              ForEach(type, keys)[i].arg = ForEach(type, keys)[j].arg => i = j
<1>1. PICK ids : /\ ids = SetToSeq(keys) /\ ids \in Seq(keys) /\ IsInjective(ids)
  BY SetInSeq
<1>2. PICK n \in Nat : n = Len(ids) /\ DOMAIN ids = 1..n
  BY <1>1
<1>3. \A i \in 1..n : ids[i] \in keys
  BY <1>1, <1>2, ElementOfSeq
<1>4. ForEach(type, keys) = [i \in 1..n |-> [type |-> type, arg |-> ids[i], auth |-> auth]]
  BY <1>1, <1>2 DEF ForEach, Request
<1>5. \A i \in 1..n : [type |-> type, arg |-> ids[i], auth |-> auth] \in Requests
  BY <1>3 DEF Requests
<1>6. ForEach(type, keys) \in [1..n -> Requests]
  BY <1>4, <1>5
<1>7. ForEach(type, keys) \in Seq(Requests)
  <2>1. \A f \in [1..n -> Requests] : f \in Seq(Requests)
    BY <1>2
  <2>2. QED BY <1>6, <2>1
<1>8. \A i \in 1..n : ForEach(type, keys)[i].type = type /\ ForEach(type, keys)[i].arg = ids[i]
  BY <1>4
<1>9. DOMAIN ForEach(type, keys) = 1..n
  BY <1>4
<1>10. \A i, j \in 1..n : ids[i] = ids[j] => i = j
  BY <1>1, <1>2 DEF IsInjective
<1>11. QED BY <1>3, <1>7, <1>8, <1>9, <1>10

LEMMA KeysFinite ==
  ASSUME NEW S \in SUBSET (0..MaxSessions)
  PROVE  IsFiniteSet(S) /\ Cardinality(S) \in Nat /\ S \in SUBSET Nat
         /\ (S = {} <=> Cardinality(S) = 0)
<1>1. MaxSessions \in Nat
  BY ClientAssumption
<1>2. IsFiniteSet(0..MaxSessions)
  BY <1>1, FS_Interval
<1>3. IsFiniteSet(S) /\ S \in SUBSET Nat
  <2>1. IsFiniteSet(S)
    BY <1>2, FS_Subset, Zenon
  <2>2. QED BY <1>1, <2>1
<1>4. QED BY <1>3, FS_CardinalityType, FS_EmptySet

\* A keep-alive for each session whose last 5 seconds have begun.
LEMMA KeepAliveRequests ==
  ASSUME auth \in BOOLEAN, Table(played), Kept
  PROVE  /\ KeepAlives \in Seq(Requests)
         /\ \A i \in DOMAIN KeepAlives : /\ KeepAlives[i].type = "GET_PARAMETER"
                                         /\ KeepAlives[i].arg \in DOMAIN played
         /\ \A k \in DueWithin(2) : \E i \in DOMAIN KeepAlives : KeepAlives[i].arg = k
<1>1. DueWithin(2) \in SUBSET (0..MaxSessions)
  BY DEF DueWithin, Table, Keys
<1>2. PICK ids : /\ ids = SetToSeq(DueWithin(2)) /\ ids \in Seq(DueWithin(2))
                 /\ Range(ids) = DueWithin(2)
  BY <1>1, KeysFinite, SetInSeq
<1>3. PICK n \in Nat : n = Len(ids) /\ DOMAIN ids = 1..n
  BY <1>2
<1>4. \A i \in 1..n : ids[i] \in DueWithin(2)
  BY <1>2, <1>3, ElementOfSeq
<1>5. \A k \in DueWithin(2) : k \in DOMAIN played /\ played[k].id = k /\ k \in Nat
  BY <1>1, KeysFinite DEF DueWithin, Kept
<1>6. KeepAlives = [i \in 1..n |-> [type |-> "GET_PARAMETER", arg |-> played[ids[i]].id,
                                    auth |-> auth]]
  BY <1>2, <1>3 DEF KeepAlives, KeepAliveFor, Request
<1>7. \A i \in 1..n : [type |-> "GET_PARAMETER", arg |-> played[ids[i]].id, auth |-> auth]
                        \in Requests
  BY <1>4, <1>5 DEF Requests, RequestTypes
<1>8. KeepAlives \in [1..n -> Requests]
  BY <1>6, <1>7
<1>9. KeepAlives \in Seq(Requests)
  <2>1. \A f \in [1..n -> Requests] : f \in Seq(Requests)
    BY <1>3
  <2>2. QED BY <1>8, <2>1
<1>10. /\ DOMAIN KeepAlives = 1..n
       /\ \A i \in 1..n : KeepAlives[i].type = "GET_PARAMETER" /\ KeepAlives[i].arg = ids[i]
  BY <1>4, <1>5, <1>6
<1>11. \A k \in DueWithin(2) : \E i \in 1..n : ids[i] = k
  BY <1>2, <1>3 DEF Range
<1>12. QED BY <1>4, <1>5, <1>9, <1>10, <1>11, SMTT(30)

\* What the loop over the tracks writes.
SetupLists == {q \in Seq(Requests) :
                 \A i \in DOMAIN q : q[i].type = "SETUP" /\ q[i].arg \in Receivers}

LEMMA AddSetupType ==
  ASSUME setup \in Setups, auth \in BOOLEAN, NEW q \in SetupLists, NEW r \in Receivers
  PROVE  /\ AddSetup(q, r) \in SetupLists /\ Len(q) \in Nat
         /\ Len(AddSetup(q, r)) \in Nat /\ Len(AddSetup(q, r)) <= Len(q) + 1
<1>1. q \in Seq(Requests) /\ \A i \in DOMAIN q : q[i].type = "SETUP" /\ q[i].arg \in Receivers
  BY DEF SetupLists
<1>2. Len(q) \in Nat /\ DOMAIN q = 1..Len(q)
  BY <1>1, LenProperties
<1>3. CASE r = 0
  BY <1>2, <1>3 DEF AddSetup
<1>4. CASE r # 0
  <2>1. PICK x : x = Request("SETUP", r)
    OBVIOUS
  <2>2. r \in Nat
    BY ClientAssumption DEF Receivers, Range, Setup
  <2>3. x \in Requests /\ x.type = "SETUP" /\ x.arg = r
    BY <2>1, <2>2 DEF Request, Requests, RequestTypes
  <2>4. /\ Append(q, x) \in Seq(Requests) /\ Len(Append(q, x)) = Len(q) + 1
        /\ \A i \in 1..Len(q) : Append(q, x)[i] = q[i]
        /\ Append(q, x)[Len(q) + 1] = x
    BY <1>1, <2>3, AppendProperties
  <2>5. DOMAIN Append(q, x) = 1..(Len(q) + 1)
    BY <2>4, LenProperties
  <2>6. ASSUME NEW i \in 1..(Len(q) + 1)
        PROVE  Append(q, x)[i].type = "SETUP" /\ Append(q, x)[i].arg \in Receivers
    <3>1. i \in 1..Len(q) \/ i = Len(q) + 1
      BY <1>2
    <3>2. QED BY <1>1, <1>2, <2>3, <2>4, <3>1
  <2>7. Append(q, x) \in SetupLists
    BY <2>4, <2>5, <2>6 DEF SetupLists
  <2>8. AddSetup(q, r) = Append(q, x)
    BY <1>4, <2>1 DEF AddSetup
  <2>9. QED BY <1>2, <2>4, <2>7, <2>8
<1>5. QED BY <1>3, <1>4

LEMMA SetupRequestsType ==
  ASSUME setup \in Setups, auth \in BOOLEAN, described = Len(setup.receivers), described > 0
  PROVE  /\ SetupRequests \in Seq(Requests) /\ Len(SetupRequests) <= described
         /\ Len(SetupRequests) \in Nat
         /\ \A i \in DOMAIN SetupRequests : /\ SetupRequests[i].type = "SETUP"
                                            /\ SetupRequests[i].arg \in Receivers \cup {0}
<1> DEFINE rs == setup.receivers
           n == Len(rs)
           b == <<>>
           F == [i \in 1..n |-> [v \in SetupLists |-> AddSetup(v, rs[i])]]
           G(g) == g = [t \in SUBSET (1..n) |->
                          IF t = {} THEN b ELSE AddSetup(g[t \ {Max(t)}], rs[Max(t)])]
           made == FoldLeft(AddSetup, b, SubSeq(rs, 1, described))
<1>0. rs \in Seq(Nat)
  BY ClientAssumption DEF Setup
<1>1. n \in Nat /\ DOMAIN rs = 1..n /\ \A i \in 1..n : rs[i] \in Receivers
  BY <1>0, LenProperties DEF Receivers, Range
<1>2. b \in SetupLists
  BY EmptySeq DEF SetupLists
<1>3. F \in [1..n -> [SetupLists -> SetupLists]]
  BY <1>1, AddSetupType
<1>4. SubSeq(rs, 1, described) = rs
  BY <1>0, SubSeqFull
<1>5. made = (CHOOSE g : g = [t \in SUBSET (DOMAIN rs) |->
               IF t = {} THEN b ELSE AddSetup(g[t \ {Max(t)}], rs[Max(t)])])[DOMAIN rs]
  BY <1>4 DEF FoldLeft, MapThenFoldSet
<1>6. made = (CHOOSE g : G(g))[1..n]
  BY <1>1, <1>5, Zenon
<1>7. \A t \in SUBSET (1..n) : t # {} => Max(t) \in 1..n
  BY <1>1, LastChooses DEF Chooses
<1> HIDE DEF n, b, rs
<1>8. ASSUME NEW i \in 1..n, NEW v \in SetupLists PROVE F[i][v] = AddSetup(v, rs[i])
  OBVIOUS
<1>9. \E g : G(g)
  <2>1. PICK g \in [SUBSET (1..n) -> SetupLists] : Folds(g, F, b, n)
    <3> HIDE DEF F
    <3>1. QED BY <1>1, <1>2, <1>3, LeftFoldExists, Zenon
  <2> HIDE DEF F
  <2>2. ASSUME NEW t \in SUBSET (1..n), t # {}
        PROVE  F[Max(t)][g[t \ {Max(t)}]] = AddSetup(g[t \ {Max(t)}], rs[Max(t)])
    <3>1. Max(t) \in 1..n /\ g[t \ {Max(t)}] \in SetupLists
      BY <1>7, <2>2
    <3>2. QED BY <1>8, <3>1
  <2>3. G(g)
    BY <2>1, <2>2, Zenon DEF Folds, G
  <2>4. QED BY <2>3
<1> HIDE DEF G, made
<1>10. PICK g : G(g) /\ made = g[1..n]
  BY <1>6, <1>9
<1> HIDE DEF F
<1>11. Follows(g, F, SetupLists, b, n)
  <2>1. \A t \in SUBSET (1..n) :
          g[t] = IF t = {} THEN b ELSE AddSetup(g[t \ {Max(t)}], rs[Max(t)])
    BY <1>10, Zenon DEF G
  <2>2. g[{}] = b
    BY <2>1
  <2>3. ASSUME NEW t \in SUBSET (1..n), t # {}, g[t \ {Max(t)}] \in SetupLists
        PROVE  g[t] = F[Max(t)][g[t \ {Max(t)}]]
    BY <1>7, <1>8, <2>1, <2>3
  <2>4. QED BY <2>2, <2>3 DEF Follows
<1>12. Steps(g, F, b, n) /\ \A k \in 0..n : g[1..k] \in SetupLists
  BY <1>1, <1>2, <1>3, <1>11, LeftFoldSteps, Zenon
<1> DEFINE T == {k \in Nat : k <= n => Len(g[1..k]) <= k}
<1>13. 0 \in T
  <2>1. g[1..0] = <<>> /\ Len(<<>>) <= 0
    BY <1>12, EmptySeq DEF Steps, b
  <2>2. QED BY <2>1
<1>14. ASSUME NEW k \in T PROVE k + 1 \in T
  <2>1. k \in Nat /\ (k <= n => Len(g[1..k]) <= k) /\ (k + 1) - 1 = k
    OBVIOUS
  <2>2. SUFFICES ASSUME k + 1 <= n PROVE Len(g[1..(k + 1)]) <= k + 1
    BY <2>1
  <2>3. k + 1 \in 0..n /\ k + 1 \in 1..n /\ k + 1 > 0 /\ k \in 0..n /\ Len(g[1..k]) <= k
    BY <1>1, <2>1, <2>2
  <2>4. g[1..(k + 1)] = F[k + 1][g[1..((k + 1) - 1)]]
    BY <1>12, <2>3 DEF Steps
  <2>5. g[1..(k + 1)] = AddSetup(g[1..k], rs[k + 1])
    BY <1>8, <1>12, <2>1, <2>3, <2>4
  <2>6. /\ Len(g[1..k]) \in Nat /\ Len(AddSetup(g[1..k], rs[k + 1])) \in Nat
        /\ Len(AddSetup(g[1..k], rs[k + 1])) <= Len(g[1..k]) + 1
    BY <1>1, <1>12, <2>3, AddSetupType
  <2>7. QED BY <2>1, <2>3, <2>5, <2>6
<1>15. T = Nat
  <2> HIDE DEF T
  <2>1. QED BY <1>13, <1>14, NatSetInduction DEF T
<1>16. Len(made) <= n /\ made \in SetupLists
  <2>1. n \in T /\ n \in 0..n
    BY <1>1, <1>15
  <2>2. QED BY <1>10, <1>12, <2>1
<1>17. /\ made \in Seq(Requests)
       /\ \A i \in DOMAIN made : made[i].type = "SETUP" /\ made[i].arg \in Receivers
  BY <1>16 DEF SetupLists
<1>18. SetupRequests = IF made = <<>> THEN <<Request("SETUP", 0)>> ELSE made
  BY DEF SetupRequests, made, rs, b
<1>19. CASE made = <<>>
  <2>1. PICK x : x = Request("SETUP", 0)
    OBVIOUS
  <2>2. x \in Requests /\ x.type = "SETUP" /\ x.arg = 0
    BY <2>1 DEF Request, Requests, RequestTypes
  <2>3. SetupRequests = <<x>>
    BY <1>18, <1>19, <2>1
  <2>4. QED BY <1>1, <2>2, <2>3
<1>20. CASE made # <<>>
  <2>1. SetupRequests = made
    BY <1>18, <1>20
  <2>2. n = described
    BY DEF n, rs
  <2>3. QED BY <1>16, <1>17, <2>1, <2>2, LenProperties
<1>21. QED BY <1>19, <1>20

-----------------------------------------------------------------------------
(* What readResponse() makes of the answers that came together *)

Chosen(rs, m, j) ==
  /\ m \in Replies /\ j \in DOMAIN rs
  /\ m.type = rs[j].type /\ m.arg = rs[j].arg /\ m.ok = rs[j].ok
  /\ rs[j].id # 0 => m.id = rs[j].id
  /\ m.id # 0 => \E i \in DOMAIN rs : rs[i].id = m.id

LEMMA MergedReply ==
  ASSUME NEW rs \in Seq(Replies), rs # <<>>
  PROVE  \E j \in DOMAIN rs : Chosen(rs, Merged(rs), j)
<1> DEFINE ends == {i \in DOMAIN rs : rs[i].content}
           first == CHOOSE i \in ends : \A k \in ends : i <= k
           J == IF ends = {} THEN Len(rs) ELSE first
<1>1. PICK n \in Nat : n = Len(rs) /\ DOMAIN rs = 1..n /\ n > 0
  <2>1. Len(rs) \in Nat /\ DOMAIN rs = 1..Len(rs) /\ Len(rs) \in Nat \ {0}
    BY EmptySeq, LenProperties
  <2>2. Len(rs) > 0
    BY <2>1
  <2>3. QED BY <2>1, <2>2
<1>2. ends # {} => first \in ends
  <2>1. ends \in SUBSET Nat
    BY <1>1
  <2> HIDE DEF ends
  <2>2. QED BY <2>1, FirstExists
<1>3. PICK j \in 1..n : j = J
  <2>1. ends \subseteq 1..n
    BY <1>1
  <2> HIDE DEF ends, first
  <2>2. CASE ends = {}
    BY <1>1, <2>2
  <2>3. CASE ends # {}
    BY <1>2, <2>1, <2>3
  <2>4. QED BY <2>2, <2>3
<1> DEFINE named == {i \in 1..J : rs[i].id # 0}
           last == CHOOSE i \in named : \A k \in named : k <= i
           id == IF named = {} THEN 0 ELSE rs[last].id
<1>4. Merged(rs) = [rs[J] EXCEPT !.id = id]
  BY DEF Merged
<1> HIDE DEF J
<1>5. named \in SUBSET (1..n) /\ named = {i \in 1..j : rs[i].id # 0}
  <2>1. named = {i \in 1..j : rs[i].id # 0}
    BY <1>3
  <2>2. {i \in 1..j : rs[i].id # 0} \subseteq 1..n
    BY <1>1
  <2>3. QED BY <2>1, <2>2
<1>6. named # {} => last \in named /\ \A k \in named : k <= last
  <2>1. \A s \in SUBSET (1..n) : s # {} => \E x \in s : \A y \in s : y <= x
    <3>1. ASSUME NEW s \in SUBSET (1..n), s # {} PROVE \E x \in s : \A y \in s : y <= x
      <4>1. PICK x \in s : \A y \in s : x >= y
        BY <1>1, <3>1, LastExists
      <4>2. \A y \in s : y <= x
        BY <4>1
      <4>3. QED BY <4>2
    <3>2. QED BY <3>1
  <2> HIDE DEF named
  <2>2. QED BY <1>5, <2>1
<1> HIDE DEF last
<1>7. /\ rs[j] \in Replies /\ \A i \in 1..n : rs[i] \in Replies
  BY <1>1, ElementOfSeq
<1>8. id \in Keys /\ (id # 0 => \E i \in 1..n : rs[i].id = id)
  <2>1. CASE named = {}
    BY <2>1, ClientAssumption DEF Keys
  <2>2. CASE named # {}
    <3>1. last \in 1..n /\ id = rs[last].id
      BY <1>5, <1>6, <2>2
    <3> HIDE DEF named, id
    <3>2. QED BY <1>7, <3>1 DEF Replies
  <2>3. QED BY <2>1, <2>2
<1>9. rs[j].id # 0 => id = rs[j].id
  <2>1. SUFFICES ASSUME rs[j].id # 0 PROVE id = rs[j].id
    OBVIOUS
  <2>0. j \in Nat /\ j \in 1..j
    BY <1>1
  <2> HIDE DEF named
  <2>2. j \in named
    BY <1>5, <2>0, <2>1
  <2>3. named # {} /\ last \in named /\ j <= last
    BY <1>6, <2>2
  <2>4. last <= j /\ last \in 1..n
    BY <1>1, <1>3, <1>5, <2>3
  <2>5. last = j
    BY <1>1, <1>3, <2>3, <2>4
  <2>6. QED BY <2>3, <2>5
<1> HIDE DEF id, named
<1>10. Merged(rs) = [rs[j] EXCEPT !.id = id]
  BY <1>3, <1>4
<1>11. /\ Merged(rs) \in Replies /\ Merged(rs).type = rs[j].type /\ Merged(rs).arg = rs[j].arg
       /\ Merged(rs).ok = rs[j].ok /\ Merged(rs).id = id
  BY <1>7, <1>8, <1>10 DEF Replies
<1>12. Chosen(rs, Merged(rs), j)
  BY <1>1, <1>3, <1>8, <1>9, <1>11 DEF Chosen
<1>13. QED BY <1>12 DEF Chosen

-----------------------------------------------------------------------------
(* What the steps do to the line *)

LEMMA LineKnown ==
  ASSUME Lines
  PROVE  /\ Parts(back, wire, Line, Len(back), Len(wire)) /\ Line \in Seq(Calls)
         /\ back \in Seq(Replies) /\ wire \in Seq(Requests)
         /\ DOMAIN back = 1..Len(back) /\ DOMAIN wire = 1..Len(wire)
         /\ Len(back) \in Nat /\ Len(wire) \in Nat
<1>1. Parts(back, wire, Line, Len(back), Len(wire))
  BY LineParts, Zenon DEF Lines, Line
<1>2. QED BY <1>1 DEF Parts, Lines

LEMMA TickLine ==
  ASSUME TypeOK, Lines, Kept, NEW to, NEW reqs \in Seq(Requests), Ticks(to, reqs)
  PROVE  /\ state' = to /\ ticked' = TRUE /\ UNCHANGED <<app, tables, link, back, server>>
         /\ wire' \in Seq(Requests) /\ Grown(Line, Line', reqs, DOMAIN played)
         /\ DOMAIN wire \subseteq DOMAIN wire' /\ \A i \in DOMAIN wire : wire'[i] = wire[i]
         /\ conn # "unconnected" => \A k \in DueWithin(2) :
              \E i \in DOMAIN wire' : wire'[i].type = "GET_PARAMETER" /\ wire'[i].arg = k
         /\ wire' = wire \/ conn # "unconnected"
<1>1. /\ state' = to /\ ticked' = TRUE /\ UNCHANGED <<app, tables, link, back, server>>
      /\ wire' = IF conn = "unconnected" THEN wire ELSE wire \o reqs \o KeepAlives
  BY DEF Ticks, Writes
<1>2. auth \in BOOLEAN /\ Table(played)
  BY Zenon DEF TypeOK
<1>3. PICK more : more = KeepAlives
  OBVIOUS
<1>4. /\ more \in Seq(Requests)
      /\ \A i \in DOMAIN more : more[i].type = "GET_PARAMETER" /\ more[i].arg \in DOMAIN played
      /\ \A k \in DueWithin(2) : \E i \in DOMAIN more : more[i].arg = k
  BY <1>2, <1>3, KeepAliveRequests
<1>5. PICK w2 : w2 = wire'
  OBVIOUS
<1>6. wire \in Seq(Requests) /\ back \in Seq(Replies)
  BY DEF Lines
<1>7. Written(wire, reqs, more, w2) /\ KeepsOnly(more, DOMAIN played)
  BY <1>1, <1>3, <1>4, <1>5 DEF Written, KeepsOnly
<1>8. /\ Grown(Bare(back) \o Bare(wire), Bare(back) \o Bare(w2), reqs, DOMAIN played)
      /\ Extends(wire, more, w2)
  BY <1>4, <1>6, <1>7, LineWritten, Zenon
<1>9. Line' = Bare(back) \o Bare(w2)
  BY <1>1, <1>5 DEF Line, Bare
<1>10. Grown(Line, Line', reqs, DOMAIN played)
  BY <1>8, <1>9 DEF Line
<1>11. ASSUME conn # "unconnected", NEW k \in DueWithin(2)
       PROVE  \E i \in DOMAIN w2 : w2[i].type = "GET_PARAMETER" /\ w2[i].arg = k
  <2>1. PICK j \in DOMAIN more : more[j].arg = k /\ more[j].type = "GET_PARAMETER"
    BY <1>4
  <2>2. w2 = wire \o reqs \o more
    BY <1>1, <1>3, <1>5, <1>11
  <2>3. Len(more) \in Nat /\ Len(wire) \in Nat /\ Len(reqs) \in Nat /\ j \in 1..Len(more)
    BY <1>4, <1>6, LenProperties
  <2>4. Len(w2) = (Len(wire) + Len(reqs)) + Len(more)
    <3>1. wire \o reqs \in Seq(Requests) /\ Len(wire \o reqs) = Len(wire) + Len(reqs)
      BY <1>6, ConcatProperties
    <3>2. PICK v : v = wire \o reqs
      OBVIOUS
    <3>3. w2 = v \o more /\ v \in Seq(Requests) /\ Len(v) = Len(wire) + Len(reqs)
      BY <2>2, <3>1, <3>2
    <3>4. Len(v \o more) = Len(v) + Len(more)
      BY <1>4, <3>3, ConcatProperties, Zenon
    <3>5. QED BY <3>3, <3>4, <2>3
  <2>5. w2 # wire
    BY <2>3, <2>4
  <2>6. \E i \in DOMAIN w2 : w2[i] = more[j]
    BY <1>8, <2>1, <2>5 DEF Extends
  <2>7. QED BY <2>1, <2>6
<1>12. QED BY <1>1, <1>5, <1>8, <1>10, <1>11 DEF Extends

LEMMA ReadLine ==
  ASSUME Lines, NEW k \in 1..Len(back), back' = SubSeq(back, k + 1, Len(back)), wire' = wire
  PROVE  /\ Dropped(Line, Line', k) /\ back' \in Seq(Replies) /\ wire' \in Seq(Requests)
         /\ DOMAIN back' = 1..(Len(back) - k)
         /\ \A i \in 1..(Len(back) - k) : i + k \in DOMAIN back /\ back'[i] = back[i + k]
<1>1. /\ back \in Seq(Replies) /\ wire \in Seq(Requests) /\ DOMAIN back = 1..Len(back)
      /\ Len(back) \in Nat
  BY LineKnown
<1>2. PICK b : b = back'
  OBVIOUS
<1>3. /\ Dropped(Bare(back) \o Bare(wire), Bare(b) \o Bare(wire), k) /\ b \in Seq(Replies)
      /\ Len(b) = Len(back) - k
      /\ \A i \in 1..(Len(back) - k) : b[i] = back[i + k]
  BY <1>1, <1>2, LineRead
<1>4. Line' = Bare(b) \o Bare(wire)
  BY <1>2 DEF Line, Bare
<1>5. Dropped(Line, Line', k)
  BY <1>3, <1>4 DEF Line
<1>6. \A i \in 1..(Len(back) - k) : i + k \in 1..Len(back)
  BY <1>1
<1>7. DOMAIN b = 1..(Len(back) - k)
  BY <1>3, LenProperties
<1>8. QED BY <1>1, <1>2, <1>3, <1>5, <1>6, <1>7

\* What was read is one of the answers, and may have the id of another.
LEMMA ReadReply ==
  ASSUME Lines, NEW k \in 1..Len(back)
  PROVE  \E j \in 1..k :
           /\ Merged(SubSeq(back, 1, k)) \in Replies
           /\ j \in DOMAIN back
           /\ Merged(SubSeq(back, 1, k)).type = Line[j].type
           /\ Merged(SubSeq(back, 1, k)).arg = Line[j].arg
           /\ Line[j].type = back[j].type /\ Line[j].arg = back[j].arg
           /\ Merged(SubSeq(back, 1, k)).ok = back[j].ok
           /\ back[j].id # 0 => Merged(SubSeq(back, 1, k)).id = back[j].id
           /\ Merged(SubSeq(back, 1, k)).id # 0 =>
                \E i \in 1..k : i \in DOMAIN back /\ back[i].id = Merged(SubSeq(back, 1, k)).id
<1>1. /\ back \in Seq(Replies) /\ wire \in Seq(Requests) /\ DOMAIN back = 1..Len(back)
      /\ Len(back) \in Nat /\ Parts(back, wire, Line, Len(back), Len(wire))
  BY LineKnown
<1>2. PICK n \in Nat : n = Len(back)
  BY <1>1
<1>3. PICK rs : rs = SubSeq(back, 1, k)
  OBVIOUS
<1>4. /\ rs \in Seq(Replies) /\ Len(rs) = k /\ \A i \in 1..k : rs[i] = back[i] /\ i \in 1..n
  <2>1. 1 \in Int /\ k \in Int /\ \A i \in 1..k : back[i] \in Replies
    BY <1>1, <1>2
  <2>2. /\ rs \in Seq(Replies) /\ Len(rs) = IF 1 <= k THEN k - 1 + 1 ELSE 0
        /\ \A i \in 1..(k - 1 + 1) : rs[i] = back[1 + i - 1]
    BY <1>3, <2>1, SubSeqProperties
  <2>3. k - 1 + 1 = k /\ 1 <= k /\ \A i \in 1..k : 1 + i - 1 = i /\ i \in 1..n
    BY <1>2
  <2>4. QED BY <2>2, <2>3
<1>5. DOMAIN rs = 1..k /\ rs # <<>>
  <2>1. DOMAIN rs = 1..k /\ 1 \in 1..k
    BY <1>2, <1>4, LenProperties
  <2>2. QED BY <1>2, <1>4, <2>1, EmptySeq
<1>6. PICK j \in 1..k : Chosen(rs, Merged(rs), j)
  BY <1>4, <1>5, MergedReply
<1>7. PICK m : m = Merged(rs)
  OBVIOUS
<1>8. /\ m \in Replies /\ m.type = rs[j].type /\ m.arg = rs[j].arg /\ m.ok = rs[j].ok
      /\ rs[j].id # 0 => m.id = rs[j].id
      /\ m.id # 0 => \E i \in 1..k : rs[i].id = m.id
  BY <1>5, <1>6, <1>7 DEF Chosen
<1>9. j \in 1..n /\ rs[j] = back[j] /\ Line[j].type = back[j].type /\ Line[j].arg = back[j].arg
  BY <1>1, <1>2, <1>4 DEF Parts
<1>10. m.id # 0 => \E i \in 1..k : i \in 1..n /\ back[i].id = m.id
  BY <1>4, <1>8
<1>11. QED BY <1>1, <1>2, <1>3, <1>7, <1>8, <1>9, <1>10

LEMMA ServeLine ==
  ASSUME Lines, wire # <<>>, NEW ok \in BOOLEAN, NEW id \in Keys, setup \in Setups, Answers(ok, id)
  PROVE  /\ Line' = Line /\ back' \in Seq(Replies) /\ wire' \in Seq(Requests)
         /\ DOMAIN back' = 1..(Len(back) + 1) /\ DOMAIN wire' = 1..(Len(wire) - 1)
         /\ \A i \in 1..Len(back) : back'[i] = back[i]
         /\ back'[Len(back) + 1].type = Head(wire).type
         /\ back'[Len(back) + 1].arg = Head(wire).arg
         /\ back'[Len(back) + 1].id = id /\ back'[Len(back) + 1].ok = ok
         /\ \A i \in 1..(Len(wire) - 1) : i + 1 \in DOMAIN wire /\ wire'[i] = wire[i + 1]
         /\ Head(wire) \in Requests /\ Head(wire) = wire[1] /\ 1 \in DOMAIN wire
         /\ Line[Len(back) + 1].type = Head(wire).type
         /\ Line[Len(back) + 1].arg = Head(wire).arg /\ Len(back) + 1 \in DOMAIN Line
         /\ Len(wire) >= 1
<1>1. /\ back \in Seq(Replies) /\ wire \in Seq(Requests) /\ DOMAIN back = 1..Len(back)
      /\ Len(back) \in Nat /\ Len(wire) \in Nat /\ DOMAIN wire = 1..Len(wire)
      /\ Parts(back, wire, Line, Len(back), Len(wire))
  BY LineKnown
<1>2. PICK n \in Nat, m \in Nat : n = Len(back) /\ m = Len(wire)
  BY <1>1
<1>3. PICK r : r = Head(wire)
  OBVIOUS
<1>4. /\ r \in Requests /\ r = wire[1] /\ m >= 1
      /\ Tail(wire) \in Seq(Requests) /\ Len(Tail(wire)) = m - 1
      /\ \A i \in 1..(m - 1) : Tail(wire)[i] = wire[i + 1]
  <2>1. m # 0
    BY <1>1, <1>2, EmptySeq
  <2>2. QED BY <1>1, <1>2, <1>3, <2>1, HeadTailProperties
<1>5. PICK x : x = [type |-> r.type, arg |-> r.arg, ok |-> ok, id |-> id,
                    content |-> ok /\ (setup.content \/ r.type = "DESCRIBE")]
  OBVIOUS
<1>6. x \in Replies /\ x.type = r.type /\ x.arg = r.arg /\ x.id = id /\ x.ok = ok
  <2>1. r.type \in RequestTypes /\ r.arg \in Nat
    BY <1>4 DEF Requests
  <2>2. (ok /\ (setup.content \/ r.type = "DESCRIBE")) \in BOOLEAN
    OBVIOUS
  <2>3. QED BY <1>5, <2>1, <2>2 DEF Replies
<1>7. wire' = Tail(wire) /\ back' = Append(back, x)
  BY <1>3, <1>5 DEF Answers
<1>8. PICK b, w : b = back' /\ w = wire'
  OBVIOUS
<1>9. Bare(b) \o Bare(w) = Bare(back) \o Bare(wire) /\ b \in Seq(Replies) /\ w \in Seq(Requests)
  BY <1>1, <1>3, <1>6, <1>7, <1>8, LineServed
<1>10. Line' = Line
  BY <1>8, <1>9 DEF Line, Bare
<1>11. /\ Len(b) = n + 1 /\ \A i \in 1..n : b[i] = back[i]
       /\ b[n + 1] = x
  BY <1>1, <1>2, <1>6, <1>7, <1>8, AppendProperties
<1>12. DOMAIN b = 1..(n + 1) /\ DOMAIN w = 1..(m - 1)
  BY <1>4, <1>7, <1>8, <1>9, <1>11, LenProperties
<1>13. \A i \in 1..(m - 1) : i + 1 \in 1..m /\ w[i] = wire[i + 1]
  BY <1>2, <1>4, <1>7, <1>8
<1>14. 1 \in 1..m /\ n + 1 \in 1..(n + m)
  BY <1>2, <1>4
<1>15. Line[n + 1].type = r.type /\ Line[n + 1].arg = r.arg /\ n + 1 \in DOMAIN Line
  BY <1>1, <1>2, <1>4, <1>14 DEF Parts
<1>16. QED
  BY <1>1, <1>2, <1>3, <1>4, <1>6, <1>8, <1>9, <1>10, <1>11, <1>12, <1>13, <1>14, <1>15

\* Nothing is left of the line when the connection is not there.
LEMMA CutLine ==
  ASSUME wire' = <<>>, back' = <<>>
  PROVE  Line' = <<>> /\ DOMAIN Line' = {} /\ \A t : Of(Line', t) = {} /\ In(Line', t) = {}
<1>1. Bare(wire)' = <<>> /\ Bare(back)' = <<>>
  BY DEF Bare
<1>2. Line' = <<>>
  BY <1>1 DEF Line
<1>3. DOMAIN Line' = {}
  BY <1>2
<1>4. QED BY <1>2, <1>3 DEF Of, In

-----------------------------------------------------------------------------
(* Every step keeps Typed: the ticks *)

LEMMA AskingNext ==
  /\ \A t : Asked(t)' = In(Line', t)
  /\ Once' <=> OnceIn(Line')
  /\ Counted' <=> Cardinality(Of(Line', "SETUP")) + Cardinality(DOMAIN setuped') <= described'
<1>1. \A t : Asked(t)' = In(Line', t)
  BY DEF Asked, In, Of
<1>2. Once' <=> OnceIn(Line')
  BY DEF Once, OnceIn, Same
<1>3. Counted' <=> Cardinality(Of(Line', "SETUP")) + Cardinality(DOMAIN setuped') <= described'
  BY DEF Counted, Of
<1>4. QED BY <1>1, <1>2, <1>3

LEMMA TickTyped ==
  ASSUME Typed, alive, NEW to \in States, NEW reqs \in Seq(Requests),
         \A j \in DOMAIN reqs : Names(reqs[j]), Ticks(to, reqs), UNCHANGED setup
  PROVE  TypeOK' /\ Lines' /\ Joined' /\ Kept'
<1>1. TypeOK /\ Lines /\ Joined /\ Kept
  BY DEF Typed
<1>2. /\ state' = to /\ ticked' = TRUE /\ UNCHANGED <<app, tables, link, back, server>>
      /\ wire' \in Seq(Requests) /\ Grown(Line, Line', reqs, DOMAIN played)
  BY <1>1, TickLine, Zenon
<1>3. /\ UNCHANGED <<setup, asyncPlay, toggles, options, auth, described, setuped, played>>
      /\ UNCHANGED <<running, crashed, conn, alive, faults, lost, back, srv, issued>>
  BY <1>2 DEF app, tables, link, server
<1>4. TypeOK'
  BY <1>1, <1>2, <1>3 DEF TypeOK, Table, Sessions, Receivers
<1>5. Kept'
  BY <1>1, <1>3 DEF Kept
<1>6. Joined'
  BY <1>1, <1>3, alive DEF Joined
<1>7. Named'
  <2>1. /\ Len(Line) \in Nat /\ Len(Line') \in Nat /\ Line' \in Seq(Calls) /\ Line \in Seq(Calls)
        /\ \A i \in 1..Len(Line) : Line'[i] = Line[i]
        /\ \A i \in 1..Len(Line') : i > Len(Line) =>
             \/ /\ i - Len(Line) \in DOMAIN reqs
                /\ Line'[i].type = reqs[i - Len(Line)].type
                /\ Line'[i].arg = reqs[i - Len(Line)].arg
             \/ Line'[i].type = "GET_PARAMETER" /\ Line'[i].arg \in DOMAIN played
    BY <1>2 DEF Grown
  <2>2. DOMAIN Line' = 1..Len(Line') /\ DOMAIN Line = 1..Len(Line)
    BY <2>1, LenProperties
  <2>3. Named
    BY <1>1 DEF Lines
  <2>4. \A c : Names(c)' <=> Names(c)
    BY <1>3 DEF Names, Receivers
  <2>5. ASSUME NEW i \in 1..Len(Line') PROVE Names(Line'[i])
    <3>1. CASE i <= Len(Line)
      <4>1. i \in 1..Len(Line)
        BY <2>1, <3>1
      <4>2. QED BY <2>1, <2>2, <2>3, <4>1 DEF Named
    <3>2. CASE i > Len(Line)
      <4>1. CASE /\ i - Len(Line) \in DOMAIN reqs
                 /\ Line'[i].type = reqs[i - Len(Line)].type
                 /\ Line'[i].arg = reqs[i - Len(Line)].arg
        BY <4>1 DEF Names
      <4>2. CASE Line'[i].type = "GET_PARAMETER" /\ Line'[i].arg \in DOMAIN played
        BY <1>1, <4>2 DEF Names, Kept
      <4>3. QED BY <2>1, <3>2, <4>1, <4>2
    <3>3. QED BY <2>1, <3>1, <3>2
  <2>6. \A i \in DOMAIN Line' : Names(Line'[i])
    BY <2>2, <2>5
  <2>7. \A i \in DOMAIN back' : back'[i].id \in 0..issued'
    BY <1>3, <2>3 DEF Named
  <2>8. QED BY <1>3, <2>6, <2>7 DEF Named, Names, Receivers
<1>8. Lines'
  BY <1>1, <1>2, <1>3, <1>7 DEF Lines
<1>9. QED BY <1>4, <1>5, <1>6, <1>8

\* A tick that asks for nothing the phases count.
LEMMA TickAsks ==
  ASSUME Typed, NEW to, NEW reqs \in Seq(Requests), Ticks(to, reqs),
         \A j \in DOMAIN reqs : reqs[j].type \notin {"DESCRIBE", "SETUP", "PLAY"}
  PROVE  /\ \A t \in {"DESCRIBE", "SETUP", "PLAY"} : Asked(t)' = Asked(t)
         /\ Once' /\ Counted'
         /\ state' = to /\ UNCHANGED <<described, setuped>>
<1>1. TypeOK /\ Lines /\ Kept /\ Asking
  BY DEF Typed
<1>2. /\ state' = to /\ UNCHANGED <<tables, link>> /\ Grown(Line, Line', reqs, DOMAIN played)
  BY <1>1, TickLine, Zenon
<1>3. state' = to /\ UNCHANGED <<described, setuped>>
  BY <1>2 DEF tables
<1>4. ASSUME NEW t \in {"DESCRIBE", "SETUP", "PLAY"}
      PROVE  In(Line', t) = In(Line, t) /\ Cardinality(Of(Line', t)) = Cardinality(Of(Line, t))
  <2>1. Of(reqs, t) = {} /\ t # "GET_PARAMETER"
    BY <1>4 DEF Of
  <2>2. QED BY <1>2, <2>1, GrownCalls
<1>5. OnceIn(Line')
  <2>1. OnceIn(Line)
    BY <1>1 DEF Asking, Once
  <2>2. /\ \A i, j \in DOMAIN reqs : Same(reqs[i], reqs[j]) => i = j
        /\ \A i \in DOMAIN reqs : reqs[i].type # "DESCRIBE" /\ reqs[i].type # "PLAY"
    BY DEF Same
  <2>3. QED BY <1>2, <2>1, <2>2, GrownOnce
<1>6. Counted'
  <2>1. Cardinality(Of(Line', "SETUP")) = Cardinality(Of(Line, "SETUP"))
    BY <1>4
  <2>2. Counted
    BY <1>1 DEF Asking
  <2>3. QED BY <1>3, <2>1, <2>2, AskingNext DEF Counted
<1>7. \A t \in {"DESCRIBE", "SETUP", "PLAY"} : Asked(t)' = Asked(t)
  BY <1>4, AskingNext DEF Asked
<1>8. QED BY <1>3, <1>5, <1>6, <1>7, AskingNext

\* The states that fit what is asked.
Admits(to) ==
  /\ to \in States
  /\ to \in {"UNKNOWN", "OPTIONS_WAIT"} => described = 0
  /\ to \in {"DESCRIBED", "SETUP_WAIT", "PLAY_WAIT", "PLAYED", "STREAMING"} => described > 0
  /\ Asked("DESCRIBE") # {} => to = "DESCRIBE_WAIT" /\ described = 0
  /\ Asked("SETUP") # {} => to = "SETUP_WAIT"
  /\ Asked("PLAY") # {} => to = "PLAY_WAIT"
  /\ DOMAIN setuped # {} => to \in {"SETUP_WAIT", "PLAY_WAIT"}

LEMMA TickQuiet ==
  ASSUME Typed, alive, NEW to, Admits(to), NEW reqs \in Seq(Requests), Ticks(to, reqs),
         \A j \in DOMAIN reqs : /\ reqs[j].type \notin {"DESCRIBE", "SETUP", "PLAY"}
                                /\ Names(reqs[j]),
         UNCHANGED setup
  PROVE  Typed'
<1>1. TypeOK' /\ Lines' /\ Joined' /\ Kept'
  BY TickTyped DEF Admits
<1>2. /\ \A t \in {"DESCRIBE", "SETUP", "PLAY"} : Asked(t)' = Asked(t)
      /\ Once' /\ Counted' /\ state' = to /\ UNCHANGED <<described, setuped>>
  BY TickAsks
<1>3. Phases
  BY DEF Typed, Asking
<1>4. /\ Asked("DESCRIBE")' = Asked("DESCRIBE") /\ Asked("SETUP")' = Asked("SETUP")
      /\ Asked("PLAY")' = Asked("PLAY")
  BY <1>2
<1>5. Phases'
  BY <1>2, <1>3, <1>4 DEF Phases, Admits
<1>6. QED BY <1>1, <1>2, <1>5 DEF Typed, Asking

LEMMA TypedTick ==
  ASSUME Typed, alive, UNCHANGED setup,
         TickUnknown \/ TickDescribed \/ TickPlayed \/ TickStreaming \/ TickTeardown \/ TickWaits
  PROVE  Typed'
<1>1. TypeOK /\ Lines /\ Kept /\ Phases /\ Asking
  BY DEF Typed, Asking
<1>2. issued \in Nat /\ auth \in BOOLEAN /\ state \in States
  <2>1. issued \in 0..MaxSessions /\ MaxSessions \in Nat
    BY <1>1, ClientAssumption DEF TypeOK
  <2>2. QED BY <1>1, <2>1 DEF TypeOK
<1>3. <<>> \in Seq(Requests) /\ \A j \in DOMAIN <<>> : FALSE
  BY EmptySeq
<1>4. ASSUME TickUnknown PROVE Typed'
  <2>1. PICK reqs : reqs = <<Request("OPTIONS", 0)>>
    OBVIOUS
  <2>2. Request("OPTIONS", 0) \in Requests
    BY <1>2 DEF Request, Requests, RequestTypes
  <2>3. reqs \in Seq(Requests) /\ DOMAIN reqs = {1} /\ reqs[1] = Request("OPTIONS", 0)
    BY <2>1, <2>2
  <2>4. \A j \in DOMAIN reqs : /\ reqs[j].type \notin {"DESCRIBE", "SETUP", "PLAY"}
                               /\ Names(reqs[j])
    BY <1>2, <2>3 DEF Request, Names
  <2>5. Ticks("OPTIONS_WAIT", reqs) /\ state = "UNKNOWN"
    BY <1>4, <2>1 DEF TickUnknown
  <2>6. Admits("OPTIONS_WAIT")
    BY <1>1, <2>5 DEF Phases, Admits, States
  <2>7. QED BY <2>3, <2>4, <2>5, <2>6, TickQuiet
<1>5. ASSUME NEW to, Ticks(to, <<>>), Admits(to) PROVE Typed'
  <2>1. PICK reqs : reqs = <<>>
    OBVIOUS
  <2>2. reqs \in Seq(Requests) /\ DOMAIN reqs = {} /\ Ticks(to, reqs)
    BY <1>3, <1>5, <2>1
  <2>3. QED BY <1>5, <2>2, TickQuiet
<1>6. ASSUME TickDescribed PROVE Typed'
  <2>1. Ticks("DESCRIBED", <<>>) /\ Admits("DESCRIBED")
    BY <1>1, <1>6 DEF TickDescribed, Phases, Admits, States
  <2>2. QED BY <1>5, <2>1
<1>7. ASSUME TickPlayed PROVE Typed'
  <2>1. Ticks("PLAYED", <<>>) /\ Admits("PLAYED")
    BY <1>1, <1>7 DEF TickPlayed, Phases, Admits, States
  <2>2. QED BY <1>5, <2>1
<1>8. ASSUME TickStreaming PROVE Typed'
  <2>1. Ticks("STREAMING", <<>>) /\ Admits("STREAMING")
    BY <1>1, <1>8 DEF TickStreaming, Phases, Admits, States
  <2>2. QED BY <1>5, <2>1
<1>9. ASSUME TickWaits PROVE Typed'
  <2>1. Ticks(state, <<>>) /\ Admits(state)
    BY <1>1, <1>2, <1>9 DEF TickWaits, Phases, Admits
  <2>2. QED BY <1>5, <2>1
<1>10. ASSUME TickTeardown PROVE Typed'
  <2>1. PICK reqs : reqs = ForEach("TEARDOWN", DOMAIN played)
    OBVIOUS
  <2>2. DOMAIN played \in SUBSET (0..MaxSessions) /\ DOMAIN played \subseteq 0..issued
    BY <1>1 DEF TypeOK, Table, Keys, Kept
  <2>3. /\ reqs \in Seq(Requests)
        /\ \A i \in DOMAIN reqs : reqs[i].type = "TEARDOWN" /\ reqs[i].arg \in DOMAIN played
    <3>1. "TEARDOWN" \in RequestTypes
      BY DEF RequestTypes
    <3>2. QED BY <1>2, <2>1, <2>2, <3>1, KeysFinite, ForEachRequests
  <2>4. \A j \in DOMAIN reqs : /\ reqs[j].type \notin {"DESCRIBE", "SETUP", "PLAY"}
                               /\ Names(reqs[j])
    BY <2>2, <2>3 DEF Names
  <2>5. Ticks("DESCRIBED", reqs) /\ Admits("DESCRIBED")
    BY <1>1, <1>10, <2>1 DEF TickTeardown, Phases, Admits, States
  <2>6. QED BY <2>3, <2>4, <2>5, TickQuiet
<1>11. QED BY <1>4, <1>6, <1>7, <1>8, <1>9, <1>10

LEMMA TypedTickDescribe ==
  ASSUME Typed, alive, UNCHANGED setup, TickDescribe
  PROVE  Typed'
<1>1. TypeOK /\ Lines /\ Kept /\ Phases /\ Counted /\ Once
  BY DEF Typed, Asking
<1>2. issued \in Nat /\ auth \in BOOLEAN
  <2>1. issued \in 0..MaxSessions /\ MaxSessions \in Nat
    BY <1>1, ClientAssumption DEF TypeOK
  <2>2. QED BY <1>1, <2>1 DEF TypeOK
<1>3. PICK reqs : reqs = <<Request("DESCRIBE", 0)>>
  OBVIOUS
<1>4. Request("DESCRIBE", 0) \in Requests
  BY <1>2 DEF Request, Requests, RequestTypes
<1>5. reqs \in Seq(Requests) /\ DOMAIN reqs = {1} /\ reqs[1] = Request("DESCRIBE", 0)
  BY <1>3, <1>4
<1>6. \A j \in DOMAIN reqs : reqs[j].type = "DESCRIBE" /\ Names(reqs[j])
  BY <1>2, <1>5 DEF Request, Names
<1>7. Ticks("DESCRIBE_WAIT", reqs) /\ state = "OPTIONS_WAIT"
  BY <1>3 DEF TickDescribe
<1>8. TypeOK' /\ Lines' /\ Joined' /\ Kept'
  BY <1>5, <1>6, <1>7, TickTyped DEF States
<1>9. /\ state' = "DESCRIBE_WAIT" /\ UNCHANGED <<tables, link>>
      /\ Grown(Line, Line', reqs, DOMAIN played)
  BY <1>1, <1>5, <1>7, TickLine, Zenon
<1>10. UNCHANGED <<described, setuped>>
  BY <1>9 DEF tables
<1>11. described = 0 /\ Asked("DESCRIBE") = {} /\ Asked("SETUP") = {} /\ Asked("PLAY") = {}
  BY <1>1, <1>7 DEF Phases
<1>12. /\ In(Line', "SETUP") = In(Line, "SETUP") /\ In(Line', "PLAY") = In(Line, "PLAY")
       /\ Cardinality(Of(Line', "SETUP")) = Cardinality(Of(Line, "SETUP"))
  <2>1. Of(reqs, "SETUP") = {} /\ Of(reqs, "PLAY") = {}
    BY <1>6 DEF Of
  <2>2. QED BY <1>9, <2>1, GrownCalls
<1>13. OnceIn(Line')
  <2>1. OnceIn(Line) /\ In(Line, "DESCRIBE") = {} /\ In(Line, "PLAY") = {}
    BY <1>1, <1>11 DEF Once, Asked
  <2>2. \A i, j \in DOMAIN reqs : Same(reqs[i], reqs[j]) => i = j
    BY <1>5
  <2>3. QED BY <1>9, <2>1, <2>2, GrownOnce
<1>14. Counted'
  BY <1>1, <1>10, <1>12, AskingNext DEF Counted
<1>15. Asked("SETUP")' = {} /\ Asked("PLAY")' = {}
  BY <1>11, <1>12, AskingNext DEF Asked
<1>16. Phases'
  BY <1>1, <1>9, <1>10, <1>11, <1>15, <1>7 DEF Phases
<1>17. QED BY <1>8, <1>13, <1>14, <1>16, AskingNext DEF Typed, Asking

LEMMA TypedTickSetup ==
  ASSUME Typed, alive, UNCHANGED setup, TickSetup
  PROVE  Typed'
<1>1. TypeOK /\ Lines /\ Kept /\ Phases /\ Counted /\ Once
  BY DEF Typed, Asking
<1>2. setup \in Setups /\ auth \in BOOLEAN /\ described \in {0, Len(setup.receivers)}
  BY <1>1 DEF TypeOK
<1>3. PICK reqs : reqs = SetupRequests
  OBVIOUS
<1>4. Ticks("SETUP_WAIT", reqs) /\ state = "DESCRIBED"
  BY <1>3 DEF TickSetup
<1>5. /\ described > 0 /\ Asked("DESCRIBE") = {} /\ Asked("SETUP") = {} /\ Asked("PLAY") = {}
      /\ DOMAIN setuped = {}
  BY <1>1, <1>4 DEF Phases
<1>6. /\ reqs \in Seq(Requests) /\ Len(reqs) <= described /\ Len(reqs) \in Nat
      /\ \A i \in DOMAIN reqs : reqs[i].type = "SETUP" /\ reqs[i].arg \in Receivers \cup {0}
  <2>1. described = Len(setup.receivers)
    BY <1>2, <1>5
  <2>2. QED BY <1>2, <1>3, <1>5, <2>1, SetupRequestsType
<1>7. \A j \in DOMAIN reqs : Names(reqs[j])
  BY <1>6 DEF Names
<1>8. TypeOK' /\ Lines' /\ Joined' /\ Kept'
  BY <1>4, <1>6, <1>7, TickTyped DEF States
<1>9. /\ state' = "SETUP_WAIT" /\ UNCHANGED <<tables, link>>
      /\ Grown(Line, Line', reqs, DOMAIN played)
  BY <1>1, <1>4, <1>6, TickLine, Zenon
<1>10. UNCHANGED <<described, setuped>>
  BY <1>9 DEF tables
<1>11. In(Line', "DESCRIBE") = In(Line, "DESCRIBE") /\ In(Line', "PLAY") = In(Line, "PLAY")
  <2>1. Of(reqs, "DESCRIBE") = {} /\ Of(reqs, "PLAY") = {}
    BY <1>6 DEF Of
  <2>2. QED BY <1>9, <2>1, GrownCalls
<1>12. Cardinality(Of(Line', "SETUP")) <= Len(reqs)
  <2>1. In(Line, "SETUP") = {}
    BY <1>5 DEF Asked
  <2>2. QED BY <1>9, <2>1, GrownCalls
<1>13. OnceIn(Line')
  <2>1. OnceIn(Line) /\ In(Line, "DESCRIBE") = {} /\ In(Line, "PLAY") = {}
    BY <1>1, <1>5 DEF Once, Asked
  <2>2. \A i, j \in DOMAIN reqs : Same(reqs[i], reqs[j]) => i = j
    BY <1>6 DEF Same
  <2>3. QED BY <1>9, <2>1, <2>2, GrownOnce
<1>14. Counted'
  <2>1. DOMAIN setuped' = {} /\ Cardinality({}) = 0
    BY <1>5, <1>10, FS_EmptySet
  <2>2. Line' \in Seq(Calls)
    BY <1>9 DEF Grown
  <2>3. Cardinality(Of(Line', "SETUP")) \in Nat /\ described \in Nat
    <3>1. Cardinality(Of(Line', "SETUP")) \in Nat
      BY <2>2, OfFinite
    <3>2. setup.receivers \in Seq(Nat)
      BY <1>2, ClientAssumption DEF Setup
    <3>3. QED BY <1>2, <3>1, <3>2, LenProperties
  <2>4. PICK c \in Nat : c = Cardinality(Of(Line', "SETUP"))
    BY <2>3
  <2>5. c + 0 <= described
    BY <1>6, <1>12, <2>3, <2>4
  <2>6. QED BY <1>10, <2>1, <2>4, <2>5, AskingNext
<1>15. Asked("DESCRIBE")' = {} /\ Asked("PLAY")' = {}
  BY <1>5, <1>11, AskingNext DEF Asked
<1>16. Phases'
  BY <1>9, <1>10, <1>5, <1>15 DEF Phases
<1>17. QED BY <1>8, <1>13, <1>14, <1>16, AskingNext DEF Typed, Asking

LEMMA TypedTickPlay ==
  ASSUME Typed, alive, UNCHANGED setup, TickPlay
  PROVE  Typed'
<1>1. TypeOK /\ Lines /\ Kept /\ Phases /\ Counted /\ Once
  BY DEF Typed, Asking
<1>2. /\ auth \in BOOLEAN /\ DOMAIN setuped \in SUBSET (0..MaxSessions)
      /\ DOMAIN setuped \subseteq 0..issued /\ setup \in Setups
      /\ described \in {0, Len(setup.receivers)}
  BY <1>1 DEF TypeOK, Table, Keys, Kept
<1>3. PICK reqs : reqs = ForEach("PLAY", DOMAIN setuped)
  OBVIOUS
<1>4. Ticks("PLAY_WAIT", reqs) /\ state = "SETUP_WAIT" /\ Cardinality(DOMAIN setuped) = described
  BY <1>3 DEF TickPlay
<1>5. /\ reqs \in Seq(Requests)
      /\ \A i \in DOMAIN reqs : reqs[i].type = "PLAY" /\ reqs[i].arg \in DOMAIN setuped
      /\ \A i, j \in DOMAIN reqs : reqs[i].arg = reqs[j].arg => i = j
  <2>1. "PLAY" \in RequestTypes
    BY DEF RequestTypes
  <2>2. IsFiniteSet(DOMAIN setuped) /\ DOMAIN setuped \in SUBSET Nat
    BY <1>2, KeysFinite
  <2>3. QED BY <1>2, <1>3, <2>1, <2>2, ForEachRequests
<1>6. /\ Cardinality(Of(Line, "SETUP")) = 0 /\ Asked("SETUP") = {}
      /\ Asked("DESCRIBE") = {} /\ Asked("PLAY") = {}
  <2>1. Line \in Seq(Calls)
    BY <1>1, LineKnown
  <2>2. IsFiniteSet(Of(Line, "SETUP")) /\ Cardinality(Of(Line, "SETUP")) \in Nat
        /\ (Asked("SETUP") = {} <=> Of(Line, "SETUP") = {})
    BY <2>1, OfFinite DEF Asked
  <2>3. described \in Nat
    <3>1. Cardinality(DOMAIN setuped) \in Nat
      BY <1>2, KeysFinite
    <3>2. QED BY <1>4, <3>1
  <2>4. PICK c \in Nat : c = Cardinality(Of(Line, "SETUP"))
    BY <2>2
  <2>5. c + described <= described
    BY <1>1, <1>4, <2>4 DEF Counted
  <2>6. c = 0
    BY <2>3, <2>4, <2>5
  <2>7. Of(Line, "SETUP") = {}
    BY <2>2, <2>4, <2>6, FS_EmptySet
  <2>8. Asked("DESCRIBE") = {} /\ Asked("PLAY") = {}
    BY <1>1, <1>4 DEF Phases
  <2>9. QED BY <2>2, <2>4, <2>6, <2>7, <2>8
<1>7. \A j \in DOMAIN reqs : Names(reqs[j])
  BY <1>2, <1>5 DEF Names
<1>8. TypeOK' /\ Lines' /\ Joined' /\ Kept'
  BY <1>4, <1>5, <1>7, TickTyped DEF States
<1>9. /\ state' = "PLAY_WAIT" /\ UNCHANGED <<tables, link>>
      /\ Grown(Line, Line', reqs, DOMAIN played)
  BY <1>1, <1>4, <1>5, TickLine, Zenon
<1>10. UNCHANGED <<described, setuped>>
  BY <1>9 DEF tables
<1>11. /\ In(Line', "DESCRIBE") = In(Line, "DESCRIBE") /\ In(Line', "SETUP") = In(Line, "SETUP")
       /\ Cardinality(Of(Line', "SETUP")) = Cardinality(Of(Line, "SETUP"))
  <2>1. Of(reqs, "DESCRIBE") = {} /\ Of(reqs, "SETUP") = {}
    BY <1>5 DEF Of
  <2>2. QED BY <1>9, <2>1, GrownCalls
<1>12. In(Line', "PLAY") \subseteq DOMAIN setuped
  <2>1. In(Line', "PLAY") \subseteq In(Line, "PLAY") \cup {reqs[j].arg : j \in Of(reqs, "PLAY")}
    BY <1>9, GrownCalls
  <2>2. In(Line, "PLAY") = {} /\ \A j \in Of(reqs, "PLAY") : reqs[j].arg \in DOMAIN setuped
    BY <1>5, <1>6 DEF Asked, Of
  <2>3. QED BY <2>1, <2>2
<1>13. OnceIn(Line')
  <2>1. OnceIn(Line) /\ In(Line, "DESCRIBE") = {} /\ In(Line, "PLAY") = {}
    BY <1>1, <1>6 DEF Once, Asked
  <2>2. \A i, j \in DOMAIN reqs : Same(reqs[i], reqs[j]) => i = j
    BY <1>5 DEF Same
  <2>3. QED BY <1>9, <2>1, <2>2, GrownOnce
<1>14. Counted'
  BY <1>1, <1>10, <1>11, AskingNext DEF Counted
<1>15. Asked("DESCRIBE")' = {} /\ Asked("SETUP")' = {} /\ Asked("PLAY")' \subseteq DOMAIN setuped'
  BY <1>6, <1>10, <1>11, <1>12, AskingNext DEF Asked
<1>16. described > 0
  BY <1>1, <1>4 DEF Phases
<1>17. Phases'
  BY <1>9, <1>10, <1>15, <1>16 DEF Phases
<1>18. QED BY <1>8, <1>13, <1>14, <1>17, AskingNext DEF Typed, Asking

-----------------------------------------------------------------------------
(* Every step keeps Typed: an answer *)

PutTable(t, k, s) ==
  /\ Table(Put(t, k, s)) /\ DOMAIN Put(t, k, s) = DOMAIN t \cup {k}
  /\ \A x \in DOMAIN Put(t, k, s) : Put(t, k, s)[x] = IF x = k THEN s ELSE t[x]
DropTable(t, k) ==
  /\ Table(Drop(t, k)) /\ DOMAIN Drop(t, k) = DOMAIN t \ {k}
  /\ \A x \in DOMAIN Drop(t, k) : Drop(t, k)[x] = t[x]

LEMMA TableOps ==
  ASSUME NEW t, Table(t), NEW k \in Keys
  PROVE  DropTable(t, k) /\ At(t, k) \in Sessions /\ \A s \in Sessions : PutTable(t, k, s)
<1>1. NoSession \in Sessions
  BY ClientAssumption DEF NoSession, Sessions, Keys
<1>2. At(t, k) \in Sessions
  BY <1>1 DEF At, Table
<1>3. ASSUME NEW s \in Sessions PROVE PutTable(t, k, s)
  <2>1. /\ DOMAIN Put(t, k, s) = DOMAIN t \cup {k}
        /\ \A x \in DOMAIN Put(t, k, s) : Put(t, k, s)[x] = IF x = k THEN s ELSE t[x]
    BY DEF Put
  <2>2. QED BY <2>1 DEF Table, PutTable
<1>4. DropTable(t, k)
  <2>1. /\ DOMAIN Drop(t, k) = DOMAIN t \ {k}
        /\ \A x \in DOMAIN Drop(t, k) : Drop(t, k)[x] = t[x]
    BY DEF Drop
  <2>2. QED BY <2>1 DEF Table, DropTable
<1>5. QED BY <1>2, <1>3, <1>4

\* The sessions that have been set up, one more and one less.
LEMMA TableSize ==
  ASSUME NEW t, Table(t), NEW k \in Keys, NEW s
  PROVE  /\ Cardinality(DOMAIN t) \in Nat
         /\ Cardinality(DOMAIN Put(t, k, s)) <= Cardinality(DOMAIN t) + 1
         /\ Cardinality(DOMAIN Drop(t, k)) <= Cardinality(DOMAIN t)
         /\ Cardinality(DOMAIN Put(t, k, s)) \in Nat /\ Cardinality(DOMAIN Drop(t, k)) \in Nat
<1>1. DOMAIN Put(t, k, s) = DOMAIN t \cup {k} /\ DOMAIN Drop(t, k) = DOMAIN t \ {k}
  BY DEF Put, Drop
<1>2. DOMAIN t \in SUBSET (0..MaxSessions) /\ k \in 0..MaxSessions
  BY DEF Table, Keys
<1>3. IsFiniteSet(DOMAIN t) /\ Cardinality(DOMAIN t) \in Nat
  BY <1>2, KeysFinite
<1>4. /\ IsFiniteSet(DOMAIN t \cup {k})
      /\ Cardinality(DOMAIN t \cup {k}) =
           IF k \in DOMAIN t THEN Cardinality(DOMAIN t) ELSE Cardinality(DOMAIN t) + 1
  BY <1>3, FS_AddElement
<1>5. /\ IsFiniteSet(DOMAIN t \ {k})
      /\ Cardinality(DOMAIN t \ {k}) =
           IF k \in DOMAIN t THEN Cardinality(DOMAIN t) - 1 ELSE Cardinality(DOMAIN t)
  BY <1>3, FS_RemoveElement
<1>6. Cardinality(DOMAIN t \ {k}) \in Nat /\ Cardinality(DOMAIN t \cup {k}) \in Nat
  BY <1>4, <1>5, FS_CardinalityType
<1>7. QED BY <1>1, <1>3, <1>4, <1>5, <1>6

\* An answer as it was read: an element of the line, with an id the server has given.
Answer(a, j, k) ==
  /\ a \in Replies /\ j \in 1..k /\ a.type = Line[j].type /\ a.arg = Line[j].arg
  /\ j \in DOMAIN back /\ a.type = back[j].type /\ a.arg = back[j].arg /\ a.ok = back[j].ok
  /\ back[j].id # 0 => a.id = back[j].id
  /\ a.id # 0 => \E i \in 1..k : i \in DOMAIN back /\ back[i].id = a.id
  /\ Names(a) /\ a.id \in 0..issued
Got(a) == \/ GotOptions(a) \/ GotDescribe(a) \/ GotSetup(a) \/ GotPlay(a)
          \/ GotTeardown(a) \/ GotKeepAlive(a) \/ GotNull(a)
Reads(a, j, k) ==
  /\ k \in 1..Len(back) /\ (k = 1 \/ "coalesce" \in setup.faults)
  /\ Answer(a, j, k) /\ Got(a) /\ Dropped(Line, Line', k)
  /\ back' \in Seq(Replies) /\ DOMAIN back' = 1..(Len(back) - k) /\ Len(back) \in Nat
  /\ \A i \in 1..(Len(back) - k) : i + k \in DOMAIN back /\ back'[i] = back[i + k]
  /\ UNCHANGED <<app, link, wire, server, ticked>>

LEMMA ReadAnswer ==
  ASSUME Lines, issued \in Nat, Read
  PROVE  \E a, j, k : Reads(a, j, k)
<1>1. PICK k \in 1..Len(back) :
        /\ k = 1 \/ "coalesce" \in setup.faults
        /\ Got(Merged(SubSeq(back, 1, k)))
        /\ back' = SubSeq(back, k + 1, Len(back))
        /\ UNCHANGED <<app, link, wire, server, ticked>>
  BY DEF Read, Got
<1>2. PICK a : a = Merged(SubSeq(back, 1, k))
  OBVIOUS
<1>3. PICK j \in 1..k :
        /\ a \in Replies /\ j \in DOMAIN back
        /\ a.type = Line[j].type /\ a.arg = Line[j].arg
        /\ Line[j].type = back[j].type /\ Line[j].arg = back[j].arg /\ a.ok = back[j].ok
        /\ back[j].id # 0 => a.id = back[j].id
        /\ a.id # 0 => \E i \in 1..k : i \in DOMAIN back /\ back[i].id = a.id
  BY <1>2, ReadReply
<1>4. /\ Dropped(Line, Line', k) /\ back' \in Seq(Replies)
      /\ DOMAIN back' = 1..(Len(back) - k)
      /\ \A i \in 1..(Len(back) - k) : i + k \in DOMAIN back /\ back'[i] = back[i + k]
  BY <1>1, ReadLine, Zenon
<1>5. Named /\ Len(back) \in Nat
  BY LineKnown DEF Lines
<1>6. Names(a)
  <2>1. j \in DOMAIN Line
    <3>1. Parts(back, wire, Line, Len(back), Len(wire)) /\ DOMAIN back = 1..Len(back)
      BY LineKnown
    <3>2. PICK n \in Nat, m \in Nat : n = Len(back) /\ m = Len(wire)
      BY <3>1 DEF Parts
    <3>3. DOMAIN Line = 1..(n + m) /\ j \in 1..n
      BY <1>3, <3>1, <3>2 DEF Parts
    <3>4. QED BY <3>3
  <2>2. QED BY <1>3, <1>5, <2>1 DEF Named, Names
<1>7. a.id \in 0..issued
  <2>1. CASE a.id = 0
    BY <2>1
  <2>2. CASE a.id # 0
    BY <1>3, <1>5, <2>2 DEF Named
  <2>3. QED BY <2>1, <2>2
<1>8. Answer(a, j, k)
  BY <1>3, <1>6, <1>7 DEF Answer
<1>9. Reads(a, j, k)
  BY <1>1, <1>2, <1>4, <1>5, <1>8 DEF Reads
<1>10. QED BY <1>9

LEMMA ReadLines ==
  ASSUME Typed, NEW a, NEW j, NEW k, Reads(a, j, k), UNCHANGED setup
  PROVE  /\ Lines'
         /\ UNCHANGED <<setup, asyncPlay, toggles, conn, alive, faults, lost>>
         /\ UNCHANGED <<wire, srv, issued, ticked>>
         /\ alive /\ conn = "connected"
         /\ \A t : Asked(t)' \subseteq Asked(t)
         /\ \A t : Cardinality(Of(Line', t)) <= Cardinality(Of(Line, t))
         /\ Cardinality(Of(Line', a.type)) + 1 <= Cardinality(Of(Line, a.type))
         /\ Once' /\ a.arg \in Asked(a.type)
         /\ a.type = "DESCRIBE" => Asked("DESCRIBE")' = {}
         /\ a.type = "PLAY" => a.arg \notin Asked("PLAY")'
         /\ Line \in Seq(Calls) /\ Line' \in Seq(Calls)
<1>1. TypeOK /\ Lines /\ Joined /\ Once
  BY DEF Typed, Asking
<1>2. /\ Dropped(Line, Line', k) /\ Answer(a, j, k) /\ back' \in Seq(Replies)
      /\ DOMAIN back' = 1..(Len(back) - k) /\ Len(back) \in Nat
      /\ \A i \in 1..(Len(back) - k) : i + k \in DOMAIN back /\ back'[i] = back[i + k]
  BY DEF Reads
<1>3. /\ UNCHANGED <<setup, asyncPlay, toggles, conn, alive, faults, lost>>
      /\ UNCHANGED <<wire, srv, issued, ticked>>
  BY DEF Reads, app, link, server
<1>4. /\ j \in 1..k /\ a.type = Line[j].type /\ a.arg = Line[j].arg /\ j \in DOMAIN back
  BY <1>2 DEF Answer
<1>5. alive /\ conn = "connected"
  <2>1. back # <<>>
    BY <1>4
  <2>2. QED BY <1>1, <2>1 DEF Joined
<1>6. /\ Line \in Seq(Calls) /\ Line' \in Seq(Calls) /\ k \in 1..Len(Line)
      /\ Len(Line') = Len(Line) - k
      /\ \A i \in 1..(Len(Line) - k) : Line'[i] = Line[i + k]
  BY <1>2 DEF Dropped
<1>7. PICK n \in Nat : n = Len(Line) /\ DOMAIN Line = 1..n /\ DOMAIN Line' = 1..(n - k)
  BY <1>6, LenProperties
<1>8. Named'
  <2>1. Named
    BY <1>1 DEF Lines
  <2>2. \A i \in 1..(n - k) : i + k \in 1..n
    BY <1>6, <1>7
  <2>3. \A i \in DOMAIN Line' : Names(Line'[i])
    BY <1>6, <1>7, <2>1, <2>2 DEF Named
  <2>4. \A i \in DOMAIN back' : back'[i].id \in 0..issued'
    BY <1>2, <1>3, <2>1 DEF Named
  <2>5. QED BY <1>3, <2>3, <2>4 DEF Named, Names, Receivers
<1>9. Lines'
  BY <1>1, <1>2, <1>3, <1>8 DEF Lines
<1>10. /\ \A t : In(Line', t) \subseteq In(Line, t)
       /\ \A t : Cardinality(Of(Line', t)) <= Cardinality(Of(Line, t))
       /\ Cardinality(Of(Line', a.type)) + 1 <= Cardinality(Of(Line, a.type))
  BY <1>2, <1>4, DroppedCalls
<1>11. \A t : Asked(t)' \subseteq Asked(t)
  BY <1>10, AskingNext DEF Asked
<1>12. /\ OnceIn(Line')
       /\ a.type = "DESCRIBE" => In(Line', "DESCRIBE") = {}
       /\ a.type = "PLAY" => a.arg \notin In(Line', "PLAY")
  <2>1. OnceIn(Line)
    BY <1>1 DEF Once
  <2>2. QED BY <1>2, <1>4, <2>1, DroppedOnce
<1>13. a.arg \in Asked(a.type)
  <2>1. j \in 1..n
    BY <1>4, <1>6, <1>7
  <2>2. QED BY <1>4, <1>7, <2>1 DEF Asked, In, Of
<1>14. QED
  BY <1>3, <1>5, <1>6, <1>9, <1>10, <1>11, <1>12, <1>13, AskingNext

LEMMA TypedRead ==
  ASSUME Typed, NEW a, NEW j, NEW k, Reads(a, j, k), ~crashed, UNCHANGED setup
  PROVE  Typed'
<1>1. TypeOK /\ Lines /\ Joined /\ Kept /\ Phases /\ Counted /\ Once
  BY DEF Typed, Asking
<1>2. /\ Lines'
      /\ UNCHANGED <<setup, asyncPlay, toggles, conn, alive, faults, lost>>
      /\ UNCHANGED <<wire, srv, issued, ticked>>
      /\ alive /\ conn = "connected"
      /\ Once' /\ a.arg \in Asked(a.type)
      /\ a.type = "DESCRIBE" => Asked("DESCRIBE")' = {}
      /\ a.type = "PLAY" => a.arg \notin Asked("PLAY")'
      /\ Line \in Seq(Calls) /\ Line' \in Seq(Calls)
  BY ReadLines
<1>3. /\ Asked("DESCRIBE")' \subseteq Asked("DESCRIBE") /\ Asked("SETUP")' \subseteq Asked("SETUP")
      /\ Asked("PLAY")' \subseteq Asked("PLAY")
  BY ReadLines
<1>4. PICK c \in Nat, d \in Nat :
        /\ c = Cardinality(Of(Line, "SETUP")) /\ d = Cardinality(Of(Line', "SETUP"))
        /\ d <= c /\ (a.type = "SETUP" => d + 1 <= c) /\ (Asked("SETUP") = {} => c = 0)
  <2>1. /\ Cardinality(Of(Line, "SETUP")) \in Nat /\ Cardinality(Of(Line', "SETUP")) \in Nat
        /\ (In(Line, "SETUP") = {} => Cardinality(Of(Line, "SETUP")) = 0)
    BY <1>2, OfFinite
  <2>2. /\ Cardinality(Of(Line', "SETUP")) <= Cardinality(Of(Line, "SETUP"))
        /\ Cardinality(Of(Line', a.type)) + 1 <= Cardinality(Of(Line, a.type))
    BY ReadLines
  <2>3. QED BY <2>1, <2>2 DEF Asked
<1>5. Joined'
  BY <1>1, <1>2 DEF Joined
<1>6. Answer(a, j, k) /\ Got(a)
  BY DEF Reads
<1>7. a \in Replies /\ Names(a) /\ a.id \in 0..issued
  BY <1>6 DEF Answer
<1>8. /\ Table(setuped) /\ Table(played) /\ running \subseteq Receivers \ {0} /\ setup \in Setups
      /\ described \in {0, Len(setup.receivers)} /\ state \in States
      /\ issued \in 0..MaxSessions /\ auth \in BOOLEAN /\ MaxSessions \in Nat
      /\ setup.receivers \in Seq(Nat)
  <2>1. Table(setuped) /\ Table(played) /\ running \subseteq Receivers \ {0} /\ setup \in Setups
        /\ described \in {0, Len(setup.receivers)} /\ state \in States
        /\ issued \in 0..MaxSessions
    BY <1>1 DEF TypeOK
  <2>2. auth \in BOOLEAN
    BY <1>1 DEF TypeOK
  <2>3. MaxSessions \in Nat /\ setup.receivers \in Seq(Nat)
    BY <2>1, ClientAssumption DEF Setup
  <2>4. QED BY <2>1, <2>2, <2>3
<1>9. 0..issued \subseteq Keys /\ issued \in Nat
  BY <1>8 DEF Keys
<1>10. described \in Nat /\ Len(setup.receivers) \in Nat
  BY <1>8, LenProperties
<1>11. PICK e \in Nat : e = Cardinality(DOMAIN setuped) /\ c + e <= described
  <2>1. Cardinality(DOMAIN setuped) \in Nat
    BY <1>8, KeysFinite DEF Table, Keys
  <2>2. QED BY <1>1, <1>4, <2>1 DEF Counted
\* What is to be shown of the tables.
<1>12. ASSUME state' \in States, {options', auth', crashed'} \subseteq BOOLEAN,
              described' \in {0, Len(setup.receivers)}, Table(setuped)', Table(played)',
              running' \subseteq Receivers \ {0}
       PROVE  TypeOK'
  <2>1. running' \subseteq Receivers' \ {0} /\ setup' \in Setups
        /\ described' \in {0, Len(setup'.receivers)}
    BY <1>2, <1>8, <1>12 DEF Receivers
  <2>2. /\ toggles' \in 0..setup'.toggles /\ faults' \in 0..setup'.times
        /\ conn' \in {"unconnected", "connecting", "connected"}
        /\ issued' \in 0..MaxSessions /\ DOMAIN srv' \subseteq 1..issued'
        /\ \A x \in DOMAIN srv' : srv'[x] \in [idle : 0..Timeout - 1, playing : BOOLEAN]
    BY <1>1, <1>2 DEF TypeOK
  <2>3. {alive', asyncPlay', lost', ticked'} \subseteq BOOLEAN
    BY <1>1, <1>2 DEF TypeOK
  <2>4. QED BY <1>12, <2>1, <2>2, <2>3 DEF TypeOK
<1>13. ASSUME DOMAIN setuped' \subseteq 0..issued, DOMAIN played' \subseteq 0..issued,
              \A x \in DOMAIN setuped' : /\ setuped'[x].id = x /\ setuped'[x].rtp # 0
                                         /\ setuped'[x].timed <=> x # 0,
              \A x \in DOMAIN played' :
                played'[x].timed => /\ played'[x].id = x /\ x # 0 /\ played'[x].rtp # 0
       PROVE  Kept'
  BY <1>2, <1>13 DEF Kept
<1>15. /\ Table(setuped') => Table(setuped)'
       /\ Table(played') => Table(played)'
  BY <1>2 DEF Table, Sessions, Receivers
<1>16. {options, auth, crashed} \subseteq BOOLEAN /\ TRUE \in BOOLEAN
  BY <1>1 DEF TypeOK
<1>17. /\ DOMAIN setuped \subseteq 0..issued /\ DOMAIN played \subseteq 0..issued
       /\ \A x \in DOMAIN setuped : /\ setuped[x].id = x /\ setuped[x].rtp # 0
                                    /\ setuped[x].timed <=> x # 0
       /\ \A x \in DOMAIN played : played[x].timed => /\ played[x].id = x /\ x # 0
                                                      /\ played[x].rtp # 0
  BY <1>1 DEF Kept
<1>18. ASSUME TypeOK', Kept', Phases', Counted' PROVE Typed'
  BY <1>2, <1>5, <1>18 DEF Typed, Asking
<1>19. ASSUME UNCHANGED <<setuped, played>>, state' \in States, running' = running,
              {options', auth', crashed'} \subseteq BOOLEAN,
              described' \in {0, Len(setup.receivers)}
       PROVE  TypeOK' /\ Kept'
  <2>1. Table(setuped') /\ Table(played')
    BY <1>8, <1>19
  <2>2. TypeOK'
    BY <1>8, <1>12, <1>15, <1>19, <2>1
  <2>3. Kept'
    BY <1>13, <1>17, <1>19
  <2>4. QED BY <2>2, <2>3
<1>20. ASSUME DOMAIN setuped' = DOMAIN setuped, described' = described PROVE Counted'
  <2>1. d + e <= described'
    BY <1>4, <1>10, <1>11, <1>20
  <2>2. QED BY <1>4, <1>11, <1>20, <2>1, AskingNext
<1>21. ASSUME state' = state, described' = described, DOMAIN setuped' = DOMAIN setuped
       PROVE  Phases'
  BY <1>1, <1>3, <1>21 DEF Phases
<1>22. CASE GotOptions(a)
  <2>1. /\ options' = TRUE
        /\ UNCHANGED <<state, auth, described, setuped, played, running, crashed>>
    BY <1>22 DEF GotOptions
  <2>2. {options', auth', crashed'} \subseteq BOOLEAN
    BY <1>16, <2>1
  <2>3. TypeOK' /\ Kept'
    BY <1>8, <1>19, <2>1, <2>2
  <2>4. QED BY <1>18, <1>20, <1>21, <2>1, <2>3
<1>23. CASE GotDescribe(a)
  <2>1. /\ a.type = "DESCRIBE"
        /\ \/ a.ok /\ described' = described + Len(setup.receivers) /\ UNCHANGED <<state, auth>>
           \/ ~a.ok /\ auth' = TRUE /\ state' = "OPTIONS_WAIT" /\ UNCHANGED described
        /\ UNCHANGED <<options, setuped, played, running, crashed>>
    BY <1>23 DEF GotDescribe
  <2>2. Asked("DESCRIBE")' = {} /\ state = "DESCRIBE_WAIT" /\ described = 0
    <3>1. Asked("DESCRIBE") # {}
      BY <1>2, <2>1
    <3>2. QED BY <1>1, <1>2, <2>1, <3>1 DEF Phases
  <2>3. {options', auth', crashed'} \subseteq BOOLEAN
    BY <1>16, <2>1
  <2>4. /\ described' \in {0, Len(setup.receivers)} /\ described' \in Nat
        /\ state' = "DESCRIBE_WAIT" \/ (state' = "OPTIONS_WAIT" /\ described' = 0)
    BY <1>10, <2>1, <2>2
  <2>5. TypeOK' /\ Kept'
    <3>1. state' \in States
      BY <2>4 DEF States
    <3>2. QED BY <1>19, <2>1, <2>3, <2>4, <3>1
  <2>6. Asked("SETUP") = {} /\ Asked("PLAY") = {} /\ DOMAIN setuped = {}
    BY <1>1, <2>2 DEF Phases
  <2>7. Phases'
    <3>1. Asked("SETUP")' = {} /\ Asked("PLAY")' = {} /\ DOMAIN setuped' = {}
      BY <1>3, <2>1, <2>6
    <3>2. QED BY <2>2, <2>4, <3>1 DEF Phases
  <2>8. Counted'
    <3>1. c = 0 /\ e = 0
      BY <1>4, <1>11, <2>6, FS_EmptySet
    <3>2. d + e <= described'
      BY <1>4, <2>4, <3>1
    <3>3. Cardinality(DOMAIN setuped') = e
      BY <1>11, <2>1
    <3>4. QED BY <1>4, <3>2, <3>3, AskingNext
  <2>9. QED BY <1>18, <2>5, <2>7, <2>8
<1>24. CASE GotSetup(a)
  <2>1. /\ a.type = "SETUP" /\ a.arg # 0
        /\ \/ /\ running' = running \cup {a.arg}
              /\ setuped' = Put(setuped, a.id, Session(a.id, a.arg))
           \/ running' = running \ {a.arg} /\ UNCHANGED setuped
        /\ UNCHANGED <<state, options, auth, described, played, crashed>>
    BY <1>24 DEF GotSetup
  <2>2. a.arg \in Receivers \ {0} /\ a.id \in Keys
    BY <1>7, <1>9, <2>1 DEF Names
  <2>3. PICK s : s = Session(a.id, a.arg)
    OBVIOUS
  <2>4. s \in Sessions /\ s.id = a.id /\ s.rtp = a.arg /\ (s.timed <=> a.id # 0)
    <3>1. s = [id |-> a.id, rtp |-> a.arg, timed |-> a.id # 0, age |-> 0]
      BY <2>3 DEF Session
    <3>2. 0 \in 0..Timeout /\ (a.id # 0) \in BOOLEAN /\ a.arg \in Receivers \cup {0}
      BY <2>2, ClientAssumption
    <3>3. s \in [id : Keys, rtp : Receivers \cup {0}, timed : BOOLEAN, age : 0..Timeout]
      BY <2>2, <3>1, <3>2, Zenon
    <3>4. QED BY <3>1, <3>3 DEF Sessions
  <2>5. /\ Table(Put(setuped, a.id, s)) /\ DOMAIN Put(setuped, a.id, s) = DOMAIN setuped \cup {a.id}
        /\ \A x \in DOMAIN Put(setuped, a.id, s) :
             Put(setuped, a.id, s)[x] = IF x = a.id THEN s ELSE setuped[x]
    <3>1. PutTable(setuped, a.id, s)
      BY <1>8, <2>2, <2>4, TableOps, Zenon
    <3>2. QED BY <3>1 DEF PutTable
  <2>6. {options', auth', crashed'} \subseteq BOOLEAN
    BY <1>16, <2>1
  <2>7. TypeOK'
    <3>1. running' \subseteq Receivers \ {0}
      BY <1>8, <2>1, <2>2
    <3>2. Table(setuped') /\ Table(played')
      BY <1>8, <2>1, <2>3, <2>5
    <3>3. QED BY <1>8, <1>12, <1>15, <2>1, <2>6, <3>1, <3>2
  <2>8. /\ DOMAIN setuped' \subseteq DOMAIN setuped \cup {a.id}
        /\ \A x \in DOMAIN setuped' : \/ setuped'[x] = s /\ x = a.id
                                      \/ x \in DOMAIN setuped /\ setuped'[x] = setuped[x]
    BY <2>1, <2>3, <2>5
  <2>9. Kept'
    <3>1. DOMAIN setuped' \subseteq 0..issued /\ DOMAIN played' \subseteq 0..issued
      BY <1>7, <1>17, <2>1, <2>8
    <3>2. \A x \in DOMAIN setuped' : /\ setuped'[x].id = x /\ setuped'[x].rtp # 0
                                     /\ setuped'[x].timed <=> x # 0
      BY <1>17, <2>1, <2>4, <2>8
    <3>3. \A x \in DOMAIN played' : played'[x].timed => /\ played'[x].id = x /\ x # 0
                                                        /\ played'[x].rtp # 0
      BY <1>17, <2>1
    <3>4. QED BY <1>13, <3>1, <3>2, <3>3
  <2>10. state = "SETUP_WAIT"
    <3>1. Asked("SETUP") # {}
      BY <1>2, <2>1
    <3>2. QED BY <1>1, <3>1 DEF Phases
  <2>11. Phases'
    <3>1. Asked("PLAY")' = {} /\ Asked("DESCRIBE")' = {}
      BY <1>1, <1>3, <2>10 DEF Phases
    <3>2. described > 0
      BY <1>1, <2>10 DEF Phases
    <3>3. QED BY <2>1, <2>10, <3>1, <3>2 DEF Phases
  <2>12. Counted'
    <3>1. Cardinality(DOMAIN setuped') \in Nat /\ Cardinality(DOMAIN setuped') <= e + 1
      <4>1. CASE setuped' = setuped
        BY <1>11, <4>1
      <4>2. CASE setuped' = Put(setuped, a.id, s)
        BY <1>8, <1>11, <2>2, <4>2, TableSize
      <4>3. QED BY <2>1, <2>3, <4>1, <4>2
    <3>2. d + 1 <= c
      BY <1>4, <2>1
    <3>3. PICK f \in Nat : f = Cardinality(DOMAIN setuped')
      BY <3>1
    <3>4. d + f <= described'
      BY <1>10, <1>11, <2>1, <3>1, <3>2, <3>3
    <3>5. QED BY <1>4, <3>3, <3>4, AskingNext
  <2>13. QED BY <1>18, <2>7, <2>9, <2>11, <2>12
<1>25. CASE GotPlay(a)
  <2>1. /\ a.type = "PLAY" /\ setuped' = Drop(setuped, a.arg)
        /\ played' = Put(played, At(setuped, a.arg).id, At(setuped, a.arg))
        /\ UNCHANGED <<state, options, auth, described, running, crashed>>
    BY <1>25 DEF GotPlay
  <2>2. a.arg \in DOMAIN setuped /\ a.arg \notin Asked("PLAY")' /\ state = "PLAY_WAIT"
    <3>1. a.arg \in Asked("PLAY")
      BY <1>2, <2>1
    <3>2. QED BY <1>1, <1>2, <2>1, <3>1 DEF Phases
  <2>3. PICK s : s = setuped[a.arg]
    OBVIOUS
  <2>4. s \in Sessions /\ s.id = a.arg /\ s.rtp # 0 /\ (s.timed <=> a.arg # 0) /\ a.arg \in Keys
    BY <1>8, <1>9, <1>17, <2>2, <2>3 DEF Table
  <2>5. played' = Put(played, a.arg, s)
    BY <2>1, <2>2, <2>3, <2>4 DEF At
  <2>6. /\ Table(Put(played, a.arg, s)) /\ DOMAIN Put(played, a.arg, s) = DOMAIN played \cup {a.arg}
        /\ \A x \in DOMAIN Put(played, a.arg, s) :
             Put(played, a.arg, s)[x] = IF x = a.arg THEN s ELSE played[x]
    <3>1. PutTable(played, a.arg, s)
      BY <1>8, <2>4, TableOps, Zenon
    <3>2. QED BY <3>1 DEF PutTable
  <2>7. /\ Table(Drop(setuped, a.arg)) /\ DOMAIN Drop(setuped, a.arg) = DOMAIN setuped \ {a.arg}
        /\ \A x \in DOMAIN Drop(setuped, a.arg) : Drop(setuped, a.arg)[x] = setuped[x]
    <3>1. DropTable(setuped, a.arg)
      BY <1>8, <2>4, TableOps, Zenon
    <3>2. QED BY <3>1 DEF DropTable
  <2>8. TypeOK'
    <3>1. {options', auth', crashed'} \subseteq BOOLEAN
      BY <1>16, <2>1
    <3>2. Table(setuped') /\ Table(played')
      BY <2>1, <2>5, <2>6, <2>7
    <3>3. QED BY <1>8, <1>12, <1>15, <2>1, <3>1, <3>2
  <2>9. Kept'
    <3>1. DOMAIN setuped' \subseteq 0..issued /\ DOMAIN played' \subseteq 0..issued
      BY <1>17, <2>1, <2>2, <2>5, <2>6, <2>7
    <3>2. \A x \in DOMAIN setuped' : /\ setuped'[x].id = x /\ setuped'[x].rtp # 0
                                     /\ setuped'[x].timed <=> x # 0
      BY <1>17, <2>1, <2>7
    <3>3. \A x \in DOMAIN played' : played'[x].timed => /\ played'[x].id = x /\ x # 0
                                                        /\ played'[x].rtp # 0
      BY <1>17, <2>4, <2>5, <2>6
    <3>4. QED BY <1>13, <3>1, <3>2, <3>3
  <2>10. Phases'
    <3>1. Asked("PLAY")' \subseteq DOMAIN setuped'
      BY <1>1, <1>3, <2>1, <2>2, <2>7 DEF Phases
    <3>2. Asked("SETUP")' = {} /\ Asked("DESCRIBE")' = {} /\ described > 0
      BY <1>1, <1>3, <2>2 DEF Phases
    <3>3. QED BY <2>1, <2>2, <3>1, <3>2 DEF Phases
  <2>11. Counted'
    <3>1. Cardinality(DOMAIN setuped') \in Nat /\ Cardinality(DOMAIN setuped') <= e
      BY <1>8, <1>11, <2>1, <2>4, TableSize
    <3>2. PICK f \in Nat : f = Cardinality(DOMAIN setuped')
      BY <3>1
    <3>3. d + f <= described'
      BY <1>4, <1>10, <1>11, <2>1, <3>1, <3>2
    <3>4. QED BY <1>4, <3>2, <3>3, AskingNext
  <2>12. QED BY <1>18, <2>8, <2>9, <2>10, <2>11
<1>26. CASE GotTeardown(a)
  <2>1. /\ a.type = "TEARDOWN" /\ running' = running \ {At(played, a.arg).rtp}
        /\ played' = Drop(played, a.arg)
        /\ UNCHANGED <<state, options, auth, described, setuped, crashed>>
    BY <1>26 DEF GotTeardown
  <2>2. a.arg \in Keys
    BY <1>7, <1>9, <2>1 DEF Names
  <2>4. /\ Table(Drop(played, a.arg)) /\ DOMAIN Drop(played, a.arg) = DOMAIN played \ {a.arg}
        /\ \A x \in DOMAIN Drop(played, a.arg) : Drop(played, a.arg)[x] = played[x]
    <3>1. DropTable(played, a.arg)
      BY <1>8, <2>2, TableOps, Zenon
    <3>2. QED BY <3>1 DEF DropTable
  <2>5. TypeOK'
    <3>1. {options', auth', crashed'} \subseteq BOOLEAN
      BY <1>16, <2>1
    <3>2. Table(setuped') /\ Table(played') /\ running' \subseteq Receivers \ {0}
      BY <1>8, <2>1, <2>4
    <3>3. QED BY <1>8, <1>12, <1>15, <2>1, <3>1, <3>2
  <2>6. Kept'
    <3>1. DOMAIN played' \subseteq DOMAIN played /\ \A x \in DOMAIN played' : played'[x] = played[x]
      BY <2>1, <2>4
    <3>2. QED BY <1>13, <1>17, <2>1, <3>1
  <2>7. QED BY <1>18, <1>20, <1>21, <2>1, <2>5, <2>6
<1>27. CASE GotKeepAlive(a)
  <2>1. /\ a.type = "GET_PARAMETER"
        /\ played' = Put(played, a.arg, [At(played, a.arg) EXCEPT !.age = 0])
        /\ UNCHANGED <<state, options, auth, described, setuped, running, crashed>>
    BY <1>27 DEF GotKeepAlive
  <2>2. a.arg \in Keys /\ a.arg \in 0..issued
    BY <1>7, <1>9, <2>1 DEF Names
  <2>4. At(played, a.arg) \in Sessions
    BY <1>8, <2>2, TableOps, Zenon
  <2>5. PICK s : s = [At(played, a.arg) EXCEPT !.age = 0]
    OBVIOUS
  <2>6. /\ s \in Sessions /\ s.id = At(played, a.arg).id /\ s.rtp = At(played, a.arg).rtp
        /\ s.timed = At(played, a.arg).timed
    BY <2>4, <2>5, ClientAssumption DEF Sessions
  <2>7. /\ Table(Put(played, a.arg, s)) /\ DOMAIN Put(played, a.arg, s) = DOMAIN played \cup {a.arg}
        /\ \A x \in DOMAIN Put(played, a.arg, s) :
             Put(played, a.arg, s)[x] = IF x = a.arg THEN s ELSE played[x]
    <3>1. PutTable(played, a.arg, s)
      BY <1>8, <2>2, <2>6, TableOps, Zenon
    <3>2. QED BY <3>1 DEF PutTable
  <2>8. TypeOK'
    <3>1. {options', auth', crashed'} \subseteq BOOLEAN
      BY <1>16, <2>1
    <3>2. Table(setuped') /\ Table(played')
      BY <1>8, <2>1, <2>5, <2>7
    <3>3. QED BY <1>8, <1>12, <1>15, <2>1, <3>1, <3>2
  <2>9. Kept'
    <3>1. DOMAIN played' \subseteq 0..issued /\ DOMAIN setuped' \subseteq 0..issued
      BY <1>17, <2>1, <2>2, <2>5, <2>7
    <3>2. s.timed => s.id = a.arg /\ a.arg # 0 /\ s.rtp # 0
      <4>1. CASE a.arg \in DOMAIN played
        BY <1>17, <2>6, <4>1 DEF At
      <4>2. CASE a.arg \notin DOMAIN played
        BY <2>6, <4>2 DEF At, NoSession
      <4>3. QED BY <4>1, <4>2
    <3>3. \A x \in DOMAIN played' : played'[x].timed => /\ played'[x].id = x /\ x # 0
                                                        /\ played'[x].rtp # 0
      <4>1. ASSUME NEW x \in DOMAIN played', played'[x].timed
            PROVE  played'[x].id = x /\ x # 0 /\ played'[x].rtp # 0
        <5>1. /\ x \in DOMAIN played \cup {a.arg}
              /\ played'[x] = IF x = a.arg THEN s ELSE played[x]
          BY <2>1, <2>5, <2>7, <4>1
        <5>2. CASE x = a.arg
          BY <3>2, <4>1, <5>1, <5>2
        <5>3. CASE x # a.arg
          BY <1>17, <4>1, <5>1, <5>3
        <5>4. QED BY <5>2, <5>3
      <4>2. QED BY <4>1
    <3>4. QED BY <1>13, <1>17, <2>1, <3>1, <3>3
  <2>10. QED BY <1>18, <1>20, <1>21, <2>1, <2>8, <2>9
<1>28. CASE GotNull(a)
  <2>1. /\ crashed' = TRUE
        /\ UNCHANGED <<state, options, auth, described, setuped, played, running>>
    BY <1>28 DEF GotNull
  <2>2. {options', auth', crashed'} \subseteq BOOLEAN
    BY <1>16, <2>1
  <2>3. TypeOK' /\ Kept'
    BY <1>8, <1>19, <2>1, <2>2
  <2>4. QED BY <1>18, <1>20, <1>21, <2>1, <2>3
<1>29. QED BY <1>6, <1>22, <1>23, <1>24, <1>25, <1>26, <1>27, <1>28 DEF Got

-----------------------------------------------------------------------------
(* Every step keeps Typed: the connection, the application, the server, the time *)

\* What the line and the tables say is the same.
LEMMA LineKept ==
  ASSUME Typed, UNCHANGED <<setup, state, described, wire, back, issued>>,
         DOMAIN setuped' = DOMAIN setuped
  PROVE  Lines' /\ Asking'
<1>1. Lines /\ Phases /\ Counted /\ Once
  BY DEF Typed, Asking
<1>2. Line' = Line
  BY DEF Line, Bare
<1>3. Lines'
  BY <1>1, <1>2 DEF Lines, Named, Names, Receivers
<1>4. \A t : Asked(t)' = Asked(t)
  BY <1>2, AskingNext DEF Asked
<1>5. Phases'
  BY <1>1, <1>4 DEF Phases
<1>6. Counted' /\ Once'
  BY <1>1, <1>2, AskingNext DEF Counted, Once
<1>7. QED BY <1>3, <1>5, <1>6 DEF Asking

LEMMA LineLost ==
  ASSUME Typed, UNCHANGED <<setup, state, tables, issued>>, wire' = <<>>, back' = <<>>
  PROVE  Lines' /\ Asking' /\ Kept'
<1>1. Phases /\ Counted /\ Kept /\ TypeOK /\ Lines
  BY DEF Typed, Asking
<1>2. UNCHANGED <<described, setuped, played>>
  BY DEF tables
<1>3. Line' = <<>> /\ DOMAIN Line' = {} /\ \A t : Of(Line', t) = {} /\ In(Line', t) = {}
  BY CutLine, Zenon
<1>4. Lines'
  BY <1>3, EmptySeq DEF Lines, Named
<1>5. \A t : Asked(t)' = {}
  BY <1>3, AskingNext
<1>6. Phases'
  BY <1>1, <1>2, <1>5 DEF Phases
<1>7. Once'
  BY <1>3, AskingNext DEF OnceIn
<1>8. Counted'
  <2>1. Cardinality(Of(Line, "SETUP")) \in Nat /\ Cardinality(DOMAIN setuped) \in Nat
    <3>1. Line \in Seq(Calls)
      BY <1>1, LineKnown
    <3>2. Table(setuped)
      BY <1>1 DEF TypeOK
    <3>3. QED BY <3>1, <3>2, OfFinite, KeysFinite DEF Table, Keys
  <2>2. described \in Nat
    <3>1. setup \in Setups /\ described \in {0, Len(setup.receivers)}
      BY <1>1 DEF TypeOK
    <3>2. setup.receivers \in Seq(Nat)
      BY <3>1, ClientAssumption DEF Setup
    <3>3. QED BY <3>1, <3>2, LenProperties
  <2>3. PICK c \in Nat, e \in Nat :
          /\ c = Cardinality(Of(Line, "SETUP")) /\ e = Cardinality(DOMAIN setuped)
          /\ c + e <= described
    BY <1>1, <2>1 DEF Counted
  <2>4. 0 + e <= described'
    BY <1>2, <2>2, <2>3
  <2>5. Cardinality(Of(Line', "SETUP")) = 0 /\ Cardinality(DOMAIN setuped') = e
    BY <1>2, <1>3, <2>3, FS_EmptySet
  <2>6. QED BY <2>4, <2>5, AskingNext
<1>9. Kept'
  BY <1>1, <1>2 DEF Kept
<1>10. QED BY <1>4, <1>6, <1>7, <1>8, <1>9 DEF Asking

\* The tables as they are.
LEMMA TypeKept ==
  ASSUME TypeOK, Kept, UNCHANGED <<setup, tables, issued>>, state' \in States,
         {alive', asyncPlay', lost', ticked'} \subseteq BOOLEAN,
         toggles' \in 0..setup.toggles, faults' \in 0..setup.times,
         conn' \in {"unconnected", "connecting", "connected"},
         DOMAIN srv' \subseteq 1..issued,
         \A k \in DOMAIN srv' : srv'[k] \in [idle : 0..Timeout - 1, playing : BOOLEAN]
  PROVE  TypeOK' /\ Kept'
<1>1. UNCHANGED <<options, auth, described, setuped, played, running, crashed>>
  BY DEF tables
<1>2. Table(setuped)' /\ Table(played)'
  BY <1>1 DEF TypeOK, Table, Sessions, Receivers
<1>3. TypeOK'
  BY <1>1, <1>2 DEF TypeOK, Receivers
<1>4. Kept'
  BY <1>1 DEF Kept
<1>5. QED BY <1>3, <1>4

LEMMA TypedLink ==
  ASSUME Typed, UNCHANGED setup,
         TickDead \/ Connected \/ ConnectFails \/ Lose \/ PlayASync \/ TeardownASync
  PROVE  Typed'
<1>1. TypeOK /\ Lines /\ Joined /\ Kept /\ Asking
  BY DEF Typed
<1>2. /\ setup \in Setups /\ toggles \in 0..setup.toggles /\ faults \in 0..setup.times
      /\ setup.toggles \in Nat /\ setup.times \in Nat /\ state \in States
      /\ conn \in {"unconnected", "connecting", "connected"}
      /\ DOMAIN srv \subseteq 1..issued
      /\ \A k \in DOMAIN srv : srv[k] \in [idle : 0..Timeout - 1, playing : BOOLEAN]
  BY <1>1, ClientAssumption DEF TypeOK, Setup
<1>3. {alive, asyncPlay, lost, ticked} \subseteq BOOLEAN
  BY <1>1 DEF TypeOK
<1>4. CASE TickDead
  <2>1. /\ ~alive /\ state' = "UNKNOWN" /\ conn' = "connecting" /\ ticked' = TRUE
        /\ UNCHANGED <<asyncPlay, toggles, tables, alive, faults, lost, wire, back, srv, issued>>
    BY <1>4 DEF TickDead, app, server
  <2>2. state = "UNKNOWN" /\ wire = <<>> /\ back = <<>> /\ DOMAIN played = {}
    BY <1>1, <2>1 DEF Joined
  <2>3. UNCHANGED <<state, described, setuped, played>>
    BY <2>1, <2>2 DEF tables
  <2>4. Lines' /\ Asking'
    BY <2>1, <2>3, LineKept
  <2>5. {alive', asyncPlay', lost', ticked'} \subseteq BOOLEAN
    BY <1>3, <2>1
  <2>6. TypeOK' /\ Kept'
    BY <1>1, <1>2, <2>1, <2>3, <2>5, TypeKept
  <2>7. Joined'
    BY <2>1, <2>2, <2>3 DEF Joined
  <2>8. QED BY <2>4, <2>6, <2>7 DEF Typed
<1>5. CASE Connected
  <2>1. /\ conn = "connecting" /\ conn' = "connected" /\ alive' = TRUE
        /\ UNCHANGED <<state, asyncPlay, toggles, tables, faults, lost, wire, back, srv, issued>>
        /\ UNCHANGED ticked
    BY <1>5 DEF Connected, app, server
  <2>2. UNCHANGED <<state, described, setuped, played>>
    BY <2>1 DEF tables
  <2>3. Lines' /\ Asking'
    BY <2>1, <2>2, LineKept
  <2>4. {alive', asyncPlay', lost', ticked'} \subseteq BOOLEAN
    BY <1>3, <2>1
  <2>5. TypeOK' /\ Kept'
    BY <1>1, <1>2, <2>1, <2>2, <2>4, TypeKept
  <2>6. Joined'
    BY <2>1 DEF Joined
  <2>7. QED BY <2>3, <2>5, <2>6 DEF Typed
<1>6. CASE ConnectFails
  <2>1. /\ conn = "connecting" /\ faults < setup.times
        /\ conn' = "unconnected" /\ wire' = <<>> /\ faults' = faults + 1
        /\ UNCHANGED <<state, asyncPlay, toggles, tables, alive, lost, back, srv, issued, ticked>>
    BY <1>6 DEF ConnectFails, May, app, server
  <2>2. back = <<>>
    BY <1>1, <2>1 DEF Joined
  <2>3. Lines' /\ Asking'
    BY <2>1, <2>2, LineLost
  <2>4. faults' \in 0..setup.times
    BY <1>2, <2>1
  <2>5. {alive', asyncPlay', lost', ticked'} \subseteq BOOLEAN
    BY <1>3, <2>1
  <2>6. TypeOK' /\ Kept'
    BY <1>1, <1>2, <2>1, <2>4, <2>5, TypeKept
  <2>7. UNCHANGED played
    BY <2>1 DEF tables
  <2>8. Joined'
    BY <1>1, <2>1, <2>2, <2>7 DEF Joined
  <2>9. QED BY <2>3, <2>6, <2>8 DEF Typed
<1>7. CASE Lose
  <2>1. /\ conn = "connected" /\ faults < setup.times
        /\ conn' = "connecting" /\ wire' = <<>> /\ back' = <<>>
        /\ srv' = srv \/ srv' = <<>>
        /\ faults' = faults + 1 /\ lost' = TRUE
        /\ UNCHANGED <<state, asyncPlay, toggles, tables, alive, issued, ticked>>
    BY <1>7 DEF Lose, May, app
  <2>2. Lines' /\ Asking'
    BY <2>1, LineLost
  <2>3. faults' \in 0..setup.times
    BY <1>2, <2>1
  <2>4. {alive', asyncPlay', lost', ticked'} \subseteq BOOLEAN
    BY <1>3, <2>1
  <2>5. /\ DOMAIN srv' \subseteq 1..issued
        /\ \A k \in DOMAIN srv' : srv'[k] \in [idle : 0..Timeout - 1, playing : BOOLEAN]
    <3>1. CASE srv' = srv
      BY <1>2, <3>1
    <3>2. CASE srv' = <<>>
      <4>1. DOMAIN srv' = {}
        BY <3>2
      <4>2. QED BY <4>1
    <3>3. QED BY <2>1, <3>1, <3>2
  <2>6. TypeOK' /\ Kept'
    BY <1>1, <1>2, <2>1, <2>3, <2>4, <2>5, TypeKept
  <2>7. UNCHANGED played
    BY <2>1 DEF tables
  <2>8. Joined'
    BY <1>1, <2>1, <2>7 DEF Joined
  <2>9. QED BY <2>2, <2>6, <2>8 DEF Typed
<1>8. CASE PlayASync \/ TeardownASync
  <2>1. /\ toggles < setup.toggles /\ toggles' = toggles + 1 /\ asyncPlay' \in BOOLEAN
        /\ UNCHANGED <<state, tables, conn, alive, faults, lost, wire, back, srv, issued, ticked>>
    BY <1>8 DEF PlayASync, TeardownASync, link, server
  <2>2. UNCHANGED <<described, setuped, played>>
    BY <2>1 DEF tables
  <2>3. Lines' /\ Asking'
    BY <2>1, <2>2, LineKept
  <2>4. toggles' \in 0..setup.toggles
    BY <1>2, <2>1
  <2>5. {alive', asyncPlay', lost', ticked'} \subseteq BOOLEAN
    BY <1>3, <2>1
  <2>6. TypeOK' /\ Kept'
    BY <1>1, <1>2, <2>1, <2>4, <2>5, TypeKept
  <2>7. Joined'
    BY <1>1, <2>1, <2>2 DEF Joined
  <2>8. QED BY <2>3, <2>6, <2>7 DEF Typed
<1>9. QED BY <1>4, <1>5, <1>6, <1>7, <1>8

\* The sessions of a table 5 seconds later.
Older(t) == [k \in DOMAIN t |-> [t[k] EXCEPT !.age = IF @ < Timeout THEN @ + 1 ELSE @]]
Aged(t, u) ==
  /\ Table(u) /\ DOMAIN u = DOMAIN t
  /\ \A k \in DOMAIN t : /\ u[k].id = t[k].id /\ u[k].rtp = t[k].rtp /\ u[k].timed = t[k].timed
                         /\ u[k].age = IF t[k].age < Timeout THEN t[k].age + 1 ELSE t[k].age

LEMMA OlderTable ==
  ASSUME NEW t, Table(t)
  PROVE  Aged(t, Older(t))
<1>1. Timeout \in Nat \ {0}
  BY ClientAssumption
<1>2. ASSUME NEW s \in Sessions, NEW n, n = IF s.age < Timeout THEN s.age + 1 ELSE s.age
      PROVE  /\ [s EXCEPT !.age = n] \in Sessions /\ [s EXCEPT !.age = n].age = n
             /\ [s EXCEPT !.age = n].id = s.id /\ [s EXCEPT !.age = n].rtp = s.rtp
             /\ [s EXCEPT !.age = n].timed = s.timed
  <2>1. s.age \in 0..Timeout
    BY DEF Sessions
  <2>2. n \in 0..Timeout
    BY <1>1, <1>2, <2>1
  <2>3. QED BY <2>2 DEF Sessions
<1>3. DOMAIN t \subseteq Keys /\ \A k \in DOMAIN t : t[k] \in Sessions
  BY DEF Table
<1>4. DOMAIN Older(t) = DOMAIN t
  BY DEF Older
<1>5. ASSUME NEW k \in DOMAIN t
      PROVE  /\ Older(t)[k] \in Sessions
             /\ Older(t)[k].id = t[k].id /\ Older(t)[k].rtp = t[k].rtp
             /\ Older(t)[k].timed = t[k].timed
             /\ Older(t)[k].age = IF t[k].age < Timeout THEN t[k].age + 1 ELSE t[k].age
  <2>1. PICK n : n = IF t[k].age < Timeout THEN t[k].age + 1 ELSE t[k].age
    OBVIOUS
  <2>2. Older(t)[k] = [t[k] EXCEPT !.age = n]
    BY <2>1, Zenon DEF Older
  <2>3. PICK s : s = t[k]
    OBVIOUS
  <2>4. s \in Sessions /\ n = IF s.age < Timeout THEN s.age + 1 ELSE s.age
    BY <1>3, <2>1, <2>3
  <2>5. QED BY <1>2, <2>1, <2>2, <2>3, <2>4
<1>6. QED BY <1>3, <1>4, <1>5 DEF Table, Aged

\* What the time does.
LEMMA PassTables ==
  ASSUME TypeOK, Pass
  PROVE  /\ Aged(setuped, setuped') /\ Aged(played, played')
         /\ DOMAIN srv' = {k \in DOMAIN srv : srv[k].idle + 1 < Timeout}
         /\ \A k \in DOMAIN srv' : /\ srv'[k] \in [idle : 0..Timeout - 1, playing : BOOLEAN]
                                   /\ srv'[k].idle = srv[k].idle + 1
                                   /\ srv'[k].playing = srv[k].playing
<1>1. Table(setuped) /\ Table(played)
  BY DEF TypeOK
<1>2. setuped' = Older(setuped) /\ played' = Older(played)
  BY DEF Pass, Older
<1>3. Aged(setuped, setuped') /\ Aged(played, played')
  BY <1>1, <1>2, OlderTable
<1>4. srv' = [k \in {k \in DOMAIN srv : srv[k].idle + 1 < Timeout} |->
                [srv[k] EXCEPT !.idle = @ + 1]]
  BY DEF Pass
<1>5. \A k \in DOMAIN srv : srv[k] \in [idle : 0..Timeout - 1, playing : BOOLEAN]
  BY DEF TypeOK
<1>6. Timeout \in Nat \ {0}
  BY ClientAssumption
<1>7. ASSUME NEW k \in DOMAIN srv'
      PROVE  /\ srv'[k] \in [idle : 0..Timeout - 1, playing : BOOLEAN]
             /\ srv'[k].idle = srv[k].idle + 1 /\ srv'[k].playing = srv[k].playing
  <2>1. k \in DOMAIN srv /\ srv[k].idle + 1 < Timeout /\ srv'[k] = [srv[k] EXCEPT !.idle = @ + 1]
    BY <1>4
  <2>2. PICK r : r = srv[k]
    OBVIOUS
  <2>3. r \in [idle : 0..Timeout - 1, playing : BOOLEAN] /\ r.idle + 1 < Timeout
    BY <1>5, <2>1, <2>2
  <2>4. r.idle + 1 \in 0..Timeout - 1
    BY <1>6, <2>3
  <2>5. PICK n \in 0..Timeout - 1 : n = r.idle + 1
    BY <2>4
  <2>6. srv'[k] = [r EXCEPT !.idle = n]
    BY <2>1, <2>2, <2>5
  <2>7. QED BY <2>2, <2>3, <2>5, <2>6
<1>8. DOMAIN srv' = {k \in DOMAIN srv : srv[k].idle + 1 < Timeout}
  BY <1>4
<1>9. QED BY <1>3, <1>7, <1>8

LEMMA TypedPass ==
  ASSUME Typed, UNCHANGED setup, Pass
  PROVE  Typed'
<1>1. TypeOK /\ Lines /\ Joined /\ Kept /\ Asking
  BY DEF Typed
<1>2. /\ ticked' = FALSE
      /\ UNCHANGED <<state, asyncPlay, toggles, options, auth, described, running, crashed>>
      /\ UNCHANGED <<conn, alive, faults, lost, wire, back, issued>>
  BY DEF Pass, app, link
<1>5. Aged(setuped, setuped') /\ Aged(played, played')
  BY <1>1, PassTables
<1>6. /\ Table(setuped') /\ DOMAIN setuped' = DOMAIN setuped
      /\ \A k \in DOMAIN setuped : /\ setuped'[k].id = setuped[k].id
                                   /\ setuped'[k].rtp = setuped[k].rtp
                                   /\ setuped'[k].timed = setuped[k].timed
      /\ Table(played') /\ DOMAIN played' = DOMAIN played
      /\ \A k \in DOMAIN played : /\ played'[k].id = played[k].id
                                  /\ played'[k].rtp = played[k].rtp
                                  /\ played'[k].timed = played[k].timed
  BY <1>5 DEF Aged
<1>7. /\ DOMAIN srv' \subseteq 1..issued'
      /\ \A k \in DOMAIN srv' : srv'[k] \in [idle : 0..Timeout - 1, playing : BOOLEAN]
  <2>1. DOMAIN srv \subseteq 1..issued
    BY <1>1 DEF TypeOK
  <2>2. DOMAIN srv' \subseteq DOMAIN srv
    BY <1>1, PassTables
  <2>3. QED BY <1>1, <1>2, <2>1, <2>2, PassTables
<1>8. TypeOK'
  <2>1. Table(setuped)' /\ Table(played)'
    BY <1>6 DEF Table, Sessions, Receivers
  <2>2. {alive', asyncPlay', options', auth', crashed', lost', ticked'} \subseteq BOOLEAN
    BY <1>1, <1>2 DEF TypeOK
  <2>3. /\ setup' \in Setups /\ state' \in States /\ toggles' \in 0..setup'.toggles
        /\ faults' \in 0..setup'.times /\ described' \in {0, Len(setup'.receivers)}
        /\ conn' \in {"unconnected", "connecting", "connected"} /\ issued' \in 0..MaxSessions
        /\ running' \subseteq Receivers' \ {0}
    BY <1>1, <1>2 DEF TypeOK, Receivers
  <2>4. QED BY <1>7, <2>1, <2>2, <2>3 DEF TypeOK
<1>9. Kept'
  BY <1>1, <1>2, <1>6 DEF Kept
<1>10. Lines' /\ Asking'
  BY <1>2, <1>6, LineKept
<1>11. Joined'
  BY <1>1, <1>2, <1>6 DEF Joined
<1>12. QED BY <1>8, <1>9, <1>10, <1>11 DEF Typed

\* What the server does with the oldest request.
Grants(r, id) == /\ r.type = "SETUP" /\ issued < MaxSessions /\ id = issued + 1
                 /\ issued' = issued + 1
                 /\ srv' = Put(srv, id, [idle |-> 0, playing |-> FALSE])
Renews(r, id) == /\ r.type \in {"PLAY", "GET_PARAMETER"} /\ r.arg \in DOMAIN srv /\ id = r.arg
                 /\ srv' = Put(srv, id, [idle |-> 0,
                                         playing |-> srv[id].playing \/ r.type = "PLAY"])
                 /\ issued' = issued
Ends(r, id) == /\ r.type = "TEARDOWN" /\ r.arg \in DOMAIN srv /\ id = r.arg
               /\ srv' = Drop(srv, id) /\ issued' = issued
Passes(r, ok, id) ==
  /\ id = 0 /\ UNCHANGED server
  /\ \/ r.type = "OPTIONS"
     \/ r.type = "DESCRIBE"
     \/ r.type = "SETUP" /\ "refuse" \in setup.faults /\ ~ok
     \/ r.type \in {"PLAY", "GET_PARAMETER", "TEARDOWN"} /\ r.arg \notin DOMAIN srv /\ ~ok
Serves(r, ok, id) ==
  /\ conn = "connected" /\ wire # <<>> /\ r = Head(wire) /\ ok \in BOOLEAN
  /\ Answers(ok, id)
  /\ \/ ok /\ (Grants(r, id) \/ Renews(r, id) \/ Ends(r, id))
     \/ Passes(r, ok, id)
  /\ UNCHANGED <<state, app, tables, link, ticked>>

LEMMA ServeServes ==
  ASSUME Serve
  PROVE  \E r, ok, id : Serves(r, ok, id)
<1>1. PICK r : r = Head(wire)
  OBVIOUS
<1>2. /\ conn = "connected" /\ wire # <<>> /\ UNCHANGED <<state, app, tables, link, ticked>>
  BY DEF Serve
<1>3. CASE r.type = "OPTIONS" /\ Answers(TRUE, 0) /\ UNCHANGED server
  <2>1. Serves(r, TRUE, 0)
    BY <1>1, <1>2, <1>3 DEF Serves, Passes
  <2>2. QED BY <2>1
<1>4. CASE /\ r.type = "DESCRIBE" /\ UNCHANGED server
           /\ Answers("auth" \notin setup.faults \/ r.auth, 0)
  <2>1. CASE "auth" \notin setup.faults \/ r.auth
    <3>1. Answers(TRUE, 0)
      BY <1>4, <2>1 DEF Answers
    <3>2. Serves(r, TRUE, 0)
      BY <1>1, <1>2, <1>4, <3>1 DEF Serves, Passes
    <3>3. QED BY <3>2
  <2>2. CASE ~("auth" \notin setup.faults \/ r.auth)
    <3>1. Answers(FALSE, 0)
      BY <1>4, <2>2 DEF Answers
    <3>2. Serves(r, FALSE, 0)
      BY <1>1, <1>2, <1>4, <3>1 DEF Serves, Passes
    <3>3. QED BY <3>2
  <2>3. QED BY <2>1, <2>2
<1>5. CASE /\ r.type = "SETUP" /\ issued < MaxSessions
           /\ issued' = issued + 1
           /\ srv' = Put(srv, issued + 1, [idle |-> 0, playing |-> FALSE])
           /\ Answers(TRUE, issued + 1)
  <2>1. Serves(r, TRUE, issued + 1)
    BY <1>1, <1>2, <1>5 DEF Serves, Grants
  <2>2. QED BY <2>1
<1>6. CASE r.type = "SETUP" /\ "refuse" \in setup.faults /\ Answers(FALSE, 0) /\ UNCHANGED server
  <2>1. Serves(r, FALSE, 0)
    BY <1>1, <1>2, <1>6 DEF Serves, Passes
  <2>2. QED BY <2>1
<1>7. CASE /\ r.type \in {"PLAY", "GET_PARAMETER"} /\ r.arg \in DOMAIN srv
           /\ srv' = Put(srv, r.arg, [idle |-> 0,
                                      playing |-> srv[r.arg].playing \/ r.type = "PLAY"])
           /\ Answers(TRUE, r.arg) /\ UNCHANGED issued
  <2>1. Serves(r, TRUE, r.arg)
    BY <1>1, <1>2, <1>7 DEF Serves, Renews
  <2>2. QED BY <2>1
<1>8. CASE /\ r.type = "TEARDOWN" /\ r.arg \in DOMAIN srv
           /\ srv' = Drop(srv, r.arg)
           /\ Answers(TRUE, r.arg) /\ UNCHANGED issued
  <2>1. Serves(r, TRUE, r.arg)
    BY <1>1, <1>2, <1>8 DEF Serves, Ends
  <2>2. QED BY <2>1
<1>9. CASE /\ r.type \in {"PLAY", "GET_PARAMETER", "TEARDOWN"} /\ r.arg \notin DOMAIN srv
           /\ Answers(FALSE, 0) /\ UNCHANGED server
  <2>1. Serves(r, FALSE, 0)
    BY <1>1, <1>2, <1>9 DEF Serves, Passes
  <2>2. QED BY <2>1
<1>10. QED BY <1>1, <1>3, <1>4, <1>5, <1>6, <1>7, <1>8, <1>9 DEF Serve

\* The server's sessions afterwards: the answer's, just started again, and the others.
Served(r, ok, id) ==
  /\ issued' \in Nat /\ issued <= issued' /\ issued' <= MaxSessions
  /\ id \in 0..issued' /\ id \in Keys /\ issued \in Nat
  /\ DOMAIN srv' \subseteq 1..issued'
  /\ \A k \in DOMAIN srv' : srv'[k] \in [idle : 0..Timeout - 1, playing : BOOLEAN]
  /\ \A k \in DOMAIN srv' : \/ k \in DOMAIN srv /\ srv'[k] = srv[k]
                            \/ k = id /\ srv'[k].idle = 0
  /\ \A k \in DOMAIN srv : \/ k \in DOMAIN srv' /\ srv'[k] = srv[k]
                           \/ k \in DOMAIN srv' /\ srv'[k].idle = 0 /\ k = id
                              /\ (srv[k].playing => srv'[k].playing)
                           \/ k = id /\ r.type = "TEARDOWN" /\ k \notin DOMAIN srv'

\* What the answer says.
Said(r, ok, id) ==
  /\ id \in DOMAIN srv' => srv'[id].idle = 0
  /\ id # 0 => r.type = "SETUP" \/ id = r.arg
  /\ id # 0 /\ r.type # "TEARDOWN" => id \in DOMAIN srv'
  /\ r.type = "SETUP" => id = issued + 1 \/ (id = 0 /\ "refuse" \in setup.faults)
  /\ r.type \in {"PLAY", "GET_PARAMETER"} /\ r.arg \in DOMAIN srv' => id = r.arg
  /\ r.type = "PLAY" /\ r.arg \in DOMAIN srv' => srv'[r.arg].playing
  /\ r.type = "TEARDOWN" => r.arg \notin DOMAIN srv'
  /\ \A k \in DOMAIN srv' : k \in DOMAIN srv \/ (r.type = "SETUP" /\ k = id)
  /\ r.type # "SETUP" => issued' = issued
  /\ \A k \in DOMAIN srv : k \in 1..issued

LEMMA ServeTables ==
  ASSUME TypeOK, NEW r, NEW ok, NEW id, Serves(r, ok, id)
  PROVE  Served(r, ok, id) /\ Said(r, ok, id)
<1>1. /\ issued \in 0..MaxSessions /\ MaxSessions \in Nat /\ Timeout \in Nat \ {0}
      /\ DOMAIN srv \subseteq 1..issued
      /\ \A k \in DOMAIN srv : srv[k] \in [idle : 0..Timeout - 1, playing : BOOLEAN]
  BY ClientAssumption DEF TypeOK
<1>2. 0 \in 0..Timeout - 1
  BY <1>1
<1>3. CASE Grants(r, id)
  <2>1. PICK s : s = [idle |-> 0, playing |-> FALSE]
    OBVIOUS
  <2>2. s \in [idle : 0..Timeout - 1, playing : BOOLEAN] /\ s.idle = 0
    BY <1>2, <2>1
  <2>3. /\ issued < MaxSessions /\ id = issued + 1 /\ issued' = issued + 1
        /\ srv' = Put(srv, id, s)
    BY <1>3, <2>1 DEF Grants
  <2>4. /\ DOMAIN srv' = DOMAIN srv \cup {id}
        /\ \A x \in DOMAIN srv' : srv'[x] = IF x = id THEN s ELSE srv[x]
    BY <2>3 DEF Put
  <2>5. /\ issued' \in Nat /\ issued <= issued' /\ issued' <= MaxSessions
        /\ id \in 0..issued' /\ id \in Keys /\ issued \in Nat
        /\ DOMAIN srv' \subseteq 1..issued' /\ id \notin DOMAIN srv
    BY <1>1, <2>3, <2>4 DEF Keys
  <2>6. Served(r, ok, id)
    BY <1>1, <2>2, <2>4, <2>5 DEF Served
  <2>7. r.type = "SETUP"
    BY <1>3 DEF Grants
  <2>8. Said(r, ok, id)
    BY <1>1, <2>2, <2>3, <2>4, <2>5, <2>7 DEF Said
  <2>9. QED BY <2>6, <2>8
<1>4. CASE Renews(r, id)
  <2>1. /\ r.type \in {"PLAY", "GET_PARAMETER"} /\ id \in DOMAIN srv /\ issued' = issued
        /\ srv' = Put(srv, id, [idle |-> 0, playing |-> srv[id].playing \/ r.type = "PLAY"])
    BY <1>4 DEF Renews
  <2>2. PICK s : s = [idle |-> 0, playing |-> srv[id].playing \/ r.type = "PLAY"]
    OBVIOUS
  <2>3. srv[id].playing \in BOOLEAN
    BY <1>1, <2>1
  <2>4. /\ s \in [idle : 0..Timeout - 1, playing : BOOLEAN] /\ s.idle = 0
        /\ (srv[id].playing => s.playing)
    BY <1>2, <2>2, <2>3
  <2>5. /\ DOMAIN srv' = DOMAIN srv \cup {id}
        /\ \A x \in DOMAIN srv' : srv'[x] = IF x = id THEN s ELSE srv[x]
    BY <2>1, <2>2 DEF Put
  <2>6. /\ issued' \in Nat /\ issued <= issued' /\ issued' <= MaxSessions
        /\ id \in 0..issued' /\ id \in Keys /\ issued \in Nat
        /\ DOMAIN srv' \subseteq 1..issued'
    BY <1>1, <2>1, <2>5 DEF Keys
  <2>7. Served(r, ok, id)
    BY <1>1, <2>1, <2>4, <2>5, <2>6 DEF Served
  <2>8. id = r.arg /\ (r.type = "PLAY" => s.playing)
    BY <1>4, <2>2 DEF Renews
  <2>9. Said(r, ok, id)
    BY <1>1, <2>1, <2>4, <2>5, <2>8 DEF Said
  <2>10. QED BY <2>7, <2>9
<1>5. CASE Ends(r, id)
  <2>1. r.type = "TEARDOWN" /\ id \in DOMAIN srv /\ srv' = Drop(srv, id) /\ issued' = issued
    BY <1>5 DEF Ends
  <2>2. DOMAIN srv' = DOMAIN srv \ {id} /\ \A x \in DOMAIN srv' : srv'[x] = srv[x]
    BY <2>1 DEF Drop
  <2>3. /\ issued' \in Nat /\ issued <= issued' /\ issued' <= MaxSessions
        /\ id \in 0..issued' /\ id \in Keys /\ issued \in Nat
        /\ DOMAIN srv' \subseteq 1..issued'
    BY <1>1, <2>1, <2>2 DEF Keys
  <2>4. Served(r, ok, id)
    BY <1>1, <2>1, <2>2, <2>3 DEF Served
  <2>5. id = r.arg
    BY <1>5 DEF Ends
  <2>6. Said(r, ok, id)
    BY <1>1, <2>1, <2>2, <2>5 DEF Said
  <2>7. QED BY <2>4, <2>6
<1>6. CASE Passes(r, ok, id)
  <2>1. id = 0 /\ srv' = srv /\ issued' = issued
    BY <1>6 DEF Passes, server
  <2>2. Served(r, ok, id)
    BY <1>1, <2>1 DEF Served, Keys
  <2>3. /\ r.type = "SETUP" => "refuse" \in setup.faults
        /\ r.type \in {"PLAY", "GET_PARAMETER", "TEARDOWN"} => r.arg \notin DOMAIN srv
    BY <1>6 DEF Passes
  <2>4. Said(r, ok, id)
    BY <1>1, <2>1, <2>3 DEF Said
  <2>5. QED BY <2>2, <2>4
<1>7. QED BY <1>3, <1>4, <1>5, <1>6 DEF Serves

LEMMA TypedServe ==
  ASSUME Typed, UNCHANGED setup, NEW r, NEW ok, NEW id, Serves(r, ok, id)
  PROVE  Typed'
<1>1. TypeOK /\ Lines /\ Joined /\ Kept /\ Asking
  BY DEF Typed
<1>2. /\ conn = "connected" /\ wire # <<>> /\ r = Head(wire) /\ ok \in BOOLEAN
      /\ Answers(ok, id) /\ UNCHANGED <<state, app, tables, link, ticked>>
  BY DEF Serves
<1>3. /\ UNCHANGED <<asyncPlay, toggles, options, auth, described, setuped, played>>
      /\ UNCHANGED <<running, crashed, conn, alive, faults, lost, ticked, state>>
  BY <1>2 DEF app, tables, link
<1>4. Served(r, ok, id)
  BY <1>1, ServeTables
<1>5. setup \in Setups
  BY <1>1 DEF TypeOK
<1>6. id \in Keys /\ id \in 0..issued' /\ 0..issued \subseteq 0..issued'
  BY <1>4 DEF Served
<1>7. /\ Line' = Line /\ back' \in Seq(Replies) /\ wire' \in Seq(Requests)
      /\ DOMAIN back' = 1..(Len(back) + 1)
      /\ \A i \in 1..Len(back) : back'[i] = back[i]
      /\ back'[Len(back) + 1].id = id
  BY <1>1, <1>2, <1>5, <1>6, ServeLine
<1>8. Len(back) \in Nat /\ DOMAIN back = 1..Len(back) /\ Named
  BY <1>1, LineKnown DEF Lines
<1>9. Lines'
  <2>1. ASSUME NEW i \in DOMAIN back' PROVE back'[i].id \in 0..issued'
    <3>1. i \in 1..Len(back) \/ i = Len(back) + 1
      BY <1>7, <1>8
    <3>2. QED BY <1>6, <1>7, <1>8, <3>1 DEF Named
  <2>2. ASSUME NEW i \in DOMAIN Line PROVE Names(Line[i])'
    <3>1. Names(Line[i])
      BY <1>8 DEF Named
    <3>2. QED BY <1>6, <1>7, <3>1 DEF Names, Receivers
  <2>3. Named'
    BY <1>7, <2>1, <2>2 DEF Named
  <2>4. QED BY <1>7, <2>3 DEF Lines
<1>10. Kept'
  BY <1>1, <1>3, <1>6 DEF Kept
<1>11. TypeOK'
  <2>1. Table(setuped)' /\ Table(played)'
    BY <1>1, <1>3 DEF TypeOK, Table, Sessions, Receivers
  <2>2. {alive', asyncPlay', options', auth', crashed', lost', ticked'} \subseteq BOOLEAN
    BY <1>1, <1>3 DEF TypeOK
  <2>3. /\ setup' \in Setups /\ state' \in States /\ toggles' \in 0..setup'.toggles
        /\ faults' \in 0..setup'.times /\ described' \in {0, Len(setup'.receivers)}
        /\ conn' \in {"unconnected", "connecting", "connected"}
        /\ running' \subseteq Receivers' \ {0}
    BY <1>1, <1>3 DEF TypeOK, Receivers
  <2>4. issued' \in 0..MaxSessions
    <3>1. MaxSessions \in Nat
      BY ClientAssumption
    <3>2. QED BY <1>4, <3>1 DEF Served
  <2>5. /\ DOMAIN srv' \subseteq 1..issued'
        /\ \A k \in DOMAIN srv' : srv'[k] \in [idle : 0..Timeout - 1, playing : BOOLEAN]
    BY <1>4 DEF Served
  <2>6. QED BY <2>1, <2>2, <2>3, <2>4, <2>5 DEF TypeOK
<1>12. Asking'
  <2>1. \A t : Asked(t)' = Asked(t)
    BY <1>7, AskingNext DEF Asked
  <2>2. Phases'
    BY <1>1, <1>3, <2>1 DEF Asking, Phases
  <2>3. Counted' /\ Once'
    BY <1>1, <1>3, <1>7, AskingNext DEF Asking, Counted, Once
  <2>4. QED BY <2>2, <2>3 DEF Asking
<1>13. Joined'
  <2>1. alive
    BY <1>1, <1>2 DEF Joined
  <2>2. QED BY <1>1, <1>2, <1>3, <2>1 DEF Joined
<1>14. QED BY <1>9, <1>10, <1>11, <1>12, <1>13 DEF Typed

LEMMA TypedInit == Init => Typed
<1> SUFFICES ASSUME Init PROVE Typed
  OBVIOUS
<1>2. /\ setup \in Setups /\ state = "UNKNOWN" /\ toggles = 0 /\ described = 0
      /\ setuped = <<>> /\ played = <<>> /\ running = {}
      /\ conn = "connecting" /\ wire = <<>> /\ back = <<>>
      /\ srv = <<>> /\ issued = 0 /\ faults = 0
  BY DEF Init
<1>a. ~alive /\ ~lost
  BY Zenon DEF Init
<1>3. setup.toggles \in Nat /\ setup.times \in Nat /\ MaxSessions \in Nat
  BY <1>2, ClientAssumption DEF Setup
<1>4. DOMAIN setuped = {} /\ DOMAIN played = {} /\ DOMAIN srv = {}
  BY <1>2
<1>5. Bare(back) = <<>> /\ Bare(wire) = <<>>
  BY <1>2 DEF Bare
<1>6. Line = <<>> /\ DOMAIN Line = {} /\ DOMAIN back = {}
  BY <1>2, <1>5 DEF Line
<1>7. \A t : Of(Line, t) = {} /\ Asked(t) = {}
  BY <1>6 DEF Of, Asked, In
<1>8. TypeOK
  <2>1. {alive, asyncPlay, options, auth, crashed, lost, ticked} \subseteq BOOLEAN
    BY Zenon DEF Init
  <2>2. Table(setuped) /\ Table(played)
    BY <1>4 DEF Table
  <2>3. QED BY <1>2, <1>3, <1>4, <2>1, <2>2 DEF TypeOK, States
<1>9. Lines
  BY <1>2, <1>6, EmptySeq DEF Lines, Named
<1>10. Joined
  BY <1>2, <1>a, <1>4 DEF Joined
<1>11. Kept
  BY <1>4 DEF Kept
<1>12. Phases
  BY <1>2, <1>4, <1>7 DEF Phases
<1>13. Counted
  <2>1. Cardinality(Of(Line, "SETUP")) = 0 /\ Cardinality(DOMAIN setuped) = 0
    BY <1>4, <1>7, FS_EmptySet
  <2>2. QED BY <1>2, <2>1 DEF Counted
<1>14. Once
  BY <1>6 DEF Once, OnceIn
<1>15. QED BY <1>8, <1>9, <1>10, <1>11, <1>12, <1>13, <1>14 DEF Typed, Asking

\* The steps, one by one.
LEMMA TypedStep ==
  ASSUME Typed, [Next]_vars
  PROVE  Typed'
<1>1. CASE UNCHANGED vars
  <2>1. /\ UNCHANGED <<setup, state, asyncPlay, toggles, options, auth, described, setuped>>
        /\ UNCHANGED <<played, running, crashed, conn, alive, faults, lost, wire, back>>
        /\ UNCHANGED <<srv, issued, ticked>>
    BY <1>1 DEF vars, app, tables, link, server
  <2>2. Lines' /\ Asking'
    BY <2>1, LineKept
  <2>3. TypeOK'
    BY <2>1 DEF Typed, TypeOK, Table, Sessions, Receivers
  <2>4. Joined' /\ Kept'
    BY <2>1 DEF Typed, Joined, Kept
  <2>5. QED BY <2>2, <2>3, <2>4 DEF Typed
<1>2. CASE Next
  <2>1. /\ ~crashed /\ UNCHANGED setup
        /\ \/ Tick \/ Read \/ Connected \/ ConnectFails \/ Lose
           \/ PlayASync \/ TeardownASync \/ Serve \/ Pass
    BY <1>2 DEF Next, Client
  <2>2. CASE Tick
    <3>1. CASE TickDead
      BY <2>1, <3>1, TypedLink
    <3>2. CASE /\ alive
               /\ \/ TickUnknown \/ TickDescribe \/ TickDescribed \/ TickSetup \/ TickPlay
                  \/ TickPlayed \/ TickStreaming \/ TickTeardown \/ TickWaits
      BY <2>1, <3>2, TypedTick, TypedTickDescribe, TypedTickSetup, TypedTickPlay
    <3>3. QED BY <2>2, <3>1, <3>2 DEF Tick
  <2>3. CASE Read
    <3>1. Lines /\ issued \in Nat
      <4>1. issued \in 0..MaxSessions /\ MaxSessions \in Nat
        BY ClientAssumption DEF Typed, TypeOK
      <4>2. QED BY <4>1 DEF Typed
    <3>2. PICK a, j, k : Reads(a, j, k)
      BY <2>3, <3>1, ReadAnswer
    <3>3. QED BY <2>1, <3>2, TypedRead
  <2>4. CASE Serve
    <3>1. PICK r, ok, id : Serves(r, ok, id)
      BY <2>4, ServeServes
    <3>2. QED BY <2>1, <3>1, TypedServe
  <2>5. CASE Pass
    BY <2>1, <2>5, TypedPass
  <2>6. CASE Connected \/ ConnectFails \/ Lose \/ PlayASync \/ TeardownASync
    BY <2>1, <2>6, TypedLink
  <2>7. QED BY <2>1, <2>2, <2>3, <2>4, <2>5, <2>6
<1>3. QED BY <1>1, <1>2

\* Every variable stays in its set of values, whatever tracks a server describes,
\* answers come or are lost, and the application asks for: the description is read
\* once, the sessions' keys and ids are those the server has given, and no answer
\* starts a receiver that is not there.
THEOREM ClientTypeCorrect == Spec => []TypeOK
<1>1. Init => Typed
  BY TypedInit
<1>2. Typed /\ [Next]_vars => Typed'
  BY TypedStep
<1>3. Typed => TypeOK
  BY DEF Typed
<1>4. QED BY <1>1, <1>2, <1>3, PTL DEF Spec

-----------------------------------------------------------------------------
(* Every step keeps Tidy: what leaves answers and tables alone *)

\* What the requests of a tick are about.
Form(to, reqs) ==
  /\ alive /\ reqs \in Seq(Requests) /\ Ticks(to, reqs)
  /\ \A j \in DOMAIN reqs :
       /\ reqs[j].type # "GET_PARAMETER"
       /\ reqs[j].type = "TEARDOWN" => ~asyncPlay /\ reqs[j].arg \in DOMAIN played
       /\ reqs[j].type = "PLAY" => /\ state = "SETUP_WAIT" /\ reqs[j].arg \in DOMAIN setuped
                                   /\ Cardinality(DOMAIN setuped) = described
  /\ to = "SETUP_WAIT" => \/ DOMAIN setuped = {}
                          \/ /\ state = "SETUP_WAIT" /\ reqs = <<>>
                             /\ Cardinality(DOMAIN setuped) # described

LEMMA TickForm ==
  ASSUME Typed, Tick, ~TickDead
  PROVE  \E to, reqs : Form(to, reqs)
<1>1. /\ alive
      /\ \/ TickUnknown \/ TickDescribe \/ TickDescribed \/ TickSetup \/ TickPlay
         \/ TickPlayed \/ TickStreaming \/ TickTeardown \/ TickWaits
  BY DEF Tick
<1>2. /\ auth \in BOOLEAN /\ setup \in Setups /\ described \in {0, Len(setup.receivers)}
      /\ DOMAIN setuped \in SUBSET (0..MaxSessions) /\ DOMAIN played \in SUBSET (0..MaxSessions)
  BY DEF Typed, TypeOK, Table, Keys
<1>3. Phases
  BY DEF Typed, Asking
<1>4. PICK none : none = <<>> /\ none \in Seq(Requests) /\ DOMAIN none = {}
  <2>1. <<>> \in Seq(Requests) /\ DOMAIN <<>> = {}
    BY EmptySeq
  <2>2. QED BY <2>1
<1>5. ASSUME NEW to, Ticks(to, <<>>),
             to # "SETUP_WAIT" \/ (state = "SETUP_WAIT" /\ Cardinality(DOMAIN setuped) # described)
      PROVE  Form(to, none)
  BY <1>1, <1>4, <1>5 DEF Form
<1>6. CASE TickDescribed
  <2>1. Ticks("DESCRIBED", <<>>)
    BY <1>6 DEF TickDescribed
  <2>2. QED BY <1>5, <2>1
<1>7. CASE TickPlayed
  <2>1. Ticks("PLAYED", <<>>)
    BY <1>7 DEF TickPlayed
  <2>2. QED BY <1>5, <2>1
<1>8. CASE TickStreaming
  <2>1. Ticks("STREAMING", <<>>)
    BY <1>8 DEF TickStreaming
  <2>2. QED BY <1>5, <2>1
<1>9. CASE TickWaits
  <2>1. /\ Ticks(state, <<>>)
        /\ state # "SETUP_WAIT" \/ (state = "SETUP_WAIT" /\ Cardinality(DOMAIN setuped) # described)
    BY <1>9 DEF TickWaits
  <2>2. QED BY <1>5, <2>1
<1>10. ASSUME NEW to, NEW x \in Requests, to # "SETUP_WAIT", Ticks(to, <<x>>),
              x.type \notin {"GET_PARAMETER", "TEARDOWN", "PLAY"}
       PROVE  Form(to, <<x>>)
  <2>1. PICK reqs : reqs = <<x>>
    OBVIOUS
  <2>2. reqs \in Seq(Requests) /\ DOMAIN reqs = {1} /\ reqs[1] = x
    BY <2>1
  <2>3. Form(to, reqs)
    BY <1>1, <1>10, <2>1, <2>2 DEF Form
  <2>4. QED BY <2>1, <2>3
<1>11. CASE TickUnknown
  <2>1. PICK x : x = Request("OPTIONS", 0)
    OBVIOUS
  <2>2. x \in Requests /\ x.type = "OPTIONS"
    BY <1>2, <2>1 DEF Request, Requests, RequestTypes
  <2>3. Ticks("OPTIONS_WAIT", <<x>>)
    BY <1>11, <2>1 DEF TickUnknown
  <2>4. QED BY <1>10, <2>2, <2>3
<1>12. CASE TickDescribe
  <2>1. PICK x : x = Request("DESCRIBE", 0)
    OBVIOUS
  <2>2. x \in Requests /\ x.type = "DESCRIBE"
    BY <1>2, <2>1 DEF Request, Requests, RequestTypes
  <2>3. Ticks("DESCRIBE_WAIT", <<x>>)
    BY <1>12, <2>1 DEF TickDescribe
  <2>4. QED BY <1>10, <2>2, <2>3
<1>13. CASE TickSetup
  <2>1. PICK reqs : reqs = SetupRequests
    OBVIOUS
  <2>2. state = "DESCRIBED" /\ Ticks("SETUP_WAIT", reqs)
    BY <1>13, <2>1 DEF TickSetup
  <2>3. described > 0 /\ DOMAIN setuped = {}
    BY <1>3, <2>2 DEF Phases
  <2>4. described = Len(setup.receivers)
    BY <1>2, <2>3
  <2>5. reqs \in Seq(Requests) /\ \A j \in DOMAIN reqs : reqs[j].type = "SETUP"
    BY <1>2, <2>1, <2>3, <2>4, SetupRequestsType
  <2>6. Form("SETUP_WAIT", reqs)
    BY <1>1, <2>2, <2>3, <2>5 DEF Form
  <2>7. QED BY <2>6
<1>14. CASE TickPlay
  <2>1. PICK reqs : reqs = ForEach("PLAY", DOMAIN setuped)
    OBVIOUS
  <2>2. /\ state = "SETUP_WAIT" /\ Cardinality(DOMAIN setuped) = described
        /\ Ticks("PLAY_WAIT", reqs)
    BY <1>14, <2>1 DEF TickPlay
  <2>3. /\ reqs \in Seq(Requests)
        /\ \A i \in DOMAIN reqs : reqs[i].type = "PLAY" /\ reqs[i].arg \in DOMAIN setuped
    <3>1. "PLAY" \in RequestTypes
      BY DEF RequestTypes
    <3>2. IsFiniteSet(DOMAIN setuped) /\ DOMAIN setuped \in SUBSET Nat
      BY <1>2, KeysFinite
    <3>3. QED BY <1>2, <2>1, <3>1, <3>2, ForEachRequests
  <2>4. Form("PLAY_WAIT", reqs)
    BY <1>1, <2>2, <2>3 DEF Form
  <2>5. QED BY <2>4
<1>15. CASE TickTeardown
  <2>1. PICK reqs : reqs = ForEach("TEARDOWN", DOMAIN played)
    OBVIOUS
  <2>2. ~asyncPlay /\ Ticks("DESCRIBED", reqs)
    BY <1>15, <2>1 DEF TickTeardown
  <2>3. /\ reqs \in Seq(Requests)
        /\ \A i \in DOMAIN reqs : reqs[i].type = "TEARDOWN" /\ reqs[i].arg \in DOMAIN played
    <3>1. "TEARDOWN" \in RequestTypes
      BY DEF RequestTypes
    <3>2. IsFiniteSet(DOMAIN played) /\ DOMAIN played \in SUBSET Nat
      BY <1>2, KeysFinite
    <3>3. QED BY <1>2, <2>1, <3>1, <3>2, ForEachRequests
  <2>4. Form("DESCRIBED", reqs)
    BY <1>1, <2>2, <2>3 DEF Form
  <2>5. QED BY <2>4
<1>16. QED
  BY <1>1, <1>5, <1>6, <1>7, <1>8, <1>9, <1>11, <1>12, <1>13, <1>14, <1>15

LEMMA TidyQuiet ==
  ASSUME Tidy, UNCHANGED <<setup, back, setuped, played, srv, running, crashed, lost>>,
         Asked("GET_PARAMETER")' \subseteq Olds, Asked("TEARDOWN")' \subseteq Olds
  PROVE  Tidy'
<1>1. Apart /\ Granted /\ Recent /\ NoOrphans
  BY DEF Tidy
<1>2. News' = News /\ Olds' \subseteq Olds
  BY DEF News, Of, Olds
<1>3. Apart'
  BY <1>1, <1>2 DEF Apart, Exactly, Of
<1>4. Granted'
  BY <1>1, <1>2 DEF Granted
<1>5. Recent'
  BY <1>1 DEF Recent, Of
<1>6. NoOrphans'
  BY <1>1 DEF NoOrphans
<1>7. QED BY <1>3, <1>4, <1>5, <1>6 DEF Tidy

LEMMA TidyTick ==
  ASSUME Typed, Tidy, UNCHANGED setup, NEW to, NEW reqs, Form(to, reqs)
  PROVE  Tidy'
<1>1. TypeOK /\ Lines /\ Kept
  BY DEF Typed
<1>2. /\ reqs \in Seq(Requests) /\ Ticks(to, reqs)
      /\ \A j \in DOMAIN reqs :
           /\ reqs[j].type # "GET_PARAMETER"
           /\ reqs[j].type = "TEARDOWN" => reqs[j].arg \in DOMAIN played
  BY DEF Form
<1>3. /\ UNCHANGED <<app, tables, link, back, server>>
      /\ Grown(Line, Line', reqs, DOMAIN played)
  BY <1>1, <1>2, TickLine, Zenon
<1>4. UNCHANGED <<setup, back, setuped, played, srv, running, crashed, lost>>
  BY <1>3 DEF tables, link, server
<1>5. In(Line', "GET_PARAMETER") \subseteq Olds
  <2>1. In(Line', "GET_PARAMETER") \subseteq
          In(Line, "GET_PARAMETER") \cup {reqs[j].arg : j \in Of(reqs, "GET_PARAMETER")}
            \cup DOMAIN played
    BY <1>3, GrownCalls
  <2>2. Of(reqs, "GET_PARAMETER") = {}
    BY <1>2 DEF Of
  <2>3. QED BY <2>1, <2>2 DEF Olds, Asked
<1>6. In(Line', "TEARDOWN") \subseteq Olds
  <2>1. In(Line', "TEARDOWN") \subseteq
          In(Line, "TEARDOWN") \cup {reqs[j].arg : j \in Of(reqs, "TEARDOWN")} \cup {}
    BY <1>3, GrownCalls
  <2>2. \A j \in Of(reqs, "TEARDOWN") : reqs[j].arg \in DOMAIN played
    BY <1>2 DEF Of
  <2>3. QED BY <2>1, <2>2 DEF Olds, Asked
<1>7. QED BY <1>4, <1>5, <1>6, AskingNext, TidyQuiet

LEMMA TidyLink ==
  ASSUME Typed, Tidy, UNCHANGED setup,
         TickDead \/ Connected \/ ConnectFails \/ Lose \/ PlayASync \/ TeardownASync
  PROVE  Tidy'
<1>1. CASE TickDead \/ Connected \/ PlayASync \/ TeardownASync
  <2>1. UNCHANGED <<setup, back, setuped, played, srv, running, crashed, lost, wire>>
    BY <1>1 DEF TickDead, Connected, PlayASync, TeardownASync, tables, server, link
  <2>2. Line' = Line
    BY <2>1 DEF Line, Bare
  <2>3. Asked("GET_PARAMETER")' \subseteq Olds /\ Asked("TEARDOWN")' \subseteq Olds
    BY <2>2, AskingNext DEF Olds, Asked
  <2>4. QED BY <2>1, <2>3, TidyQuiet
<1>2. CASE ConnectFails
  <2>1. /\ conn = "connecting" /\ wire' = <<>>
        /\ UNCHANGED <<setup, back, setuped, played, srv, running, crashed, lost>>
    BY <1>2 DEF ConnectFails, tables, server
  <2>2. back = <<>>
    BY <2>1 DEF Typed, Joined
  <2>3. \A t : In(Line', t) = {}
    BY <2>1, <2>2, CutLine
  <2>4. Asked("GET_PARAMETER")' \subseteq Olds /\ Asked("TEARDOWN")' \subseteq Olds
    BY <2>3, AskingNext
  <2>5. QED BY <2>1, <2>4, TidyQuiet
<1>3. CASE Lose
  <2>1. /\ wire' = <<>> /\ back' = <<>> /\ lost' = TRUE
        /\ UNCHANGED <<setup, setuped, played, running, crashed>>
    BY <1>3 DEF Lose, tables
  <2>2. \A t : In(Line', t) = {}
    BY <2>1, CutLine
  <2>3. \A t : Asked(t)' = {}
    BY <2>2, AskingNext
  <2>4. DOMAIN back' = {} /\ \A t : Of(back', t) = {}
    BY <2>1 DEF Of
  <2>5. News' = {} /\ Olds' = DOMAIN played
    BY <2>1, <2>3, <2>4 DEF News, Olds, Of
  <2>6. Apart'
    BY <2>1, <2>4, <2>5 DEF Tidy, Apart, Exactly, Olds, Of
  <2>7. Granted'
    BY <2>1, <2>5 DEF Tidy, Granted
  <2>8. Recent'
    BY <2>4 DEF Recent, Of
  <2>9. NoOrphans'
    BY <2>1 DEF Tidy, NoOrphans
  <2>10. QED BY <2>6, <2>7, <2>8, <2>9 DEF Tidy
<1>4. QED BY <1>1, <1>2, <1>3

LEMMA TidyPass ==
  ASSUME Typed, Tidy, UNCHANGED setup, Pass
  PROVE  Tidy'
<1>1. /\ back = <<>> /\ wire = <<>>
      /\ UNCHANGED <<setup, state, running, crashed, lost, wire, back>>
  BY DEF Pass, link
<1>2. Aged(setuped, setuped') /\ Aged(played, played') /\ DOMAIN srv' \subseteq DOMAIN srv
  BY PassTables DEF Typed
<1>3. /\ DOMAIN setuped' = DOMAIN setuped /\ DOMAIN played' = DOMAIN played
      /\ \A k \in DOMAIN setuped : setuped'[k].rtp = setuped[k].rtp
      /\ \A k \in DOMAIN played : played'[k].rtp = played[k].rtp
  BY <1>2 DEF Aged
<1>4. Line' = Line
  BY <1>1 DEF Line, Bare
<1>5. \A t : Asked(t)' = Asked(t)
  BY <1>4, AskingNext DEF Asked
<1>6. News' = News /\ Olds' = Olds
  BY <1>1, <1>3, <1>5 DEF News, Of, Olds
<1>7. Apart'
  BY <1>1, <1>3, <1>6 DEF Tidy, Apart, Exactly, Of
<1>8. Granted'
  BY <1>1, <1>3, <1>6 DEF Tidy, Granted
<1>9. Recent'
  BY <1>1 DEF Recent, Of
<1>10. NoOrphans'
  <2>1. NoOrphans
    BY DEF Tidy
  <2>2. ASSUME "refuse" \notin setup.faults, NEW x \in running
        PROVE  \E t \in {setuped', played'} : \E k \in DOMAIN t : t[k].rtp = x
    <3>1. \/ \E k \in DOMAIN setuped : setuped[k].rtp = x
          \/ \E k \in DOMAIN played : played[k].rtp = x
      BY <2>1, <2>2 DEF NoOrphans
    <3>2. QED BY <1>3, <3>1
  <2>3. ASSUME ~lost /\ setup.faults \cap {"coalesce", "bind"} = {} /\ ~crashed,
               NEW k \in DOMAIN srv'
        PROVE  \/ \E t \in {setuped', played'} : k \in DOMAIN t /\ t[k].rtp # 0
               \/ \E i \in DOMAIN back : back[i].type = "SETUP" /\ back[i].id = k
    <3>1. \/ k \in DOMAIN setuped /\ setuped[k].rtp # 0
          \/ k \in DOMAIN played /\ played[k].rtp # 0
          \/ \E i \in DOMAIN back : back[i].type = "SETUP" /\ back[i].id = k
      BY <1>2, <2>1, <2>3 DEF NoOrphans
    <3>2. QED BY <1>3, <3>1
  <2>4. QED BY <1>1, <2>2, <2>3 DEF NoOrphans
<1>11. QED BY <1>7, <1>8, <1>9, <1>10 DEF Tidy

-----------------------------------------------------------------------------
(* Every step keeps Tidy: the server, and an answer *)

LEMMA NamedAsked ==
  ASSUME Typed
  PROVE  /\ \A t : t # "SETUP" => Asked(t) \subseteq 0..issued
         /\ Olds \subseteq 0..issued /\ News \subseteq 0..issued /\ DOMAIN setuped \subseteq 0..issued
         /\ issued \in Nat /\ 0 \notin DOMAIN srv
<1>1. Named /\ Kept
  BY DEF Typed, Lines
<1>2. \A t : t # "SETUP" => Asked(t) \subseteq 0..issued
  BY <1>1 DEF Named, Names, Asked, In, Of
<1>3. Olds \subseteq 0..issued
  BY <1>1, <1>2 DEF Olds, Kept
<1>4. News \subseteq 0..issued
  BY <1>1 DEF Named, News, Of
<1>5. issued \in Nat /\ DOMAIN srv \subseteq 1..issued
  <2>1. issued \in 0..MaxSessions /\ MaxSessions \in Nat /\ DOMAIN srv \subseteq 1..issued
    BY ClientAssumption DEF Typed, TypeOK
  <2>2. QED BY <2>1
<1>6. QED BY <1>1, <1>2, <1>3, <1>4, <1>5 DEF Kept

\* The answers afterwards: one more, to the oldest request.
Answered(r, ok, id, n) ==
  /\ n \in Nat /\ DOMAIN back = 1..n /\ DOMAIN back' = 1..(n + 1)
  /\ \A i \in 1..n : back'[i] = back[i]
  /\ back'[n + 1].type = r.type /\ back'[n + 1].arg = r.arg /\ back'[n + 1].id = id
  /\ r.arg \in Asked(r.type)
  /\ r.type # "SETUP" => r.arg \in 0..issued
  /\ \A t : Asked(t)' = Asked(t)
  /\ Served(r, ok, id) /\ Said(r, ok, id)
  /\ \A i \in 1..n : back[i].id \in 0..issued
  /\ UNCHANGED <<setup, state, asyncPlay, toggles, described, setuped, played>>
  /\ UNCHANGED <<running, crashed, conn, alive, faults, lost, ticked>>

LEMMA ServeAnswers ==
  ASSUME Typed, UNCHANGED setup, NEW r, NEW ok, NEW id, Serves(r, ok, id)
  PROVE  \E n : Answered(r, ok, id, n)
<1>1. TypeOK /\ Lines
  BY DEF Typed
<1>2. /\ wire # <<>> /\ r = Head(wire) /\ ok \in BOOLEAN
      /\ Answers(ok, id) /\ UNCHANGED <<state, app, tables, link, ticked>>
  BY DEF Serves
<1>3. /\ UNCHANGED <<setup, state, asyncPlay, toggles, described, setuped, played>>
      /\ UNCHANGED <<running, crashed, conn, alive, faults, lost, ticked>>
  BY <1>2 DEF app, tables, link
<1>4. Served(r, ok, id) /\ Said(r, ok, id)
  BY <1>1, ServeTables
<1>5. setup \in Setups /\ id \in Keys
  BY <1>1, <1>4 DEF TypeOK, Served
<1>6. PICK n \in Nat : n = Len(back)
  BY <1>1, LineKnown
<1>7. /\ Line' = Line
      /\ DOMAIN back' = 1..(n + 1)
      /\ \A i \in 1..n : back'[i] = back[i]
      /\ back'[n + 1].type = r.type /\ back'[n + 1].arg = r.arg /\ back'[n + 1].id = id
      /\ Line[n + 1].type = r.type /\ Line[n + 1].arg = r.arg /\ n + 1 \in DOMAIN Line
  BY <1>1, <1>2, <1>5, <1>6, ServeLine
<1>8. DOMAIN back = 1..n
  BY <1>1, <1>6, LineKnown
<1>9. \A t : Asked(t)' = Asked(t)
  BY <1>7, AskingNext DEF Asked
<1>10. r.arg \in Asked(r.type)
  BY <1>7 DEF Asked, In, Of
<1>11. r.type # "SETUP" => r.arg \in 0..issued
  BY <1>10, NamedAsked
<1>12. \A i \in 1..n : back[i].id \in 0..issued
  BY <1>1, <1>8 DEF Lines, Named
<1>13. Answered(r, ok, id, n)
  BY <1>3, <1>4, <1>6, <1>7, <1>8, <1>9, <1>10, <1>11, <1>12 DEF Answered
<1>14. QED BY <1>13

LEMMA TidyServe ==
  ASSUME Typed, Tidy, NEW r, NEW ok, NEW id, NEW n, Answered(r, ok, id, n)
  PROVE  Tidy'
<1>1. /\ n \in Nat /\ DOMAIN back = 1..n /\ DOMAIN back' = 1..(n + 1)
      /\ \A i \in 1..n : back'[i] = back[i]
      /\ back'[n + 1].type = r.type /\ back'[n + 1].arg = r.arg /\ back'[n + 1].id = id
      /\ r.type # "SETUP" => r.arg \in 0..issued
      /\ \A t : Asked(t)' = Asked(t)
      /\ \A i \in 1..n : back[i].id \in 0..issued
      /\ UNCHANGED <<setup, state, asyncPlay, toggles, described, setuped, played>>
      /\ UNCHANGED <<running, crashed, conn, alive, faults, lost, ticked>>
  BY DEF Answered
<1>2. Served(r, ok, id) /\ Said(r, ok, id)
  BY DEF Answered
<1>3. Apart /\ Granted /\ Recent /\ NoOrphans
  BY DEF Tidy
<1>4. /\ Olds \subseteq 0..issued /\ News \subseteq 0..issued
      /\ DOMAIN setuped \subseteq 0..issued /\ issued \in Nat /\ 0 \notin DOMAIN srv
  BY NamedAsked
<1>5. \A i \in 1..(n + 1) : i \in 1..n \/ i = n + 1
  BY <1>1
<1>6. Olds' = Olds
  BY <1>1 DEF Olds
<1>7. /\ \A k \in News' : k \in News \/ (k = id /\ r.type = "SETUP")
      /\ \A k \in News : k \in News'
  <2>1. ASSUME NEW i \in Of(back', "SETUP") PROVE back'[i].id \in News \/ (back'[i].id = id /\ r.type = "SETUP")
    BY <1>1, <1>5 DEF Of, News
  <2>2. ASSUME NEW i \in Of(back, "SETUP") PROVE back[i].id \in News'
    <3>1. i \in 1..n /\ i \in 1..(n + 1)
      BY <1>1 DEF Of
    <3>2. i \in Of(back', "SETUP") /\ back'[i].id = back[i].id
      BY <1>1, <3>1 DEF Of
    <3>3. QED BY <3>2 DEF News, Of
  <2>3. QED BY <2>1, <2>2 DEF News, Of
<1>8. r.type = "SETUP" => (id = 0 /\ "refuse" \in setup.faults) \/ (id = issued + 1 /\ id \notin 0..issued)
  BY <1>2, <1>4 DEF Said
<1>9. Apart'
  <2>1. SUFFICES ASSUME Exactly PROVE Apart'
    BY <1>1 DEF Apart, Exactly
  <2>2. /\ \A k \in (DOMAIN setuped \cup News) \cap Olds : k = 0
        /\ \A k \in DOMAIN setuped \cap News : k = 0
        /\ \A i, j \in Of(back, "SETUP") : back[i].id = back[j].id /\ back[i].id # 0 => i = j
    BY <1>3, <2>1 DEF Apart
  <2>3. \A k \in (DOMAIN setuped' \cup News') \cap Olds' : k = 0
    BY <1>1, <1>4, <1>6, <1>7, <1>8, <2>2
  <2>4. \A k \in DOMAIN setuped' \cap News' : k = 0
    BY <1>1, <1>4, <1>7, <1>8, <2>2
  <2>5. ASSUME NEW i \in Of(back', "SETUP"), NEW j \in Of(back', "SETUP"),
               back'[i].id = back'[j].id, back'[i].id # 0
        PROVE  i = j
    <3>1. i \in 1..(n + 1) /\ j \in 1..(n + 1) /\ back'[i].type = "SETUP" /\ back'[j].type = "SETUP"
      BY <1>1 DEF Of
    <3>2. CASE i \in 1..n /\ j \in 1..n
      BY <1>1, <2>2, <2>5, <3>1, <3>2 DEF Of
    <3>3. CASE i = n + 1 /\ j \in 1..n
      BY <1>1, <1>8, <2>5, <3>1, <3>3
    <3>4. CASE j = n + 1 /\ i \in 1..n
      BY <1>1, <1>8, <2>5, <3>1, <3>4
    <3>5. QED BY <1>5, <3>1, <3>2, <3>3, <3>4
  <2>6. QED BY <2>3, <2>4, <2>5 DEF Apart, Of
<1>10. Granted'
  BY <1>1, <1>3, <1>4, <1>7, <1>8 DEF Granted
<1>11. /\ \A k \in DOMAIN srv' : \/ k \in DOMAIN srv /\ srv'[k] = srv[k]
                                 \/ k = id /\ srv'[k].idle = 0
       /\ \A k \in DOMAIN srv : \/ k \in DOMAIN srv' /\ srv'[k] = srv[k]
                                \/ k \in DOMAIN srv' /\ srv'[k].idle = 0 /\ k = id
                                   /\ (srv[k].playing => srv'[k].playing)
                                \/ k = id /\ r.type = "TEARDOWN" /\ k \notin DOMAIN srv'
       /\ \A k \in DOMAIN srv' : k \in DOMAIN srv \/ (r.type = "SETUP" /\ k = id)
       /\ \A k \in DOMAIN srv' : k # 0
  BY <1>2 DEF Served, Said
<1>12. \A i \in 1..n : back[i].type # "SETUP" => back[i].arg \in 0..issued
  <2>1. Lines
    BY DEF Typed
  <2>2. Parts(back, wire, Line, Len(back), Len(wire)) /\ Len(back) \in Nat /\ Len(wire) \in Nat
        /\ DOMAIN back = 1..Len(back)
    BY <2>1, LineKnown
  <2>3. PICK p \in Nat, m \in Nat : p = Len(back) /\ m = Len(wire)
    BY <2>2
  <2>4. /\ DOMAIN Line = 1..(p + m) /\ DOMAIN back = 1..p
        /\ \A i \in 1..p : Line[i].type = back[i].type /\ Line[i].arg = back[i].arg
    BY <2>2, <2>3 DEF Parts
  <2>5. ASSUME NEW i \in 1..n, back[i].type # "SETUP" PROVE back[i].arg \in 0..issued
    <3>1. i \in 1..p /\ i \in DOMAIN Line
      BY <1>1, <2>3, <2>4
    <3>2. Names(Line[i])
      BY <2>1, <3>1 DEF Lines, Named
    <3>3. QED BY <2>4, <2>5, <3>1, <3>2 DEF Names
  <2>6. QED BY <2>5
<1>13. Recent'
  <2>1. ASSUME NEW i \in 1..(n + 1), back'[i].type = "TEARDOWN" PROVE back'[i].arg \notin DOMAIN srv'
    <3>1. CASE i = n + 1
      BY <1>1, <1>2, <2>1, <3>1 DEF Said
    <3>2. CASE i \in 1..n
      <4>1. back[i].type = "TEARDOWN" /\ back'[i].arg = back[i].arg /\ i \in Of(back, "TEARDOWN")
        BY <1>1, <2>1, <3>2 DEF Of
      <4>2. back[i].arg \notin DOMAIN srv /\ back[i].arg \in 0..issued
        BY <1>3, <1>12, <3>2, <4>1 DEF Recent
      <4>3. QED BY <1>8, <1>11, <4>1, <4>2
    <3>3. QED BY <1>5, <3>1, <3>2
  <2>2. ASSUME NEW i \in 1..(n + 1), back'[i].id \in DOMAIN srv' PROVE srv'[back'[i].id].idle = 0
    <3>1. CASE i = n + 1
      BY <1>1, <1>2, <2>2, <3>1 DEF Said
    <3>2. CASE i \in 1..n
      BY <1>1, <1>3, <1>11, <2>2, <3>2 DEF Recent
    <3>3. QED BY <1>5, <3>1, <3>2
  <2>3. ASSUME NEW i \in 1..(n + 1), back'[i].type = "GET_PARAMETER", back'[i].arg \in DOMAIN srv'
        PROVE  srv'[back'[i].arg].idle = 0
    <3>1. CASE i = n + 1
      BY <1>1, <1>2, <2>3, <3>1 DEF Said
    <3>2. CASE i \in 1..n
      <4>1. back[i].arg = back'[i].arg /\ i \in Of(back, "GET_PARAMETER")
        BY <1>1, <2>3, <3>2 DEF Of
      <4>2. back[i].arg \in DOMAIN srv => srv[back[i].arg].idle = 0
        BY <1>3, <4>1 DEF Recent
      <4>3. QED BY <1>11, <2>3, <4>1, <4>2
    <3>3. QED BY <1>5, <3>1, <3>2
  <2>4. ASSUME NEW i \in 1..(n + 1), back'[i].type = "PLAY", back'[i].arg \in DOMAIN srv'
        PROVE  srv'[back'[i].arg].idle = 0 /\ srv'[back'[i].arg].playing
    <3>1. CASE i = n + 1
      BY <1>1, <1>2, <2>4, <3>1 DEF Said
    <3>2. CASE i \in 1..n
      <4>1. back[i].arg = back'[i].arg /\ i \in Of(back, "PLAY") /\ back[i].arg \in 0..issued
        BY <1>1, <1>12, <2>4, <3>2 DEF Of
      <4>2. back[i].arg \in DOMAIN srv => /\ srv[back[i].arg].idle = 0
                                          /\ srv[back[i].arg].playing
        BY <1>3, <4>1 DEF Recent
      <4>3. back[i].arg \in DOMAIN srv
        BY <1>8, <1>11, <2>4, <4>1
      <4>4. QED BY <1>11, <2>4, <4>1, <4>2, <4>3
    <3>3. QED BY <1>5, <3>1, <3>2
  <2>5. QED BY <1>1, <2>1, <2>2, <2>3, <2>4 DEF Recent, Of
<1>14. NoOrphans'
  <2>1. ASSUME ~lost /\ setup.faults \cap {"coalesce", "bind"} = {} /\ ~crashed,
               NEW k \in DOMAIN srv'
        PROVE  \/ \E t \in {setuped, played} : k \in DOMAIN t /\ t[k].rtp # 0
               \/ \E i \in 1..(n + 1) : back'[i].type = "SETUP" /\ back'[i].id = k
    <3>1. CASE k \in DOMAIN srv
      <4>1. \/ \E t \in {setuped, played} : k \in DOMAIN t /\ t[k].rtp # 0
            \/ \E i \in DOMAIN back : back[i].type = "SETUP" /\ back[i].id = k
        BY <1>3, <2>1, <3>1 DEF NoOrphans
      <4>2. \A i \in 1..n : i \in 1..(n + 1)
        BY <1>1
      <4>3. QED BY <1>1, <4>1, <4>2
    <3>2. CASE r.type = "SETUP" /\ k = id
      <4>1. n + 1 \in 1..(n + 1)
        BY <1>1
      <4>2. QED BY <1>1, <3>2, <4>1
    <3>3. QED BY <1>11, <3>1, <3>2
  <2>2. "refuse" \notin setup.faults =>
          \A x \in running : \E t \in {setuped, played} : \E k \in DOMAIN t : t[k].rtp = x
    BY <1>3 DEF NoOrphans
  <2>3. QED BY <1>1, <2>1, <2>2 DEF NoOrphans
<1>15. QED BY <1>9, <1>10, <1>13, <1>14 DEF Tidy

\* What is left of the answers.
LEMMA ReadRest ==
  ASSUME Typed, Tidy, UNCHANGED setup, NEW a, NEW j, NEW k, Reads(a, j, k)
  PROVE  /\ News' \subseteq News /\ \A t : Asked(t)' \subseteq Asked(t)
         /\ j \in DOMAIN back /\ a.type = back[j].type /\ a.arg = back[j].arg
         /\ a.arg \in Asked(a.type) /\ (a.type # "SETUP" => a.arg \in 0..issued)
         /\ UNCHANGED <<srv, issued, lost>>
         /\ Recent'
         /\ Exactly => \A p, q \in Of(back', "SETUP") :
                         back'[p].id = back'[q].id /\ back'[p].id # 0 => p = q
         /\ "coalesce" \notin setup.faults =>
              \A i \in DOMAIN back : i = j \/ \E p \in DOMAIN back' : back'[p] = back[i]
         /\ (Exactly /\ a.type = "SETUP") =>
              a.id = back[j].id /\ a.id \in News /\ (a.id \in News' => a.id = 0)
<1>1. /\ k \in 1..Len(back) /\ (k = 1 \/ "coalesce" \in setup.faults)
      /\ Answer(a, j, k)
      /\ DOMAIN back' = 1..(Len(back) - k) /\ Len(back) \in Nat
      /\ \A i \in 1..(Len(back) - k) : i + k \in DOMAIN back /\ back'[i] = back[i + k]
      /\ UNCHANGED <<app, link, wire, server, ticked>>
  BY DEF Reads
<1>2. UNCHANGED <<srv, issued, lost>>
  BY <1>1 DEF server, link
<1>3. DOMAIN back = 1..Len(back)
  BY LineKnown DEF Typed
<1>4. PICK n \in Nat : n = Len(back)
  BY <1>1
<1>5. /\ j \in 1..k /\ j \in DOMAIN back /\ a.type = back[j].type /\ a.arg = back[j].arg
      /\ back[j].id # 0 => a.id = back[j].id
      /\ a.id # 0 => \E i \in 1..k : i \in DOMAIN back /\ back[i].id = a.id
  BY <1>1 DEF Answer
<1>6. Apart /\ Granted /\ Recent
  BY DEF Tidy
<1>7. News' \subseteq News
  BY <1>1 DEF News, Of
<1>8. \A t : Asked(t)' \subseteq Asked(t)
  BY ReadLines
<1>9. a.arg \in Asked(a.type) /\ (a.type # "SETUP" => a.arg \in 0..issued)
  BY ReadLines, NamedAsked
<1>10. Recent'
  <2>1. \A i \in DOMAIN back' : \E m \in DOMAIN back : back'[i] = back[m]
    BY <1>1
  <2>2. \A t : \A i \in Of(back', t) : \E m \in Of(back, t) : back'[i] = back[m]
    BY <2>1 DEF Of
  <2>3. \A i \in Of(back', "TEARDOWN") : back'[i].arg \notin DOMAIN srv
    BY <1>6, <2>2 DEF Recent
  <2>4. \A i \in DOMAIN back' : back'[i].id \in DOMAIN srv => srv[back'[i].id].idle = 0
    BY <1>6, <2>1 DEF Recent
  <2>5. \A i \in Of(back', "GET_PARAMETER") :
          back'[i].arg \in DOMAIN srv => srv[back'[i].arg].idle = 0
    BY <1>6, <2>2 DEF Recent
  <2>6. \A i \in Of(back', "PLAY") :
          back'[i].arg \in DOMAIN srv => srv[back'[i].arg].idle = 0 /\ srv[back'[i].arg].playing
    BY <1>6, <2>2 DEF Recent
  <2>7. QED BY <1>2, <2>3, <2>4, <2>5, <2>6 DEF Recent, Of
<1>11. ASSUME NEW p \in 1..(n - k), NEW q \in 1..(n - k), p + k = q + k PROVE p = q
  BY <1>1, <1>4, <1>11
<1>12. Exactly => \A p, q \in Of(back', "SETUP") :
                    back'[p].id = back'[q].id /\ back'[p].id # 0 => p = q
  <2>1. ASSUME Exactly, NEW p \in Of(back', "SETUP"), NEW q \in Of(back', "SETUP"),
               back'[p].id = back'[q].id, back'[p].id # 0
        PROVE  p = q
    <3>1. /\ p \in 1..(n - k) /\ q \in 1..(n - k) /\ p + k \in DOMAIN back /\ q + k \in DOMAIN back
          /\ back'[p] = back[p + k] /\ back'[q] = back[q + k]
          /\ back'[p].type = "SETUP" /\ back'[q].type = "SETUP"
      BY <1>1, <1>4 DEF Of
    <3>2. p + k \in Of(back, "SETUP") /\ q + k \in Of(back, "SETUP")
      BY <3>1 DEF Of
    <3>3. p + k = q + k
      BY <1>6, <2>1, <3>1, <3>2 DEF Apart
    <3>4. QED BY <1>11, <3>1, <3>3
  <2>2. QED BY <2>1
<1>13. ASSUME "coalesce" \notin setup.faults, NEW i \in DOMAIN back, i # j
       PROVE  \E p \in DOMAIN back' : back'[p] = back[i]
  <2>1. k = 1 /\ j = 1 /\ i \in 1..n
    BY <1>1, <1>3, <1>4, <1>5, <1>13
  <2>2. i - 1 \in 1..(n - 1) /\ (i - 1) + 1 = i
    BY <1>13, <2>1
  <2>3. PICK p \in 1..(n - 1) : p + 1 = i
    BY <2>2
  <2>4. p \in DOMAIN back' /\ back'[p] = back[i]
    BY <1>1, <1>4, <2>1, <2>3
  <2>5. QED BY <2>4
<1>14. ASSUME Exactly, a.type = "SETUP"
       PROVE  a.id = back[j].id /\ a.id \in News /\ (a.id \in News' => a.id = 0)
  <2>1. j \in Of(back, "SETUP") /\ back[j].id \in News
    BY <1>5, <1>14 DEF Of, News
  <2>2. a.id = back[j].id
    <3>1. CASE back[j].id # 0
      BY <1>5, <3>1
    <3>2. CASE back[j].id = 0
      <4>1. "refuse" \in setup.faults
        BY <1>6, <2>1, <3>2 DEF Granted
      <4>2. k = 1
        BY <1>1, <1>14, <4>1 DEF Exactly
      <4>3. \A i \in 1..k : i = j
        BY <1>5, <4>2
      <4>4. QED BY <1>5, <3>2, <4>3
    <3>3. QED BY <3>1, <3>2
  <2>3. ASSUME a.id \in News' PROVE a.id = 0
    <3>1. PICK p \in Of(back', "SETUP") : back'[p].id = a.id
      BY <2>3 DEF News, Of
    <3>2. p \in 1..(n - k) /\ p + k \in DOMAIN back /\ back[p + k].type = "SETUP"
          /\ back[p + k].id = a.id
      BY <1>1, <1>4, <3>1 DEF Of
    <3>3. p + k # j
      BY <1>1, <1>4, <1>5, <3>2
    <3>4. p + k \in Of(back, "SETUP")
      BY <3>2 DEF Of
    <3>5. QED BY <1>6, <1>14, <2>1, <2>2, <3>2, <3>3, <3>4 DEF Apart
  <2>4. QED BY <2>1, <2>2, <2>3
<1>15. QED BY <1>2, <1>5, <1>7, <1>8, <1>9, <1>10, <1>12, <1>13, <1>14, Zenon

LEMMA TidyRead ==
  ASSUME Typed, Tidy, UNCHANGED setup, ~crashed, NEW a, NEW j, NEW k, Reads(a, j, k)
  PROVE  Tidy'
<1>1. /\ News' \subseteq News
      /\ Asked("GET_PARAMETER")' \subseteq Asked("GET_PARAMETER")
      /\ Asked("TEARDOWN")' \subseteq Asked("TEARDOWN")
      /\ j \in DOMAIN back /\ a.type = back[j].type /\ a.arg = back[j].arg
      /\ a.arg \in Asked(a.type) /\ (a.type # "SETUP" => a.arg \in 0..issued)
      /\ UNCHANGED <<srv, issued, lost>>
  BY ReadRest
<1>2. Recent'
  BY ReadRest
<1>3. Exactly => \A p, q \in Of(back', "SETUP") :
                   back'[p].id = back'[q].id /\ back'[p].id # 0 => p = q
  BY ReadRest
<1>4. "coalesce" \notin setup.faults =>
        \A i \in DOMAIN back : i = j \/ \E p \in DOMAIN back' : back'[p] = back[i]
  BY ReadRest
<1>5. (Exactly /\ a.type = "SETUP") =>
        a.id = back[j].id /\ a.id \in News /\ (a.id \in News' => a.id = 0)
  BY ReadRest
<1>6. Apart /\ Granted /\ Recent /\ NoOrphans
  BY DEF Tidy
<1>7. 0 \notin DOMAIN srv
  BY NamedAsked
<1>8. /\ Table(setuped) /\ Table(played) /\ Kept
  BY DEF Typed, TypeOK
<1>9. /\ "refuse" \notin setup.faults => \A x \in running :
                                           \/ \E y \in DOMAIN setuped : setuped[y].rtp = x
                                           \/ \E y \in DOMAIN played : played[y].rtp = x
      /\ (~lost /\ setup.faults \cap {"coalesce", "bind"} = {}) =>
           \A y \in DOMAIN srv :
             \/ y \in DOMAIN setuped /\ setuped[y].rtp # 0
             \/ y \in DOMAIN played /\ played[y].rtp # 0
             \/ \E i \in DOMAIN back : back[i].type = "SETUP" /\ back[i].id = y
  BY <1>6, ~crashed DEF NoOrphans
\* What has to be shown, with the tables' new values.
<1>10. ASSUME Exactly => /\ \A y \in (DOMAIN setuped' \cup News') \cap Olds' : y = 0
                         /\ \A y \in DOMAIN setuped' \cap News' : y = 0
       PROVE  Apart'
  BY <1>3, <1>10 DEF Apart, Exactly, Of
<1>11. ASSUME "refuse" \notin setup.faults => 0 \notin DOMAIN setuped'
       PROVE  Granted'
  BY <1>1, <1>6, <1>11 DEF Granted
<1>12. ASSUME "refuse" \notin setup.faults => \A x \in running' :
                                           \/ \E y \in DOMAIN setuped' : setuped'[y].rtp = x
                                           \/ \E y \in DOMAIN played' : played'[y].rtp = x,
              (~lost /\ setup.faults \cap {"coalesce", "bind"} = {} /\ ~crashed') =>
                \A y \in DOMAIN srv :
                  \/ y \in DOMAIN setuped' /\ setuped'[y].rtp # 0
                  \/ y \in DOMAIN played' /\ played'[y].rtp # 0
                  \/ \E i \in DOMAIN back' : back'[i].type = "SETUP" /\ back'[i].id = y
       PROVE  NoOrphans'
  BY <1>1, <1>12 DEF NoOrphans
<1>13. Exactly => /\ \A y \in (DOMAIN setuped \cup News) \cap Olds : y = 0
                  /\ \A y \in DOMAIN setuped \cap News : y = 0
  BY <1>6 DEF Apart
\* A SETUP's answer that is still on its way.
<1>14. ASSUME setup.faults \cap {"coalesce", "bind"} = {}, NEW y,
              \E i \in DOMAIN back : back[i].type = "SETUP" /\ back[i].id = y,
              a.type # "SETUP" \/ a.id # y
       PROVE  \E i \in DOMAIN back' : back'[i].type = "SETUP" /\ back'[i].id = y
  <2>1. "coalesce" \notin setup.faults /\ Exactly
    BY <1>14 DEF Exactly
  <2>2. PICK i \in DOMAIN back : back[i].type = "SETUP" /\ back[i].id = y
    BY <1>14
  <2>3. i # j
    BY <1>1, <1>5, <1>14, <2>1, <2>2
  <2>4. QED BY <1>4, <2>1, <2>2, <2>3
<1>15. ASSUME setup.faults \cap {"coalesce", "bind"} = {}, NEW y, a.type # "SETUP" \/ a.id # y
       PROVE  (\E i \in DOMAIN back : back[i].type = "SETUP" /\ back[i].id = y) =>
                \E i \in DOMAIN back' : back'[i].type = "SETUP" /\ back'[i].id = y
  BY <1>14, <1>15
<1>16. CASE UNCHANGED <<setuped, played>> /\ running' \subseteq running
            /\ (crashed' \/ a.type # "SETUP" \/ "bind" \in setup.faults)
  <2>1. Olds' \subseteq Olds
    BY <1>1, <1>16 DEF Olds
  <2>2. Apart'
    BY <1>1, <1>10, <1>13, <1>16, <2>1
  <2>3. Granted'
    BY <1>6, <1>11, <1>16 DEF Granted
  <2>4. NoOrphans'
    <3>1. ASSUME ~lost, setup.faults \cap {"coalesce", "bind"} = {}, ~crashed', NEW y \in DOMAIN srv
          PROVE  \/ y \in DOMAIN setuped /\ setuped[y].rtp # 0
                 \/ y \in DOMAIN played /\ played[y].rtp # 0
                 \/ \E i \in DOMAIN back' : back'[i].type = "SETUP" /\ back'[i].id = y
      <4>1. a.type # "SETUP"
        BY <1>16, <3>1
      <4>2. QED BY <1>9, <1>15, <3>1, <4>1
    <3>2. QED BY <1>9, <1>12, <1>16, <3>1
  <2>5. QED BY <1>2, <2>2, <2>3, <2>4 DEF Tidy
<1>17. CASE GotSetup(a) /\ UNCHANGED setuped /\ "bind" \in setup.faults /\ running' \subseteq running
  BY <1>16, <1>17 DEF GotSetup
<1>18. CASE /\ a.type = "SETUP" /\ a.arg # 0 /\ running' = running \cup {a.arg}
            /\ setuped' = Put(setuped, a.id, Session(a.id, a.arg)) /\ UNCHANGED played
  <2>1. /\ DOMAIN setuped' = DOMAIN setuped \cup {a.id}
        /\ setuped'[a.id].rtp = a.arg
        /\ \A y \in DOMAIN setuped : y # a.id => setuped'[y] = setuped[y]
    BY <1>18 DEF Put, Session
  <2>2. Olds' \subseteq Olds
    BY <1>1, <1>18 DEF Olds
  <2>3. Apart'
    <3>1. ASSUME Exactly
          PROVE  /\ \A y \in (DOMAIN setuped' \cup News') \cap Olds' : y = 0
                 /\ \A y \in DOMAIN setuped' \cap News' : y = 0
      <4>1. a.id \in News /\ (a.id \in News' => a.id = 0)
        BY <1>5, <1>18, <3>1
      <4>2. QED BY <1>1, <1>13, <2>1, <2>2, <3>1, <4>1
    <3>2. QED BY <1>10, <3>1
  <2>4. "refuse" \notin setup.faults => a.id # 0 /\ 0 \notin DOMAIN setuped /\ a.id \notin DOMAIN setuped
    <3>1. ASSUME "refuse" \notin setup.faults
          PROVE  a.id # 0 /\ 0 \notin DOMAIN setuped /\ a.id \notin DOMAIN setuped
      <4>1. Exactly /\ a.id \in News /\ 0 \notin DOMAIN setuped \cup News
        BY <1>5, <1>6, <1>18, <3>1 DEF Exactly, Granted
      <4>2. QED BY <1>13, <4>1
    <3>2. QED BY <3>1
  <2>5. Granted'
    BY <1>11, <2>1, <2>4
  <2>6. NoOrphans'
    <3>1. ASSUME "refuse" \notin setup.faults, NEW x \in running'
          PROVE  \/ \E y \in DOMAIN setuped' : setuped'[y].rtp = x
                 \/ \E y \in DOMAIN played' : played'[y].rtp = x
      <4>1. CASE x = a.arg
        BY <2>1, <4>1
      <4>2. CASE x \in running
        BY <1>9, <1>18, <2>1, <2>4, <3>1, <4>2
      <4>3. QED BY <1>18, <4>1, <4>2
    <3>2. ASSUME ~lost, setup.faults \cap {"coalesce", "bind"} = {}, ~crashed', NEW y \in DOMAIN srv
          PROVE  \/ y \in DOMAIN setuped' /\ setuped'[y].rtp # 0
                 \/ y \in DOMAIN played' /\ played'[y].rtp # 0
                 \/ \E i \in DOMAIN back' : back'[i].type = "SETUP" /\ back'[i].id = y
      <4>1. CASE y = a.id
        BY <1>18, <2>1, <4>1
      <4>2. CASE y # a.id
        BY <1>9, <1>15, <1>18, <2>1, <3>2, <4>2
      <4>3. QED BY <4>1, <4>2
    <3>3. QED BY <1>12, <3>1, <3>2
  <2>7. QED BY <1>2, <2>3, <2>5, <2>6 DEF Tidy
<1>19. CASE GotPlay(a)
  <2>1. /\ a.type = "PLAY" /\ setuped' = Drop(setuped, a.arg)
        /\ played' = Put(played, At(setuped, a.arg).id, At(setuped, a.arg))
        /\ running' = running
    BY <1>19 DEF GotPlay
  <2>2. a.arg \in DOMAIN setuped
    BY <1>1, <2>1 DEF Typed, Asking, Phases
  <2>3. PICK s : s = setuped[a.arg]
    OBVIOUS
  <2>4. s.id = a.arg /\ s.rtp # 0
    BY <1>8, <2>2, <2>3 DEF Kept
  <2>5. played' = Put(played, a.arg, s)
    BY <2>1, <2>2, <2>3, <2>4 DEF At
  <2>6. /\ DOMAIN played' = DOMAIN played \cup {a.arg} /\ played'[a.arg] = s
        /\ \A y \in DOMAIN played : y # a.arg => played'[y] = played[y]
        /\ DOMAIN setuped' = DOMAIN setuped \ {a.arg}
        /\ \A y \in DOMAIN setuped : y # a.arg => setuped'[y] = setuped[y]
    BY <2>1, <2>5 DEF Put, Drop
  <2>7. Olds' \subseteq Olds \cup {a.arg}
    BY <1>1, <2>6 DEF Olds
  <2>8. Apart'
    <3>1. ASSUME Exactly
          PROVE  /\ \A y \in (DOMAIN setuped' \cup News') \cap Olds' : y = 0
                 /\ \A y \in DOMAIN setuped' \cap News' : y = 0
      BY <1>1, <1>13, <2>2, <2>6, <2>7, <3>1
    <3>2. QED BY <1>10, <3>1
  <2>9. Granted'
    BY <1>6, <1>11, <2>6 DEF Granted
  <2>10. NoOrphans'
    <3>1. ASSUME "refuse" \notin setup.faults, NEW x \in running'
          PROVE  \/ \E y \in DOMAIN setuped' : setuped'[y].rtp = x
                 \/ \E y \in DOMAIN played' : played'[y].rtp = x
      <4>1. a.arg \notin DOMAIN played
        <5>1. Exactly /\ a.arg # 0
          BY <1>6, <2>2, <3>1 DEF Exactly, Granted
        <5>2. QED BY <1>13, <2>2, <5>1 DEF Olds
      <4>2. \/ \E y \in DOMAIN setuped : setuped[y].rtp = x
            \/ \E y \in DOMAIN played : played[y].rtp = x
        BY <1>9, <2>1, <3>1
      <4>3. QED BY <2>3, <2>6, <4>1, <4>2
    <3>2. ASSUME ~lost, setup.faults \cap {"coalesce", "bind"} = {}, ~crashed', NEW y \in DOMAIN srv
          PROVE  \/ y \in DOMAIN setuped' /\ setuped'[y].rtp # 0
                 \/ y \in DOMAIN played' /\ played'[y].rtp # 0
                 \/ \E i \in DOMAIN back' : back'[i].type = "SETUP" /\ back'[i].id = y
      <4>1. CASE y = a.arg
        BY <2>4, <2>6, <4>1
      <4>2. CASE y # a.arg
        BY <1>9, <1>15, <2>1, <2>6, <3>2, <4>2
      <4>3. QED BY <4>1, <4>2
    <3>3. QED BY <1>12, <3>1, <3>2
  <2>11. QED BY <1>2, <2>8, <2>9, <2>10 DEF Tidy
<1>20. CASE GotTeardown(a)
  <2>1. /\ a.type = "TEARDOWN" /\ running' = running \ {At(played, a.arg).rtp}
        /\ played' = Drop(played, a.arg) /\ setuped' = setuped
    BY <1>20 DEF GotTeardown
  <2>2. /\ DOMAIN played' = DOMAIN played \ {a.arg}
        /\ \A y \in DOMAIN played : y # a.arg => played'[y] = played[y]
    BY <2>1 DEF Drop
  <2>3. Olds' \subseteq Olds
    BY <1>1, <2>2 DEF Olds
  <2>4. Apart'
    BY <1>1, <1>10, <1>13, <2>1, <2>3
  <2>5. Granted'
    BY <1>6, <1>11, <2>1 DEF Granted
  <2>6. a.arg \notin DOMAIN srv
    BY <1>1, <1>6, <2>1 DEF Recent, Of
  <2>7. NoOrphans'
    <3>1. ASSUME "refuse" \notin setup.faults, NEW x \in running'
          PROVE  \/ \E y \in DOMAIN setuped' : setuped'[y].rtp = x
                 \/ \E y \in DOMAIN played' : played'[y].rtp = x
      <4>1. x \in running /\ x # At(played, a.arg).rtp
        BY <2>1, <3>1
      <4>2. \/ \E y \in DOMAIN setuped : setuped[y].rtp = x
            \/ \E y \in DOMAIN played : played[y].rtp = x
        BY <1>9, <3>1, <4>1
      <4>3. \A y \in DOMAIN played : played[y].rtp = x => y # a.arg
        BY <4>1 DEF At
      <4>4. QED BY <2>1, <2>2, <4>2, <4>3
    <3>2. ASSUME ~lost, setup.faults \cap {"coalesce", "bind"} = {}, ~crashed', NEW y \in DOMAIN srv
          PROVE  \/ y \in DOMAIN setuped' /\ setuped'[y].rtp # 0
                 \/ y \in DOMAIN played' /\ played'[y].rtp # 0
                 \/ \E i \in DOMAIN back' : back'[i].type = "SETUP" /\ back'[i].id = y
      BY <1>9, <1>15, <2>1, <2>2, <2>6, <3>2
    <3>3. QED BY <1>12, <3>1, <3>2
  <2>8. QED BY <1>2, <2>4, <2>5, <2>7 DEF Tidy
<1>21. CASE GotKeepAlive(a)
  <2>1. /\ a.type = "GET_PARAMETER" /\ setuped' = setuped /\ running' = running
        /\ played' = Put(played, a.arg, [At(played, a.arg) EXCEPT !.age = 0])
    BY <1>21 DEF GotKeepAlive
  <2>2. PICK s : s = [At(played, a.arg) EXCEPT !.age = 0]
    OBVIOUS
  <2>3. s.rtp = At(played, a.arg).rtp
    <3>1. At(played, a.arg) \in Sessions
      <4>1. NoSession \in Sessions
        BY ClientAssumption DEF NoSession, Sessions, Keys
      <4>2. QED BY <1>8, <4>1 DEF At, Table
    <3>2. PICK q \in Sessions : q = At(played, a.arg)
      BY <3>1
    <3>3. s = [q EXCEPT !.age = 0]
      BY <2>2, <3>2
    <3>4. s.rtp = q.rtp
      BY <3>3 DEF Sessions
    <3>5. QED BY <3>2, <3>4
  <2>4. /\ DOMAIN played' = DOMAIN played \cup {a.arg}
        /\ \A y \in DOMAIN played : played'[y].rtp = played[y].rtp
    <3>1. /\ DOMAIN played' = DOMAIN played \cup {a.arg}
          /\ \A y \in DOMAIN played' : played'[y] = IF y = a.arg THEN s ELSE played[y]
      BY <2>1, <2>2 DEF Put
    <3>2. ASSUME NEW y \in DOMAIN played PROVE played'[y].rtp = played[y].rtp
      <4>1. CASE y = a.arg
        <5>1. played'[y] = s /\ At(played, a.arg) = played[y]
          BY <3>1, <4>1 DEF At
        <5>2. QED BY <2>3, <5>1
      <4>2. CASE y # a.arg
        BY <3>1, <4>2
      <4>3. QED BY <4>1, <4>2
    <3>3. QED BY <3>1, <3>2
  <2>5. Olds' \subseteq Olds
    BY <1>1, <2>1, <2>4 DEF Olds
  <2>6. Apart'
    BY <1>1, <1>10, <1>13, <2>1, <2>5
  <2>7. Granted'
    BY <1>6, <1>11, <2>1 DEF Granted
  <2>8. NoOrphans'
    <3>1. ASSUME "refuse" \notin setup.faults, NEW x \in running'
          PROVE  \/ \E y \in DOMAIN setuped' : setuped'[y].rtp = x
                 \/ \E y \in DOMAIN played' : played'[y].rtp = x
      BY <1>9, <2>1, <2>4, <3>1
    <3>2. ASSUME ~lost, setup.faults \cap {"coalesce", "bind"} = {}, ~crashed', NEW y \in DOMAIN srv
          PROVE  \/ y \in DOMAIN setuped' /\ setuped'[y].rtp # 0
                 \/ y \in DOMAIN played' /\ played'[y].rtp # 0
                 \/ \E i \in DOMAIN back' : back'[i].type = "SETUP" /\ back'[i].id = y
      BY <1>9, <1>15, <2>1, <2>4, <3>2
    <3>3. QED BY <1>12, <3>1, <3>2
  <2>9. QED BY <1>2, <2>6, <2>7, <2>8 DEF Tidy
<1>22. Got(a)
  BY DEF Reads
<1>23. CASE GotOptions(a)
  BY <1>16, <1>23 DEF GotOptions
<1>24. CASE GotDescribe(a)
  BY <1>16, <1>24 DEF GotDescribe
<1>25. CASE GotNull(a)
  BY <1>16, <1>25 DEF GotNull
<1>26. CASE GotSetup(a)
  <2>1. /\ a.type = "SETUP" /\ a.arg # 0 /\ UNCHANGED played
        /\ \/ running' = running \cup {a.arg} /\ setuped' = Put(setuped, a.id, Session(a.id, a.arg))
           \/ "bind" \in setup.faults /\ running' \subseteq running /\ UNCHANGED setuped
    BY <1>26 DEF GotSetup
  <2>2. QED BY <1>17, <1>18, <1>26, <2>1
<1>27. QED BY <1>19, <1>20, <1>21, <1>22, <1>23, <1>24, <1>25, <1>26 DEF Got

LEMMA TidyInit == Init => Tidy
<1> SUFFICES ASSUME Init PROVE Tidy
  OBVIOUS
<1>1. setuped = <<>> /\ played = <<>> /\ running = {} /\ wire = <<>> /\ back = <<>> /\ srv = <<>>
  BY DEF Init
<1>2. /\ DOMAIN setuped = {} /\ DOMAIN played = {} /\ DOMAIN srv = {} /\ DOMAIN back = {}
      /\ \A t : Of(back, t) = {}
  BY <1>1 DEF Of
<1>3. News = {}
  BY <1>2 DEF News
<1>4. Bare(back) = <<>> /\ Bare(wire) = <<>>
  BY <1>1 DEF Bare
<1>5. Line = <<>> /\ DOMAIN Line = {}
  BY <1>4 DEF Line
<1>6. Olds = {}
  BY <1>2, <1>5 DEF Olds, Asked, In, Of
<1>7. Apart /\ Granted
  BY <1>2, <1>3, <1>6 DEF Apart, Granted
<1>8. Recent
  BY <1>2 DEF Recent
<1>9. NoOrphans
  BY <1>1, <1>2 DEF NoOrphans
<1>10. QED BY <1>7, <1>8, <1>9 DEF Tidy

LEMMA TidyStep ==
  ASSUME Typed, Tidy, [Next]_vars
  PROVE  Tidy'
<1>1. CASE UNCHANGED vars
  <2>1. UNCHANGED <<setup, back, setuped, played, srv, running, crashed, lost, wire>>
    BY <1>1 DEF vars, tables, link, server
  <2>2. Line' = Line
    BY <2>1 DEF Line, Bare
  <2>3. Asked("GET_PARAMETER")' \subseteq Olds /\ Asked("TEARDOWN")' \subseteq Olds
    BY <2>2, AskingNext DEF Olds, Asked
  <2>4. QED BY <2>1, <2>3, TidyQuiet
<1>2. CASE Next
  <2>1. /\ ~crashed /\ UNCHANGED setup
        /\ \/ Tick \/ Read \/ Connected \/ ConnectFails \/ Lose
           \/ PlayASync \/ TeardownASync \/ Serve \/ Pass
    BY <1>2 DEF Next, Client
  <2>2. CASE TickDead \/ Connected \/ ConnectFails \/ Lose \/ PlayASync \/ TeardownASync
    BY <2>1, <2>2, TidyLink
  <2>3. CASE Tick /\ ~TickDead
    <3>1. PICK to, reqs : Form(to, reqs)
      BY <2>3, TickForm
    <3>2. QED BY <2>1, <3>1, TidyTick
  <2>4. CASE Read
    <3>1. Lines /\ issued \in Nat
      BY NamedAsked DEF Typed
    <3>2. PICK a, j, k : Reads(a, j, k)
      BY <2>4, <3>1, ReadAnswer
    <3>3. QED BY <2>1, <3>2, TidyRead
  <2>5. CASE Serve
    <3>1. PICK r, ok, id : Serves(r, ok, id)
      BY <2>5, ServeServes
    <3>2. PICK n : Answered(r, ok, id, n)
      BY <2>1, <3>1, ServeAnswers
    <3>3. QED BY <3>2, TidyServe
  <2>6. CASE Pass
    BY <2>1, <2>6, TidyPass
  <2>7. QED BY <2>1, <2>2, <2>3, <2>4, <2>5, <2>6
<1>3. QED BY <1>1, <1>2

\* Nothing that is open is forgotten, whatever is refused, lost or answered late: a
\* receiver that runs has its session in one of the tables, and so has every session
\* of the server, or the answer to its SETUP is on its way.
THEOREM SessionsKept == Spec => []NoOrphans
<1>1. Init => Typed /\ Tidy
  BY TypedInit, TidyInit
<1>2. Typed /\ Tidy /\ [Next]_vars => Typed' /\ Tidy'
  BY TypedStep, TidyStep
<1>3. Tidy => NoOrphans
  BY DEF Tidy
<1>4. QED BY <1>1, <1>2, <1>3, PTL DEF Spec

-----------------------------------------------------------------------------
(* Every step keeps Agreed: the connection, the time and the ticks *)

\* The parts that the sessions' tables do not touch.
LEMMA AgreedSame ==
  ASSUME Agreed, UNCHANGED <<setup, state, described, setuped, played, lost, wire, back, srv>>,
         ticked' = ticked \/ (DOMAIN played = {} /\ state # "SETUP_WAIT"),
         toggles' = 0 => toggles = 0 /\ asyncPlay' = asyncPlay
  PROVE  Agreed'
<1>1. Untoggled /\ SetupKept /\ AnswersKept /\ PlaysKept /\ PlayedKept
  BY DEF Agreed
<1>2. Line' = Line
  BY DEF Line, Bare
<1>3. \A t : Asked(t)' = Asked(t)
  BY <1>2, AskingNext DEF Asked
<1>4. (Exact' => Exact) /\ (toggles' = 0 => toggles = 0 /\ asyncPlay' = asyncPlay)
  BY DEF Exact
<1>5. Untoggled'
  BY <1>1, <1>3, <1>4 DEF Untoggled
<1>6. SetupKept'
  BY <1>1, <1>3, <1>4 DEF SetupKept, Stuck, Quiet
<1>7. AnswersKept'
  BY <1>1, <1>4 DEF AnswersKept
<1>8. PlaysKept'
  BY <1>1, <1>3, <1>4 DEF PlaysKept
<1>9. PlayedKept'
  <2>1. CASE DOMAIN played = {}
    BY <2>1 DEF PlayedKept
  <2>2. CASE UNCHANGED ticked
    BY <1>1, <1>3, <1>4, <2>2 DEF PlayedKept, Alive, Of
  <2>3. QED BY <2>1, <2>2
<1>10. QED BY <1>5, <1>6, <1>7, <1>8, <1>9 DEF Agreed

LEMMA AgreedLink ==
  ASSUME Typed, Agreed, UNCHANGED setup,
         TickDead \/ Connected \/ ConnectFails \/ Lose \/ PlayASync \/ TeardownASync
  PROVE  Agreed'
<1>1. Joined /\ toggles \in Nat
  <2>1. setup \in Setups /\ toggles \in 0..setup.toggles
    BY DEF Typed, TypeOK
  <2>2. setup.toggles \in Nat
    BY <2>1, ClientAssumption DEF Setup
  <2>3. QED BY <2>1, <2>2 DEF Typed
<1>2. CASE TickDead
  <2>1. /\ ~alive /\ state' = "UNKNOWN"
        /\ UNCHANGED <<asyncPlay, toggles, described, setuped, played, lost, wire, back, srv>>
    BY <1>2 DEF TickDead, app, tables, server
  <2>2. state = "UNKNOWN" /\ DOMAIN played = {}
    BY <1>1, <2>1 DEF Joined
  <2>3. UNCHANGED <<setup, state, described, setuped, played, lost, wire, back, srv>>
    BY <2>1, <2>2
  <2>4. ticked' = ticked \/ (DOMAIN played = {} /\ state # "SETUP_WAIT")
    BY <2>2
  <2>5. toggles' = 0 => toggles = 0 /\ asyncPlay' = asyncPlay
    BY <2>1
  <2>6. QED BY <2>3, <2>4, <2>5, AgreedSame
<1>3. CASE Connected
  <2>1. /\ UNCHANGED <<setup, state, described, setuped, played, lost, wire, back, srv>>
        /\ ticked' = ticked \/ (DOMAIN played = {} /\ state # "SETUP_WAIT")
        /\ toggles' = 0 => toggles = 0 /\ asyncPlay' = asyncPlay
    BY <1>3 DEF Connected, app, tables, server
  <2>2. QED BY <2>1, AgreedSame
<1>4. CASE PlayASync \/ TeardownASync
  <2>1. /\ UNCHANGED <<setup, state, described, setuped, played, lost, wire, back, srv>>
        /\ UNCHANGED ticked /\ toggles' = toggles + 1
    BY <1>4 DEF PlayASync, TeardownASync, tables, link, server
  <2>2. toggles' = 0 => toggles = 0 /\ asyncPlay' = asyncPlay
    BY <1>1, <2>1
  <2>3. ticked' = ticked \/ (DOMAIN played = {} /\ state # "SETUP_WAIT")
    BY <2>1
  <2>4. QED BY <2>1, <2>2, <2>3, AgreedSame
<1>5. ASSUME lost', wire' = <<>>, back' = <<>>, UNCHANGED <<asyncPlay, toggles>>
      PROVE  Agreed'
  <2>1. \A t : In(Line', t) = {}
    BY <1>5, CutLine
  <2>2. Asked("TEARDOWN")' = {}
    BY <2>1, AskingNext
  <2>3. Untoggled'
    BY <1>5, <2>2 DEF Agreed, Untoggled
  <2>4. ~Exact'
    BY <1>5 DEF Exact
  <2>5. QED BY <2>3, <2>4 DEF Agreed, SetupKept, AnswersKept, PlaysKept, PlayedKept
<1>6. CASE ConnectFails
  <2>1. /\ conn = "connecting" /\ wire' = <<>>
        /\ UNCHANGED <<setup, state, described, setuped, played, lost, back, srv>>
        /\ UNCHANGED <<asyncPlay, toggles>> /\ UNCHANGED ticked
    BY <1>6 DEF ConnectFails, app, tables, server
  <2>2. back = <<>>
    BY <1>1, <2>1 DEF Joined
  <2>3. CASE lost
    BY <1>5, <2>1, <2>2, <2>3
  <2>4. CASE ~lost
    <3>1. wire = <<>>
      BY <1>1, <2>1, <2>4 DEF Joined
    <3>2. UNCHANGED <<setup, state, described, setuped, played, lost, wire, back, srv>>
      BY <2>1, <3>1
    <3>3. /\ ticked' = ticked \/ (DOMAIN played = {} /\ state # "SETUP_WAIT")
          /\ toggles' = 0 => toggles = 0 /\ asyncPlay' = asyncPlay
      BY <2>1
    <3>4. QED BY <3>2, <3>3, AgreedSame
  <2>5. QED BY <2>3, <2>4
<1>7. CASE Lose
  <2>1. lost' /\ wire' = <<>> /\ back' = <<>> /\ UNCHANGED <<asyncPlay, toggles>>
    BY <1>7 DEF Lose, app
  <2>2. QED BY <1>5, <2>1
<1>8. QED BY <1>2, <1>3, <1>4, <1>6, <1>7

LEMMA AgreedPass ==
  ASSUME Typed, Agreed, UNCHANGED setup, Pass, Timeout >= 2
  PROVE  Agreed'
<1>1. /\ ticked /\ wire = <<>> /\ back = <<>> /\ ~ticked'
      /\ UNCHANGED <<setup, state, asyncPlay, toggles, described, lost, wire, back>>
  BY DEF Pass, app, link
<1>2. Untoggled /\ SetupKept /\ PlayedKept
  BY DEF Agreed
<1>3. /\ TypeOK /\ Timeout \in Nat /\ Table(setuped) /\ Table(played)
      /\ \A k \in DOMAIN srv : srv[k].idle \in Nat
  <2>1. \A k \in DOMAIN srv : srv[k] \in [idle : 0..Timeout - 1, playing : BOOLEAN]
    BY DEF Typed, TypeOK
  <2>2. Timeout \in Nat
    BY ClientAssumption
  <2>3. ASSUME NEW k \in DOMAIN srv PROVE srv[k].idle \in Nat
    <3>1. srv[k].idle \in 0..Timeout - 1
      BY <2>1
    <3>2. QED BY <2>2, <3>1
  <2>4. QED BY <2>2, <2>3 DEF Typed, TypeOK
<1>4. /\ Aged(setuped, setuped') /\ Aged(played, played')
      /\ DOMAIN srv' = {k \in DOMAIN srv : srv[k].idle + 1 < Timeout}
      /\ \A k \in DOMAIN srv' : srv'[k].idle = srv[k].idle + 1 /\ srv'[k].playing = srv[k].playing
  BY <1>3, PassTables
<1>5. DOMAIN back' = {} /\ DOMAIN wire = {} /\ \A t : In(Line', t) = {} /\ In(Line, t) = {}
  <2>1. wire' = <<>> /\ back' = <<>>
    BY <1>1
  <2>2. \A t : In(Line', t) = {}
    BY <2>1, CutLine
  <2>3. Line' = Line
    BY <1>1 DEF Line, Bare
  <2>4. QED BY <1>1, <2>1, <2>2, <2>3
<1>6. \A t : Asked(t) = {} /\ Asked(t)' = {}
  BY <1>5, AskingNext DEF Asked
<1>7. Untoggled'
  BY <1>1, <1>2, <1>6 DEF Untoggled
<1>8. Exact' <=> Exact
  BY <1>1 DEF Exact
<1>9. SetupKept'
  <2>1. ASSUME Exact, state = "SETUP_WAIT", ~Stuck', NEW k \in DOMAIN setuped' \ {0}
        PROVE  k \in DOMAIN srv' /\ srv'[k].idle <= 1
    <3>1. DOMAIN setuped' = DOMAIN setuped
      BY <1>4 DEF Aged
    <3>2. ~Stuck /\ ~Quiet
      BY <1>1, <1>6, <2>1, <3>1 DEF Stuck, Quiet
    <3>3. k \in DOMAIN srv /\ srv[k].idle = 0
      BY <1>2, <2>1, <3>1, <3>2 DEF SetupKept
    <3>4. 0 + 1 < Timeout
      BY <1>3
    <3>5. QED BY <1>4, <3>3, <3>4
  <2>2. Quiet'
    BY <1>1 DEF Quiet
  <2>3. QED BY <1>1, <1>8, <2>1, <2>2 DEF SetupKept
<1>10. AnswersKept'
  BY <1>5 DEF AnswersKept
<1>11. PlaysKept'
  BY <1>6 DEF PlaysKept
<1>12. PlayedKept'
  <2>1. ASSUME Exact, NEW k \in DOMAIN played', played'[k].timed
        PROVE  k \in DOMAIN srv' /\ srv'[k].playing /\ srv'[k].idle <= played'[k].age
    <3>1. /\ k \in DOMAIN played /\ played[k].timed
          /\ played'[k].age = IF played[k].age < Timeout THEN played[k].age + 1 ELSE played[k].age
      BY <1>4, <2>1 DEF Aged
    <3>2. PICK g : g = played[k].age
      OBVIOUS
    <3>3. g \in 0..Timeout
      BY <1>3, <3>1, <3>2 DEF Table, Sessions
    <3>4. Alive(k)
      BY <1>2, <1>6, <2>1, <3>1 DEF PlayedKept
    <3>5. PICK h : h = srv[k].idle
      OBVIOUS
    <3>6. k \in DOMAIN srv /\ h \in Nat /\ srv[k].playing /\ h <= g /\ (g + 2 <= Timeout \/ h = 0)
      BY <1>1, <1>3, <1>5, <3>2, <3>4, <3>5 DEF Alive, Of
    <3>7. h + 1 < Timeout /\ h + 1 <= (IF g < Timeout THEN g + 1 ELSE g)
      BY <1>3, <3>3, <3>6
    <3>8. k \in DOMAIN srv'
      BY <1>4, <3>5, <3>6, <3>7
    <3>9. srv'[k].idle = h + 1 /\ srv'[k].playing
      BY <1>4, <3>5, <3>6, <3>8
    <3>10. QED BY <3>1, <3>2, <3>7, <3>8, <3>9
  <2>2. QED BY <1>1, <1>8, <2>1 DEF PlayedKept, Alive
<1>13. QED BY <1>7, <1>9, <1>10, <1>11, <1>12 DEF Agreed

LEMMA AgreedTick ==
  ASSUME Typed, Agreed, UNCHANGED setup, NEW to, NEW reqs, Form(to, reqs)
  PROVE  Agreed'
<1>1. /\ alive /\ reqs \in Seq(Requests) /\ Ticks(to, reqs)
      /\ \A j \in DOMAIN reqs :
           /\ reqs[j].type = "TEARDOWN" => ~asyncPlay
           /\ reqs[j].type = "PLAY" => /\ state = "SETUP_WAIT" /\ reqs[j].arg \in DOMAIN setuped
                                       /\ Cardinality(DOMAIN setuped) = described
      /\ to = "SETUP_WAIT" => \/ DOMAIN setuped = {}
                              \/ /\ state = "SETUP_WAIT" /\ reqs = <<>>
                                 /\ Cardinality(DOMAIN setuped) # described
  BY DEF Form
<1>2. TypeOK /\ Lines /\ Kept /\ Joined
  BY DEF Typed
<1>3. /\ state' = to /\ ticked' = TRUE /\ UNCHANGED <<app, tables, link, back, server>>
      /\ Grown(Line, Line', reqs, DOMAIN played)
      /\ DOMAIN wire \subseteq DOMAIN wire' /\ \A i \in DOMAIN wire : wire'[i] = wire[i]
      /\ conn # "unconnected" => \A k \in DueWithin(2) :
           \E i \in DOMAIN wire' : wire'[i].type = "GET_PARAMETER" /\ wire'[i].arg = k
  BY <1>1, <1>2, TickLine, Zenon
<1>4. UNCHANGED <<asyncPlay, toggles, described, setuped, played, conn, alive, lost, back, srv>>
  BY <1>3 DEF app, tables, link, server
<1>5. Untoggled /\ SetupKept /\ AnswersKept /\ PlaysKept /\ PlayedKept
  BY DEF Agreed
<1>6. (Exact' <=> Exact) /\ \A t : Asked(t)' = In(Line', t)
  BY <1>4, AskingNext DEF Exact
<1>7. \A t : Asked(t) \subseteq Asked(t)'
  <2>1. \A t : In(Line, t) \subseteq In(Line', t)
    BY <1>3, GrownCalls
  <2>2. QED BY <1>6, <2>1 DEF Asked
<1>8. \A t : t # "GET_PARAMETER" => Asked(t)' \subseteq Asked(t) \cup {reqs[j].arg : j \in Of(reqs, t)}
  <2>1. \A t : In(Line', t) \subseteq In(Line, t) \cup {reqs[j].arg : j \in Of(reqs, t)}
                                \cup (IF t = "GET_PARAMETER" THEN DOMAIN played ELSE {})
    BY <1>3, GrownCalls
  <2>2. QED BY <1>6, <2>1 DEF Asked
<1>9. Untoggled'
  <2>1. ASSUME toggles = 0 PROVE asyncPlay /\ Asked("TEARDOWN")' = {}
    <3>1. asyncPlay /\ Asked("TEARDOWN") = {}
      BY <1>5, <2>1 DEF Untoggled
    <3>2. Of(reqs, "TEARDOWN") = {}
      BY <1>1, <3>1 DEF Of
    <3>3. Asked("TEARDOWN")' \subseteq Asked("TEARDOWN") \cup {reqs[j].arg : j \in Of(reqs, "TEARDOWN")}
      BY <1>8
    <3>4. QED BY <3>1, <3>2, <3>3
  <2>2. QED BY <1>4, <2>1 DEF Untoggled
<1>10. SetupKept'
  <2>1. ASSUME Exact, to = "SETUP_WAIT", ~Stuck', NEW k \in DOMAIN setuped \ {0}
        PROVE  k \in DOMAIN srv /\ srv[k].idle = 0
    <3>1. /\ state = "SETUP_WAIT" /\ reqs = <<>> /\ DOMAIN reqs = {}
          /\ Cardinality(DOMAIN setuped) # described
      BY <1>1, <2>1
    <3>2. Asked("SETUP")' # {}
      BY <1>4, <2>1, <3>1 DEF Stuck
    <3>3. Asked("SETUP") # {}
      <4>1. Asked("SETUP")' \subseteq Asked("SETUP") \cup {reqs[j].arg : j \in Of(reqs, "SETUP")}
        BY <1>8
      <4>2. Of(reqs, "SETUP") = {}
        BY <3>1 DEF Of
      <4>3. QED BY <3>2, <4>1, <4>2
    <3>4. ~Stuck
      BY <3>3 DEF Stuck
    <3>5. ~Quiet
      <4>1. ASSUME wire = <<>>, back = <<>> PROVE FALSE
        <5>1. Bare(wire) = <<>> /\ Bare(back) = <<>>
          BY <4>1 DEF Bare
        <5>2. Line = <<>>
          BY <5>1 DEF Line
        <5>3. QED BY <3>3, <5>2 DEF Asked, In, Of
      <4>2. QED BY <4>1 DEF Quiet
    <3>6. QED BY <1>5, <2>1, <3>1, <3>4, <3>5 DEF SetupKept
  <2>2. QED BY <1>3, <1>4, <1>6, <2>1 DEF SetupKept
<1>11. AnswersKept'
  BY <1>4, <1>5, <1>6 DEF AnswersKept
<1>12. PlaysKept'
  <2>1. ASSUME Exact, NEW k \in Asked("PLAY")', k # 0 PROVE k \in DOMAIN srv
    <3>1. CASE k \in Asked("PLAY")
      BY <1>5, <2>1, <3>1 DEF PlaysKept
    <3>2. CASE k \notin Asked("PLAY")
      <4>1. Asked("PLAY")' \subseteq Asked("PLAY") \cup {reqs[j].arg : j \in Of(reqs, "PLAY")}
        BY <1>8
      <4>2. PICK j \in Of(reqs, "PLAY") : k = reqs[j].arg
        BY <2>1, <3>2, <4>1
      <4>3. /\ state = "SETUP_WAIT" /\ k \in DOMAIN setuped
            /\ Cardinality(DOMAIN setuped) = described
        BY <1>1, <4>2 DEF Of
      <4>4. ~Stuck
        BY <4>3 DEF Stuck
      <4>5. QED BY <1>5, <2>1, <4>3, <4>4 DEF SetupKept
    <3>3. QED BY <3>1, <3>2
  <2>2. QED BY <1>4, <1>6, <2>1 DEF PlaysKept
<1>13. PlayedKept'
  <2>1. ASSUME Exact, NEW k \in DOMAIN played, played[k].timed
        PROVE  k \in Asked("TEARDOWN")' \/ Alive(k)'
    <3>1. CASE k \in Asked("TEARDOWN")
      BY <1>7, <3>1
    <3>2. CASE Alive(k)
      <4>1. k \in DOMAIN srv /\ srv[k].playing /\ srv[k].idle <= played[k].age
        BY <3>2 DEF Alive
      <4>2. CASE played[k].age + 2 <= Timeout
        BY <1>4, <4>1, <4>2 DEF Alive
      <4>3. CASE ~(played[k].age + 2 <= Timeout)
        <5>1. played[k].age \in 0..Timeout /\ Timeout \in Nat
          BY <1>2, ClientAssumption DEF TypeOK, Table, Sessions
        <5>2. played[k].age > Timeout - 2
          BY <4>3, <5>1
        <5>3. k \in DueWithin(2)
          BY <2>1, <5>2 DEF DueWithin
        <5>4. conn # "unconnected"
          BY <1>1, <1>2, <2>1 DEF Joined, Exact
        <5>5. \E i \in DOMAIN wire' : wire'[i].type = "GET_PARAMETER" /\ wire'[i].arg = k
          BY <1>3, <5>3, <5>4
        <5>6. QED BY <1>4, <4>1, <5>5 DEF Alive, Of
      <4>4. QED BY <4>2, <4>3
    <3>3. QED BY <1>5, <2>1, <3>1, <3>2 DEF PlayedKept
  <2>2. QED BY <1>4, <1>6, <2>1 DEF PlayedKept
<1>14. QED BY <1>9, <1>10, <1>11, <1>12, <1>13 DEF Agreed

-----------------------------------------------------------------------------
(* Every step keeps Agreed: the server, and an answer *)

\* The server ends a session only for a TEARDOWN, of a session that is played.
LEMMA NotEnded ==
  ASSUME Typed, Tidy, Agreed, Exact, NEW k, k # 0,
         k \in DOMAIN setuped \cup News \/ toggles = 0
  PROVE  k \notin Asked("TEARDOWN")
<1>1. CASE toggles = 0
  BY <1>1 DEF Agreed, Untoggled
<1>2. CASE toggles # 0
  <2>1. Exactly
    BY <1>2 DEF Exact, Exactly
  <2>2. \A x \in (DOMAIN setuped \cup News) \cap Olds : x = 0
    BY <2>1 DEF Tidy, Apart
  <2>3. QED BY <1>2, <2>2 DEF Olds
<1>3. QED BY <1>1, <1>2

LEMMA ServedWire ==
  ASSUME Typed, UNCHANGED setup, NEW r, NEW ok, NEW id, Serves(r, ok, id)
  PROVE  /\ wire # <<>>
         /\ \A i \in DOMAIN wire : wire[i] = r \/ \E j \in DOMAIN wire' : wire'[j] = wire[i]
<1>1. TypeOK /\ Lines
  BY DEF Typed
<1>2. wire # <<>> /\ r = Head(wire) /\ ok \in BOOLEAN /\ Answers(ok, id)
  BY DEF Serves
<1>3. setup \in Setups /\ id \in Keys
  BY <1>1, ServeTables DEF TypeOK, Served
<1>4. PICK m \in Nat : m = Len(wire) /\ DOMAIN wire = 1..m
  BY <1>1, LineKnown
<1>5. /\ DOMAIN wire' = 1..(m - 1) /\ Head(wire) = wire[1]
      /\ \A i \in 1..(m - 1) : wire'[i] = wire[i + 1]
  BY <1>1, <1>2, <1>3, <1>4, ServeLine
<1>6. ASSUME NEW i \in 1..m, wire[i] # r PROVE \E j \in DOMAIN wire' : wire'[j] = wire[i]
  <2>1. i # 1
    BY <1>2, <1>5, <1>6
  <2>2. i - 1 \in 1..(m - 1) /\ (i - 1) + 1 = i
    BY <1>4, <2>1
  <2>3. PICK j \in 1..(m - 1) : j + 1 = i
    BY <2>2
  <2>4. QED BY <1>5, <2>3
<1>7. QED BY <1>2, <1>4, <1>6

LEMMA AgreedServe ==
  ASSUME Typed, Tidy, Agreed, NEW r, NEW ok, NEW id, NEW n, Answered(r, ok, id, n),
         wire # <<>>,
         \A i \in DOMAIN wire : wire[i] = r \/ \E j \in DOMAIN wire' : wire'[j] = wire[i]
  PROVE  Agreed'
<1>1. /\ n \in Nat /\ DOMAIN back = 1..n /\ DOMAIN back' = 1..(n + 1)
      /\ \A i \in 1..n : back'[i] = back[i]
      /\ back'[n + 1].type = r.type /\ back'[n + 1].arg = r.arg /\ back'[n + 1].id = id
      /\ r.arg \in Asked(r.type)
      /\ \A t : Asked(t)' = Asked(t)
      /\ UNCHANGED <<setup, state, asyncPlay, toggles, described, setuped, played, lost, ticked>>
  BY DEF Answered
<1>2. Served(r, ok, id) /\ Said(r, ok, id)
  BY DEF Answered
<1>3. Untoggled /\ SetupKept /\ AnswersKept /\ PlaysKept /\ PlayedKept
  BY DEF Agreed
<1>4. /\ \A k \in DOMAIN srv : \/ k \in DOMAIN srv' /\ srv'[k] = srv[k]
                               \/ k \in DOMAIN srv' /\ srv'[k].idle = 0 /\ k = id
                                  /\ (srv[k].playing => srv'[k].playing)
                               \/ k = id /\ r.type = "TEARDOWN" /\ k \notin DOMAIN srv'
      /\ id # 0 => r.type = "SETUP" \/ id = r.arg
      /\ id # 0 /\ r.type # "TEARDOWN" => id \in DOMAIN srv'
      /\ r.type \in {"PLAY", "GET_PARAMETER"} /\ r.arg \in DOMAIN srv' => id = r.arg
      /\ id \in DOMAIN srv' => srv'[id].idle = 0
  BY <1>2 DEF Served, Said
<1>5. 0 \notin DOMAIN srv
  BY NamedAsked
<1>6. Exact' <=> Exact
  BY <1>1 DEF Exact
<1>7. ASSUME NEW k \in DOMAIN srv, k \notin Asked("TEARDOWN")
      PROVE  k \in DOMAIN srv' /\ (srv'[k] = srv[k] \/ srv'[k].idle = 0)
             /\ (srv[k].playing => srv'[k].playing)
  BY <1>1, <1>4, <1>5, <1>7
<1>8. Untoggled'
  BY <1>1, <1>3 DEF Untoggled
<1>9. SetupKept'
  <2>1. ASSUME Exact, state = "SETUP_WAIT", ~Stuck, NEW k \in DOMAIN setuped \ {0}
        PROVE  k \in DOMAIN srv' /\ srv'[k].idle = 0
    <3>1. ~Quiet
      BY DEF Quiet
    <3>2. k \in DOMAIN srv /\ srv[k].idle = 0
      BY <1>3, <2>1, <3>1 DEF SetupKept
    <3>3. k \notin Asked("TEARDOWN")
      BY <2>1, NotEnded
    <3>4. QED BY <1>7, <3>2, <3>3
  <2>2. Stuck' <=> Stuck
    BY <1>1 DEF Stuck
  <2>3. QED BY <1>1, <1>6, <2>1, <2>2 DEF SetupKept
<1>10. AnswersKept'
  <2>1. ASSUME Exact, NEW i \in 1..n, back[i].id # 0, back[i].type = "SETUP" \/ toggles = 0
        PROVE  back[i].id \in DOMAIN srv'
    <3>1. back[i].id \in DOMAIN srv
      BY <1>1, <1>3, <2>1 DEF AnswersKept
    <3>2. back[i].id \in News \/ toggles = 0
      BY <1>1, <2>1 DEF News, Of
    <3>3. back[i].id \notin Asked("TEARDOWN")
      BY <2>1, <3>2, NotEnded
    <3>4. QED BY <1>7, <3>1, <3>3
  <2>2. ASSUME Exact, id # 0, r.type = "SETUP" \/ toggles = 0 PROVE id \in DOMAIN srv'
    <3>1. r.type # "TEARDOWN"
      <4>1. toggles = 0 => Asked("TEARDOWN") = {}
        BY <1>3 DEF Untoggled
      <4>2. QED BY <1>1, <2>2, <4>1
    <3>2. QED BY <1>4, <2>2, <3>1
  <2>3. \A i \in 1..(n + 1) : i \in 1..n \/ i = n + 1
    BY <1>1
  <2>4. ASSUME Exact, NEW i \in DOMAIN back', back'[i].id # 0, back'[i].type = "SETUP" \/ toggles = 0
        PROVE  back'[i].id \in DOMAIN srv'
    <3>1. CASE i \in 1..n
      BY <1>1, <2>1, <2>4, <3>1
    <3>2. CASE i = n + 1
      BY <1>1, <2>2, <2>4, <3>2
    <3>3. QED BY <1>1, <2>3, <2>4, <3>1, <3>2
  <2>5. QED BY <1>1, <1>6, <2>4 DEF AnswersKept
<1>11. PlaysKept'
  <2>1. ASSUME Exact, NEW k \in Asked("PLAY") \ {0} PROVE k \in DOMAIN srv'
    <3>1. k \in DOMAIN srv
      BY <1>3, <2>1 DEF PlaysKept
    <3>2. k \in DOMAIN setuped
      BY <2>1 DEF Typed, Asking, Phases
    <3>3. k \notin Asked("TEARDOWN")
      BY <2>1, <3>2, NotEnded
    <3>4. QED BY <1>7, <3>1, <3>3
  <2>2. QED BY <1>1, <1>6, <2>1 DEF PlaysKept
<1>12. PlayedKept'
  <2>1. ASSUME Exact, NEW k \in DOMAIN played, played[k].timed, k \notin Asked("TEARDOWN")
        PROVE  Alive(k)'
    <3>1. Alive(k)
      BY <1>3, <2>1 DEF PlayedKept
    <3>2. k \in DOMAIN srv /\ srv[k].playing /\ srv[k].idle <= played[k].age
      BY <3>1 DEF Alive
    <3>3. k \in DOMAIN srv' /\ (srv'[k] = srv[k] \/ srv'[k].idle = 0) /\ srv'[k].playing
      BY <1>7, <2>1, <3>2
    <3>4. played[k].age \in Nat
      BY ClientAssumption DEF Typed, TypeOK, Table, Sessions
    <3>5. srv'[k].idle <= played[k].age
      BY <3>2, <3>3, <3>4
    <3>6. CASE srv'[k].idle = 0
      BY <1>1, <3>3, <3>5, <3>6 DEF Alive
    <3>7. CASE srv'[k].idle # 0
      <4>1. srv'[k] = srv[k]
        BY <3>3, <3>7
      <4>2. ASSUME ticked, ~(played[k].age + 2 <= Timeout)
            PROVE  \E i \in DOMAIN wire' : wire'[i].type = "GET_PARAMETER" /\ wire'[i].arg = k
        <5>1. \E i \in DOMAIN wire : wire[i].type = "GET_PARAMETER" /\ wire[i].arg = k
          BY <3>1, <3>7, <4>1, <4>2 DEF Alive, Of
        <5>2. PICK i \in DOMAIN wire : wire[i].type = "GET_PARAMETER" /\ wire[i].arg = k
          BY <5>1
        <5>3. wire[i] # r
          BY <1>4, <3>3, <3>7, <5>2
        <5>4. PICK j \in DOMAIN wire' : wire'[j] = wire[i]
          BY <5>3
        <5>5. QED BY <5>2, <5>4
      <4>3. QED BY <1>1, <3>3, <3>5, <4>2 DEF Alive, Of
    <3>8. QED BY <3>6, <3>7
  <2>2. QED BY <1>1, <1>6, <2>1 DEF PlayedKept
<1>13. QED BY <1>8, <1>9, <1>10, <1>11, <1>12 DEF Agreed

\* The requests that still wait, when answers come one by one.
LEMMA ReadOne ==
  ASSUME Typed, UNCHANGED setup, NEW a, NEW j, NEW k, Reads(a, j, k),
         "coalesce" \notin setup.faults, NEW t, NEW x \in Asked(t)
  PROVE  x \in Asked(t)' \/ (a.type = t /\ a.arg = x)
<1>1. k = 1 /\ Dropped(Line, Line', k) /\ Answer(a, j, k)
  BY DEF Reads
<1>2. j = 1 /\ a.type = Line[1].type /\ a.arg = Line[1].arg
  <2>1. j \in 1..k /\ a.type = Line[j].type /\ a.arg = Line[j].arg
    BY <1>1 DEF Answer
  <2>2. j = 1
    BY <1>1, <2>1
  <2>3. QED BY <2>1, <2>2
<1>3. /\ Line[1].type # t => In(Line', t) = In(Line, t)
      /\ In(Line, t) \subseteq In(Line', t) \cup {Line[1].arg}
  <2>1. /\ (k = 1 /\ Line[1].type # t) => In(Line', t) = In(Line, t)
        /\ k = 1 => In(Line, t) \subseteq In(Line', t) \cup {Line[1].arg}
    BY <1>1, DroppedCalls, Zenon
  <2>2. QED BY <1>1, <2>1
<1>4. Asked(t)' = In(Line', t)
  BY AskingNext
<1>5. QED BY <1>2, <1>3, <1>4 DEF Asked

LEMMA AgreedRead ==
  ASSUME Typed, Typed', Tidy, Agreed, UNCHANGED setup, NEW a, NEW j, NEW k, Reads(a, j, k)
  PROVE  Agreed'
<1>1. /\ k \in 1..Len(back) /\ (k = 1 \/ "coalesce" \in setup.faults)
      /\ Answer(a, j, k) /\ Got(a)
      /\ DOMAIN back' = 1..(Len(back) - k)
      /\ \A i \in 1..(Len(back) - k) : i + k \in DOMAIN back /\ back'[i] = back[i + k]
      /\ UNCHANGED <<setup, asyncPlay, toggles, lost, wire, srv, ticked>>
  BY DEF Reads, app, link, server
<1>2. /\ j \in 1..k /\ j \in DOMAIN back /\ a.type = back[j].type /\ a.arg = back[j].arg
      /\ a.id # 0 => \E i \in 1..k : i \in DOMAIN back /\ back[i].id = a.id
  BY <1>1 DEF Answer
<1>3. /\ \A t : Asked(t)' \subseteq Asked(t)
      /\ a.arg \in Asked(a.type)
  BY ReadLines
<1>4. Untoggled /\ SetupKept /\ AnswersKept /\ PlaysKept /\ PlayedKept
  BY DEF Agreed
<1>5. Recent /\ Phases /\ Kept /\ Table(setuped) /\ Table(played) /\ Timeout \in Nat
  BY ClientAssumption DEF Tidy, Typed, Asking, TypeOK
<1>6. Exact' <=> Exact
  BY <1>1 DEF Exact
<1>7. Untoggled'
  <2>1. Asked("TEARDOWN")' \subseteq Asked("TEARDOWN")
    BY <1>3
  <2>2. QED BY <1>1, <1>4, <2>1 DEF Untoggled
<1>8. AnswersKept'
  <2>1. \A i \in DOMAIN back' : \E m \in DOMAIN back : back'[i] = back[m]
    BY <1>1
  <2>2. QED BY <1>1, <1>4, <1>6, <2>1 DEF AnswersKept
<1>9. PlaysKept'
  <2>1. Asked("PLAY")' \subseteq Asked("PLAY")
    BY <1>3
  <2>2. QED BY <1>1, <1>4, <1>6, <2>1 DEF PlaysKept
<1>10. ~Quiet
  BY <1>2 DEF Quiet
\* The sessions that are set up.
<1>11. ASSUME Exact, state = "SETUP_WAIT", ~Stuck, NEW y \in DOMAIN setuped, y # 0
       PROVE  y \in DOMAIN srv /\ srv[y].idle = 0
  BY <1>4, <1>10, <1>11 DEF SetupKept
<1>12. ASSUME UNCHANGED <<state, setuped, described>>
       PROVE  SetupKept'
  <2>1. ~Stuck' => ~Stuck
    <3>1. Asked("SETUP")' \subseteq Asked("SETUP")
      BY <1>3
    <3>2. QED BY <1>12, <3>1 DEF Stuck
  <2>2. QED BY <1>1, <1>6, <1>11, <1>12, <2>1 DEF SetupKept
\* A session that is played, and is not touched.
<1>13. ASSUME Exact, NEW y \in DOMAIN played, y \in DOMAIN played', played'[y] = played[y],
              played[y].timed, a.type # "TEARDOWN" \/ a.arg # y
       PROVE  y \in Asked("TEARDOWN")' \/ Alive(y)'
  <2>1. y \in Asked("TEARDOWN") \/ Alive(y)
    BY <1>4, <1>13 DEF PlayedKept
  <2>2. CASE Alive(y)
    BY <1>1, <1>13, <2>2 DEF Alive, Of
  <2>3. CASE y \in Asked("TEARDOWN")
    <3>1. "coalesce" \notin setup.faults
      BY <1>4, <1>13, <2>3 DEF Untoggled, Exact
    <3>2. QED BY <1>13, <2>3, <3>1, ReadOne
  <2>4. QED BY <2>1, <2>2, <2>3
<1>14. \A y \in DOMAIN played' : played'[y].age \in Nat
  <2>1. Table(played)'
    BY DEF Typed, TypeOK
  <2>2. ASSUME NEW y \in DOMAIN played' PROVE played'[y].age \in Nat
    <3>1. played'[y].age \in 0..Timeout
      BY <2>1 DEF Table, Sessions
    <3>2. QED BY <1>5, <3>1
  <2>3. QED BY <2>2
\* A session whose time has just begun.
<1>15. ASSUME NEW y \in DOMAIN played', y \in DOMAIN srv, srv[y].playing, srv[y].idle = 0
       PROVE  Alive(y)'
  <2>1. srv[y].idle <= played'[y].age
    BY <1>14, <1>15
  <2>2. QED BY <1>1, <1>15, <2>1 DEF Alive
<1>16. ASSUME Exact => \A y \in DOMAIN played' :
                         played'[y].timed => y \in Asked("TEARDOWN")' \/ Alive(y)'
       PROVE  PlayedKept'
  BY <1>6, <1>16 DEF PlayedKept
<1>17. ASSUME UNCHANGED played,
              \A y \in DOMAIN played : played[y].timed => a.type # "TEARDOWN" \/ a.arg # y
       PROVE  PlayedKept'
  BY <1>13, <1>16, <1>17
<1>18. ASSUME SetupKept', PlayedKept' PROVE Agreed'
  BY <1>7, <1>8, <1>9, <1>18 DEF Agreed
<1>19. CASE GotOptions(a)
  <2>1. UNCHANGED <<state, setuped, described, played>> /\ a.type # "TEARDOWN"
    BY <1>19 DEF GotOptions
  <2>2. QED BY <1>12, <1>17, <1>18, <2>1
<1>20. CASE GotDescribe(a)
  <2>1. a.type = "DESCRIBE" /\ UNCHANGED <<setuped, played>>
        /\ (state' = state \/ state' = "OPTIONS_WAIT")
    BY <1>20 DEF GotDescribe
  <2>2. state = "DESCRIBE_WAIT"
    BY <1>3, <1>5, <2>1 DEF Phases
  <2>3. SetupKept'
    BY <2>1, <2>2 DEF SetupKept
  <2>4. QED BY <1>17, <1>18, <2>1, <2>3
<1>21. CASE GotNull(a)
  <2>1. /\ UNCHANGED <<state, setuped, described, played>>
        /\ a.type = "TEARDOWN" => At(played, a.arg).rtp = 0
    BY <1>21 DEF GotNull
  <2>2. \A y \in DOMAIN played : played[y].timed => played[y].rtp # 0
    BY <1>5 DEF Kept
  <2>3. \A y \in DOMAIN played : played[y].timed => a.type # "TEARDOWN" \/ a.arg # y
    BY <2>1, <2>2 DEF At
  <2>4. QED BY <1>12, <1>17, <1>18, <2>1, <2>3
<1>22. CASE GotTeardown(a)
  <2>1. a.type = "TEARDOWN" /\ played' = Drop(played, a.arg) /\ UNCHANGED <<state, setuped, described>>
    BY <1>22 DEF GotTeardown
  <2>2. /\ DOMAIN played' = DOMAIN played \ {a.arg}
        /\ \A y \in DOMAIN played' : played'[y] = played[y]
    BY <2>1 DEF Drop
  <2>3. PlayedKept'
    BY <1>13, <1>16, <2>2
  <2>4. QED BY <1>12, <1>18, <2>1, <2>3
<1>23. CASE GotSetup(a)
  <2>1. /\ a.type = "SETUP" /\ UNCHANGED <<state, described, played>>
        /\ setuped' = setuped \/ setuped' = Put(setuped, a.id, Session(a.id, a.arg))
    BY <1>23 DEF GotSetup
  <2>2. state = "SETUP_WAIT" /\ ~Stuck
    BY <1>3, <1>5, <2>1 DEF Phases, Stuck
  <2>3. ASSUME Exact, a.id # 0 PROVE a.id \in DOMAIN srv /\ srv[a.id].idle = 0
    <3>1. PICK i \in 1..k : i \in DOMAIN back /\ back[i].id = a.id
      BY <1>2, <2>3
    <3>2. back[i].type = "SETUP" \/ toggles = 0
      <4>1. CASE "coalesce" \in setup.faults
        BY <2>3, <4>1 DEF Exact
      <4>2. CASE "coalesce" \notin setup.faults
        <5>1. i = j
          BY <1>1, <1>2, <4>2
        <5>2. QED BY <1>2, <2>1, <5>1
      <4>3. QED BY <4>1, <4>2
    <3>3. a.id \in DOMAIN srv
      BY <1>4, <2>3, <3>1, <3>2 DEF AnswersKept
    <3>4. srv[a.id].idle = 0
      BY <1>5, <3>1, <3>3 DEF Recent
    <3>5. QED BY <3>3, <3>4
  <2>4. SetupKept'
    <3>1. CASE setuped' = setuped
      BY <1>12, <2>1, <3>1
    <3>2. CASE setuped' = Put(setuped, a.id, Session(a.id, a.arg))
      <4>1. DOMAIN setuped' = DOMAIN setuped \cup {a.id}
        BY <3>2 DEF Put
      <4>2. ASSUME Exact, NEW y \in DOMAIN setuped', y # 0
            PROVE  y \in DOMAIN srv /\ srv[y].idle = 0
        BY <1>11, <2>2, <2>3, <4>1, <4>2
      <4>3. QED BY <1>1, <1>6, <4>2 DEF SetupKept
    <3>3. QED BY <2>1, <3>1, <3>2
  <2>5. QED BY <1>17, <1>18, <2>1, <2>4
<1>24. CASE GotPlay(a)
  <2>1. /\ a.type = "PLAY" /\ state' = state
        /\ played' = Put(played, At(setuped, a.arg).id, At(setuped, a.arg))
    BY <1>24 DEF GotPlay
  <2>2. state = "PLAY_WAIT" /\ a.arg \in DOMAIN setuped
    BY <1>3, <1>5, <2>1 DEF Phases
  <2>3. SetupKept'
    BY <2>1, <2>2 DEF SetupKept
  <2>4. PICK s : s = setuped[a.arg]
    OBVIOUS
  <2>5. s.id = a.arg /\ (s.timed => a.arg # 0)
    BY <1>5, <2>2, <2>4 DEF Kept
  <2>6. played' = Put(played, a.arg, s)
    BY <2>1, <2>2, <2>4, <2>5 DEF At
  <2>7. /\ DOMAIN played' = DOMAIN played \cup {a.arg} /\ played'[a.arg] = s
        /\ \A y \in DOMAIN played : y # a.arg => played'[y] = played[y]
    BY <2>6 DEF Put
  <2>8. ASSUME Exact, s.timed PROVE Alive(a.arg)'
    <3>1. a.arg \in DOMAIN srv
      BY <1>3, <1>4, <2>1, <2>5, <2>8 DEF PlaysKept
    <3>2. j \in Of(back, "PLAY")
      BY <1>2, <2>1 DEF Of
    <3>3. srv[a.arg].idle = 0 /\ srv[a.arg].playing
      BY <1>2, <1>5, <3>1, <3>2 DEF Recent
    <3>4. a.arg \in DOMAIN played'
      BY <2>7
    <3>5. QED BY <1>15, <3>1, <3>3, <3>4
  <2>9. ASSUME Exact, NEW y \in DOMAIN played', played'[y].timed
        PROVE  y \in Asked("TEARDOWN")' \/ Alive(y)'
    <3>1. CASE y = a.arg
      BY <2>7, <2>8, <2>9, <3>1
    <3>2. CASE y # a.arg
      BY <1>13, <2>1, <2>7, <2>9, <3>2
    <3>3. QED BY <3>1, <3>2
  <2>10. PlayedKept'
    BY <1>16, <2>9
  <2>11. QED BY <1>18, <2>3, <2>10
<1>25. CASE GotKeepAlive(a)
  <2>1. /\ a.type = "GET_PARAMETER" /\ UNCHANGED <<state, setuped, described>>
        /\ played' = Put(played, a.arg, [At(played, a.arg) EXCEPT !.age = 0])
    BY <1>25 DEF GotKeepAlive
  <2>2. PICK q, s : q = At(played, a.arg) /\ s = [q EXCEPT !.age = 0]
    OBVIOUS
  <2>3. q \in Sessions /\ s.timed = q.timed
    <3>1. NoSession \in Sessions
      BY ClientAssumption DEF NoSession, Sessions, Keys
    <3>2. q \in Sessions
      BY <1>5, <2>2, <3>1 DEF At, Table
    <3>3. QED BY <2>2, <3>2 DEF Sessions
  <2>4. /\ DOMAIN played' = DOMAIN played \cup {a.arg} /\ played'[a.arg] = s
        /\ \A y \in DOMAIN played : y # a.arg => played'[y] = played[y]
    BY <2>1, <2>2 DEF Put
  <2>5. q.timed => a.arg \in DOMAIN played /\ q = played[a.arg]
    BY <2>2 DEF At, NoSession
  <2>6. ASSUME Exact, s.timed PROVE a.arg \in Asked("TEARDOWN")' \/ Alive(a.arg)'
    <3>1. a.arg \in DOMAIN played /\ played[a.arg].timed /\ a.arg \in DOMAIN played'
      BY <2>3, <2>4, <2>5, <2>6
    <3>2. a.arg \in Asked("TEARDOWN") \/ Alive(a.arg)
      BY <1>4, <2>6, <3>1 DEF PlayedKept
    <3>3. CASE a.arg \in Asked("TEARDOWN")
      <4>1. "coalesce" \notin setup.faults
        BY <1>4, <2>6, <3>3 DEF Untoggled, Exact
      <4>2. QED BY <2>1, <3>3, <4>1, ReadOne
    <3>4. CASE Alive(a.arg)
      <4>1. a.arg \in DOMAIN srv /\ srv[a.arg].playing
        BY <3>4 DEF Alive
      <4>2. j \in Of(back, "GET_PARAMETER")
        BY <1>2, <2>1 DEF Of
      <4>3. srv[a.arg].idle = 0
        BY <1>2, <1>5, <4>1, <4>2 DEF Recent
      <4>4. QED BY <1>15, <3>1, <4>1, <4>3
    <3>5. QED BY <3>2, <3>3, <3>4
  <2>7. ASSUME Exact, NEW y \in DOMAIN played', played'[y].timed
        PROVE  y \in Asked("TEARDOWN")' \/ Alive(y)'
    <3>1. CASE y = a.arg
      BY <2>4, <2>6, <2>7, <3>1
    <3>2. CASE y # a.arg
      BY <1>13, <2>1, <2>4, <2>7, <3>2
    <3>3. QED BY <3>1, <3>2
  <2>8. PlayedKept'
    BY <1>16, <2>7
  <2>9. QED BY <1>12, <1>18, <2>1, <2>8
<1>26. QED BY <1>1, <1>19, <1>20, <1>21, <1>22, <1>23, <1>24, <1>25 DEF Got

LEMMA AgreedInit == Init => Agreed
<1> SUFFICES ASSUME Init PROVE Agreed
  OBVIOUS
<1>1. /\ setuped = <<>> /\ played = <<>> /\ wire = <<>> /\ back = <<>>
      /\ DOMAIN played = {} /\ DOMAIN setuped = {} /\ DOMAIN back = {}
  BY DEF Init
<1>2. asyncPlay
  BY Zenon DEF Init
<1>3. Bare(back) = <<>> /\ Bare(wire) = <<>>
  BY <1>1 DEF Bare
<1>4. Line = <<>> /\ DOMAIN Line = {}
  BY <1>3 DEF Line
<1>5. \A t : Asked(t) = {}
  BY <1>4 DEF Asked, In, Of
<1>6. QED
  BY <1>1, <1>2, <1>5 DEF Agreed, Untoggled, SetupKept, AnswersKept, PlaysKept, PlayedKept

LEMMA AgreedStep ==
  ASSUME Typed, Tidy, Agreed, [Next]_vars, Timeout >= 2
  PROVE  Agreed'
<1>1. CASE UNCHANGED vars
  <2>1. /\ UNCHANGED <<setup, state, described, setuped, played, lost, wire, back, srv>>
        /\ ticked' = ticked \/ (DOMAIN played = {} /\ state # "SETUP_WAIT")
        /\ toggles' = 0 => toggles = 0 /\ asyncPlay' = asyncPlay
    BY <1>1 DEF vars, app, tables, link, server
  <2>2. QED BY <2>1, AgreedSame
<1>2. CASE Next
  <2>1. /\ ~crashed /\ UNCHANGED setup
        /\ \/ Tick \/ Read \/ Connected \/ ConnectFails \/ Lose
           \/ PlayASync \/ TeardownASync \/ Serve \/ Pass
    BY <1>2 DEF Next, Client
  <2>2. CASE TickDead \/ Connected \/ ConnectFails \/ Lose \/ PlayASync \/ TeardownASync
    BY <2>1, <2>2, AgreedLink
  <2>3. CASE Tick /\ ~TickDead
    <3>1. PICK to, reqs : Form(to, reqs)
      BY <2>3, TickForm
    <3>2. QED BY <2>1, <3>1, AgreedTick
  <2>4. CASE Read
    <3>1. Lines /\ issued \in Nat
      BY NamedAsked DEF Typed
    <3>2. PICK a, j, k : Reads(a, j, k)
      BY <2>4, <3>1, ReadAnswer
    <3>3. Typed'
      BY <2>1, <3>2, TypedRead
    <3>4. QED BY <2>1, <3>2, <3>3, AgreedRead
  <2>5. CASE Serve
    <3>1. PICK r, ok, id : Serves(r, ok, id)
      BY <2>5, ServeServes
    <3>2. PICK n : Answered(r, ok, id, n)
      BY <2>1, <3>1, ServeAnswers
    <3>3. /\ wire # <<>>
          /\ \A i \in DOMAIN wire : wire[i] = r \/ \E j \in DOMAIN wire' : wire'[j] = wire[i]
      BY <2>1, <3>1, ServedWire
    <3>4. QED BY <3>2, <3>3, AgreedServe
  <2>6. CASE Pass
    BY <2>1, <2>6, AgreedPass
  <2>7. QED BY <2>1, <2>2, <2>3, <2>4, <2>5, <2>6
<1>3. QED BY <1>1, <1>2

LEMMA AgreedAgrees == Typed /\ Agreed => ServerAgrees
<1> SUFFICES ASSUME Typed, Agreed, ~lost, NEW k \in DOMAIN played,
                    played[k].timed, ~("coalesce" \in setup.faults /\ toggles > 0)
             PROVE  (k \in DOMAIN srv /\ srv[k].playing) \/ UnderWay({"TEARDOWN"}, k)
  BY DEF ServerAgrees
<1>1. toggles \in Nat
  <2>1. setup \in Setups /\ toggles \in 0..setup.toggles
    BY DEF Typed, TypeOK
  <2>2. setup.toggles \in Nat
    BY <2>1, ClientAssumption DEF Setup
  <2>3. QED BY <2>1, <2>2
<1>2. Exact
  BY <1>1 DEF Exact
<1>3. k \in Asked("TEARDOWN") \/ Alive(k)
  BY <1>2 DEF Agreed, PlayedKept
<1>4. CASE k \in Asked("TEARDOWN")
  <2>1. PICK n \in Nat, m \in Nat : n = Len(back) /\ m = Len(wire)
    BY LineKnown DEF Typed
  <2>2. Parts(back, wire, Line, n, m)
    BY <2>1, LineKnown DEF Typed
  <2>3. PICK i \in 1..(n + m) : Line[i].type = "TEARDOWN" /\ Line[i].arg = k
    BY <1>4, <2>2 DEF Asked, In, Of, Parts
  <2>4. CASE i \in 1..n
    <3>1. back[i].type = "TEARDOWN" /\ back[i].arg = k /\ i \in DOMAIN back
      BY <2>2, <2>3, <2>4 DEF Parts
    <3>2. QED BY <3>1 DEF UnderWay
  <2>5. CASE i \notin 1..n
    <3>1. i - n \in 1..m /\ n + (i - n) = i
      BY <2>1, <2>3, <2>5
    <3>2. PICK p \in 1..m : n + p = i
      BY <3>1
    <3>3. wire[p].type = "TEARDOWN" /\ wire[p].arg = k /\ p \in DOMAIN wire
      BY <2>2, <2>3, <3>2 DEF Parts
    <3>4. QED BY <3>3 DEF UnderWay
  <2>6. QED BY <2>4, <2>5
<1>5. QED BY <1>3, <1>4 DEF Alive

\* The keep-alive is in time, if the server waits for at least two units: while the
\* connection holds, each session that the client plays is playing at the server until
\* its TEARDOWN is sent, whatever ticks, answers and requests come between, and also
\* when answers are merged, as long as no TEARDOWN's answer can be among them.
THEOREM KeepAliveInTime == ASSUME Timeout >= 2 PROVE Spec => []ServerAgrees
<1>1. Init => Typed /\ Tidy /\ Agreed
  BY TypedInit, TidyInit, AgreedInit
<1>2. Typed /\ Tidy /\ Agreed /\ [Next]_vars => Typed' /\ Tidy' /\ Agreed'
  BY TypedStep, TidyStep, AgreedStep
<1>3. Typed /\ Agreed => ServerAgrees
  BY AgreedAgrees
<1>4. QED BY <1>1, <1>2, <1>3, PTL DEF Spec
=============================================================================
