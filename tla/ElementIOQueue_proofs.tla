------------------------ MODULE ElementIOQueue_proofs ------------------------
(* Theorems about ElementIOQueue, for every value of its constants. *)
EXTENDS ElementIOQueue, FoldTheorems, SequenceTheorems, TLAPS

\* A producer inside addBuffer() still has a buffer to hand over, and a call of
\* the controller that has begun is one of Script.
InCall == /\ \A p \in Producers : ppc[p] \in {"enter", "ratewait", "relock"}
                                    => call[p].todo # <<>>
          /\ cpc # "next" => at <= Len(Script)

IInv == TypeOK /\ InCall

\* What the assumption on Setups says of the fields.
LEMMA SetupTyped ==
  ASSUME setup \in Setups
  PROVE  /\ RLimit \in Modes /\ LimitCount \in Nat \ {0} /\ MaxList \in Nat
         /\ Script \in Seq(CtlOps) /\ Len(Script) \in Nat
         /\ setup.sizes \subseteq Sizes
BY SetupAssumption
   DEF SetupAssumption, Setup, RLimit, LimitCount, MaxList, Script

\* The setup is chosen once.
LEMMA SetupStays ==
  ASSUME [Next]_vars
  PROVE  /\ setup' = setup
         /\ RLimit' = RLimit /\ LimitCount' = LimitCount /\ Script' = Script
<1>1. setup' = setup
  BY Zenon DEF Next, Controller, CallQueue, AddBuffer, GetBuffer, vars
<1>2. QED BY <1>1 DEF RLimit, LimitCount, Script

LEMMA InitIInv == Init => IInv
<1> SUFFICES ASSUME Init PROVE IInv
  OBVIOUS
<1>1. Len(Script) \in Nat /\ MaxAdds \in Nat /\ setup \in Setups
  BY SetupTyped, BoundAssumption DEF BoundAssumption, Init
<1>2. <<>> \in Seq(Buffer)
  OBVIOUS
<1>3. NoCall \in Call
  BY <1>2 DEF NoCall, Call
<1>4. TypeOK
  <2>1. at \in 1..(Len(Script) + 1) /\ sent \in [Producers -> 0..MaxAdds]
    BY <1>1 DEF Init
  <2>2. call \in [Producers -> Call] /\ queue \in Seq(Buffer) /\ taken \in Seq(Buffer)
    BY <1>2, <1>3 DEF Init
  <2>3. /\ ppc \in [Producers -> {"idle", "enter", "ratewait", "relock", "release",
                              "wait", "asleep"}]
        /\ gpc \in [Consumers -> {"off", "idle", "acquire", "recheck", "take", "quit"}]
    BY DEF Init
  <2>4. bufSize \in Int /\ bufSem \in Nat /\ want \in Nat
    BY DEF Init
  <2>5. QED BY <1>1, <2>1, <2>2, <2>3, <2>4, Zenon DEF Init, TypeOK
<1>5. InCall
  BY DEF Init, InCall
<1>6. QED BY <1>4, <1>5 DEF IInv

LEMMA TailNonEmpty == ASSUME NEW S, NEW s \in Seq(S), Len(s) > 1
                      PROVE  Tail(s) # <<>>
BY s # <<>>

LEMMA HandedIInv ==
  ASSUME IInv, NEW p \in Producers, NEW q \in Seq(Buffer), NEW n \in Int,
         NEW permits \in Nat, call[p].todo # <<>>, Handed(p, q, n, permits)
  PROVE  /\ queue' \in Seq(Buffer) /\ bufSize' \in Int
         /\ call' \in [Producers -> Call]
         /\ ppc' \in [Producers -> {"idle", "enter", "ratewait", "relock", "release",
                              "wait", "asleep"}]
         /\ \A r \in Producers : ppc'[r] \in {"enter", "ratewait", "relock"}
                                   => call'[r].todo # <<>>
<1> DEFINE t == call[p].todo
<1>1. t \in Seq(Buffer) /\ Len(t) \in Nat /\ Len(t) > 0
  BY DEF IInv, TypeOK, Call
<1>2. Tail(t) \in Seq(Buffer) /\ Len(Tail(t)) = Len(t) - 1
  BY <1>1
<1>3. call' = [call EXCEPT ![p] = [todo |-> Tail(t), permits |-> permits,
                                   list |-> call[p].list]]
  BY DEF Handed, IInv, TypeOK, Call
<1>4. call' \in [Producers -> Call]
  BY <1>2, <1>3 DEF IInv, TypeOK, Call
<1>5. ASSUME NEW r \in Producers, ppc'[r] \in {"enter", "ratewait", "relock"}
      PROVE  call'[r].todo # <<>>
  <2>1. CASE r = p
    <3>1. call'[r].todo = Tail(t)
      BY <1>3, <2>1 DEF IInv, TypeOK
    <3>2. Len(t) > 1
      BY <1>1, <1>5, <2>1 DEF Handed, IInv, TypeOK
    <3>3. Tail(t) # <<>>
      BY <1>1, <3>2, TailNonEmpty
    <3>4. QED BY <3>1, <3>3
  <2>2. CASE r # p
    BY <1>3, <1>5, <2>2 DEF Handed, IInv, TypeOK, InCall
  <2>3. QED BY <2>1, <2>2
<1>6. QED BY <1>4, <1>5 DEF Handed, IInv, TypeOK

\* What one iteration of addBuffer() under the mutex keeps.
Typed == /\ queue' \in Seq(Buffer) /\ bufSize' \in Int
         /\ call' \in [Producers -> Call]
         /\ ppc' \in [Producers -> {"idle", "enter", "ratewait", "relock", "release",
                              "wait", "asleep"}]
         /\ \A r \in Producers : ppc'[r] \in {"enter", "ratewait", "relock"}
                                   => call'[r].todo # <<>>

LEMMA EvictProperties ==
  ASSUME setup \in Setups, NEW q \in Seq(Buffer)
  PROVE  /\ Evict(q) \in Seq(Buffer)
         /\ Len(Evict(q)) < LimitCount
<1>1. LimitCount \in Nat \ {0}
  BY SetupTyped
<1>2. CASE Len(q) < LimitCount
  BY <1>2 DEF Evict
<1>3. CASE ~(Len(q) < LimitCount)
  <2> DEFINE m == Len(q) - LimitCount + 2
  <2>1. m \in Int /\ m >= 2 /\ Len(q) \in Nat
    BY <1>1, <1>3
  <2>2. \A i \in m .. Len(q) : q[i] \in Buffer
    BY <2>1, ElementOfSeq
  <2>3. /\ SubSeq(q, m, Len(q)) \in Seq(Buffer)
        /\ Len(SubSeq(q, m, Len(q))) = IF m <= Len(q) THEN Len(q) - m + 1 ELSE 0
    BY <2>1, <2>2, SubSeqProperties
  <2>4. QED BY <1>1, <1>3, <2>1, <2>3 DEF Evict
<1>4. QED BY <1>2, <1>3

LEMMA PushTyped ==
  ASSUME IInv, NEW p \in Producers, NEW q \in Seq(Buffer),
         ppc[p] \in {"enter", "ratewait", "relock"}, Push(p, q)
  PROVE  Typed
<1> DEFINE b == Head(call[p].todo)
<1>1. call[p].todo # <<>> /\ call[p].todo \in Seq(Buffer) /\ call[p].permits \in Nat
  BY DEF IInv, InCall, TypeOK, Call
<1>2. b \in Buffer
  BY <1>1
<1>3. b.size \in Nat
  BY <1>2, BoundAssumption DEF BoundAssumption, Buffer
<1>4. Append(q, b) \in Seq(Buffer) /\ bufSize + b.size \in Int /\ bufSize \in Int
  BY <1>2, <1>3, SMTT(30) DEF IInv, TypeOK
<1>5. CASE Handed(p, Append(q, b), bufSize + b.size, call[p].permits)
  BY <1>1, <1>4, <1>5, HandedIInv DEF Typed
<1>6. CASE Handed(p, q, bufSize, IF call[p].list THEN call[p].permits ELSE 0)
  <2>1. (IF call[p].list THEN call[p].permits ELSE 0) \in Nat
    BY <1>1
  <2>2. QED BY <1>1, <1>4, <1>6, <2>1, HandedIInv DEF Typed
<1>7. QED BY <1>5, <1>6 DEF Push

LEMMA NextIInv == IInv /\ [Next]_vars => IInv'
<1> SUFFICES ASSUME IInv, [Next]_vars PROVE IInv'
  OBVIOUS
<1>0. setup' = setup /\ Script' = Script
  BY SetupStays
<1> USE <1>0 DEF ctlVars, prodVars
<1>1. /\ setup \in Setups /\ Len(Script) \in Nat /\ MaxList \in Nat
      /\ MaxAdds \in Nat /\ StopPermits \in Nat /\ setup.sizes \subseteq Sizes
  BY SetupTyped, BoundAssumption DEF BoundAssumption, IInv, TypeOK
<1>2. NoCall \in Call
  BY DEF NoCall, Call
<1>3. ASSUME NEW p \in Producers, CallAdd(p) PROVE IInv'
  <2>1. PICK n \in 1..MaxList, isList \in BOOLEAN :
          /\ sent[p] + n <= MaxAdds
          /\ \E sz \in [1..n -> setup.sizes] :
               call' = [call EXCEPT ![p] =
                         [todo |-> [i \in 1..n |-> [by |-> p, no |-> sent[p] + i,
                                                    size |-> sz[i]]],
                          permits |-> n, list |-> isList]]
          /\ sent' = [sent EXCEPT ![p] = @ + n]
    BY <1>3, Zenon DEF CallAdd
  <2>2. PICK sz \in [1..n -> setup.sizes] :
               call' = [call EXCEPT ![p] =
                         [todo |-> [i \in 1..n |-> [by |-> p, no |-> sent[p] + i,
                                                    size |-> sz[i]]],
                          permits |-> n, list |-> isList]]
    BY <2>1
  <2> DEFINE t == [i \in 1..n |-> [by |-> p, no |-> sent[p] + i, size |-> sz[i]]]
  <2>3. n \in Nat /\ n > 0 /\ sent[p] \in 0..MaxAdds
    BY <1>1 DEF IInv, TypeOK
  <2>4. \A i \in 1..n : [by |-> p, no |-> sent[p] + i, size |-> sz[i]] \in Buffer
    BY <1>1, <2>1, <2>2, <2>3 DEF Buffer
  <2>5. t \in Seq(Buffer) /\ t # <<>>
    BY <2>3, <2>4
  <2>6. [todo |-> t, permits |-> n, list |-> isList] \in Call
    BY <2>1, <2>3, <2>5 DEF Call
  <2>7. call' \in [Producers -> Call]
    BY <2>2, <2>6 DEF IInv, TypeOK
  <2>8. sent' \in [Producers -> 0..MaxAdds]
    BY <1>1, <2>1, <2>3 DEF IInv, TypeOK
  <2>9. ppc' = [ppc EXCEPT ![p] = "enter"]
    BY <1>3, Zenon DEF CallAdd
  <2>10. \A r \in Producers : ppc'[r] \in {"enter", "ratewait", "relock"}
                                => call'[r].todo # <<>>
    BY <2>2, <2>5, <2>9 DEF IInv, TypeOK, InCall
  <2>11. UNCHANGED <<queue, bufSize, bufSem, state, ctlVars, gpc, taken>>
    BY <1>3 DEF CallAdd
  <2>12. ppc' \in [Producers -> {"idle", "enter", "ratewait", "relock", "release",
                              "wait", "asleep"}]
    BY <2>9 DEF IInv, TypeOK
  <2>13. QED BY <2>7, <2>8, <2>10, <2>11, <2>12, Zenon DEF IInv, TypeOK, InCall
<1>4. ASSUME NEW p \in Producers, AddRefused(p) PROVE IInv'
  BY <1>2, <1>4 DEF AddRefused, IInv, TypeOK, InCall
<1>5. ASSUME NEW p \in Producers, AddEnter(p) PROVE IInv'
  <2>1. UNCHANGED <<bufSem, state, ctlVars, sent, gpc, taken>> /\ ppc[p] = "enter"
    BY <1>5 DEF AddEnter
  <2>2. Typed
    <3>1. queue \in Seq(Buffer) /\ Evict(queue) \in Seq(Buffer)
      BY <1>1, EvictProperties DEF IInv, TypeOK
    <3>2. CASE Push(p, queue) \/ Push(p, Evict(queue))
      BY <2>1, <3>1, <3>2, PushTyped
    <3>3. CASE ppc' = [ppc EXCEPT ![p] = "ratewait"] /\ UNCHANGED <<queue, bufSize, call>>
      BY <2>1, <3>3 DEF Typed, IInv, TypeOK, InCall
    <3>4. QED BY <1>5, <3>2, <3>3, Zenon DEF AddEnter
  <2>3. QED BY <2>1, <2>2, Zenon DEF Typed, IInv, TypeOK, InCall
<1>6. ASSUME NEW p \in Producers, AddRetry(p) \/ AddRelock(p) PROVE IInv'
  <2>1. /\ UNCHANGED <<bufSem, state, ctlVars, sent, gpc, taken>>
        /\ ppc[p] \in {"ratewait", "relock"} /\ Push(p, queue)
    BY <1>6 DEF AddRetry, AddRelock
  <2>2. Typed
    BY <2>1, PushTyped DEF IInv, TypeOK
  <2>3. QED BY <2>1, <2>2, Zenon DEF Typed, IInv, TypeOK, InCall
<1>7. ASSUME NEW p \in Producers, AddWaited(p) PROVE IInv'
  BY <1>7 DEF AddWaited, IInv, TypeOK, InCall
<1>8. ASSUME NEW p \in Producers, AddRelease(p) PROVE IInv'
  <2>1. bufSem' \in Nat
    BY <1>8 DEF AddRelease, Release, IInv, TypeOK, Call
  <2>2. QED BY <1>2, <1>8, <2>1 DEF AddRelease, Release, IInv, TypeOK, InCall
<1>9. ASSUME NEW c \in Consumers, GetEnter(c) \/ GetRecheck(c) PROVE IInv'
  BY <1>9 DEF GetEnter, GetRecheck, GoTo, IInv, TypeOK, InCall
<1>10. ASSUME NEW c \in Consumers, GetAcquire(c) PROVE IInv'
  BY <1>10 DEF GetAcquire, GetAcquireAny, GoTo, IInv, TypeOK, InCall
<1>11. ASSUME NEW c \in Consumers, GetTake(c) PROVE IInv'
  <2>1. CASE queue # <<>>
    <3>1. Head(queue) \in Buffer /\ Tail(queue) \in Seq(Buffer)
      BY <2>1 DEF IInv, TypeOK
    <3>2. Head(queue).size \in Nat
      BY <3>1, BoundAssumption DEF BoundAssumption, Buffer
    <3>3. queue' \in Seq(Buffer) /\ bufSize' \in Int /\ taken' \in Seq(Buffer)
      <4>1. /\ queue' = Tail(queue) /\ taken' = Append(taken, Head(queue))
            /\ bufSize' = bufSize - Head(queue).size
        BY <1>11, <2>1, Zenon DEF GetTake
      <4>2. taken \in Seq(Buffer) /\ bufSize \in Int
        BY DEF IInv, TypeOK
      <4>3. Append(taken, Head(queue)) \in Seq(Buffer)
        BY <3>1, <4>2, AppendProperties
      <4>4. bufSize - Head(queue).size \in Int
        BY <3>2, <4>2
      <4>5. QED BY <3>1, <4>1, <4>3, <4>4, Zenon
    <3>4. QED BY <1>11, <2>1, <3>3 DEF GetTake, GoTo, IInv, TypeOK, InCall
  <2>2. CASE queue = <<>>
    BY <1>11, <2>2 DEF GetTake, GoTo, IInv, TypeOK, InCall
  <2>3. QED BY <2>1, <2>2
<1>12. ASSUME CtlStart \/ CtlGo \/ CtlJoin PROVE IInv'
  BY <1>1, <1>12 DEF CtlStart, CtlGo, CtlJoin, CtlCalls, CtlReturns, IInv, TypeOK, InCall
<1>13. ASSUME CtlStop \/ CtlClearRead PROVE IInv'
  BY <1>1, <1>13 DEF CtlStop, CtlClearRead, CtlCalls, IInv, TypeOK, InCall
<1>14. ASSUME CtlClearAcquire PROVE IInv'
  <2>1. /\ bufSem' \in Nat /\ want' \in Nat /\ bufSize' \in Int
        /\ at' \in 1..(Len(Script) + 1)
    BY <1>1, <1>14, SMTT(30) DEF CtlClearAcquire, CtlReturns, IInv, TypeOK, InCall
  <2>2. queue' \in Seq(Buffer)
    BY <1>14 DEF CtlClearAcquire
  <2>3. QED BY <1>14, <2>1, <2>2 DEF CtlClearAcquire, CtlReturns, IInv, TypeOK, InCall
<1>15. ASSUME CtlStopRelease PROVE IInv'
  BY <1>1, <1>15 DEF CtlStopRelease, WakeUp, CtlReturns, IInv, TypeOK, InCall
<1>16. ASSUME UNCHANGED vars PROVE IInv'
  BY <1>16 DEF vars, IInv, TypeOK, InCall
<1>17. ASSUME NEW p \in Producers, Prepend(p) PROVE IInv'
  <2>1. PICK sz \in setup.sizes \ {0} :
          /\ queue' = <<[by |-> p, no |-> sent[p] + 1, size |-> sz]>> \o queue
          /\ bufSize' = bufSize + sz
    BY <1>17, Zenon DEF Prepend
  <2>2. sent[p] \in 0..MaxAdds /\ sent[p] < MaxAdds
    BY <1>17 DEF Prepend, IInv, TypeOK
  <2>3. [by |-> p, no |-> sent[p] + 1, size |-> sz] \in Buffer
    BY <1>1, <2>2 DEF Buffer
  <2>4. queue' \in Seq(Buffer)
    BY <2>1, <2>3 DEF IInv, TypeOK
  <2>5. sz \in Nat
    BY <1>1, BoundAssumption DEF BoundAssumption
  <2>6. bufSize' \in Int /\ bufSem' \in Nat /\ sent' \in [Producers -> 0..MaxAdds]
    BY <1>1, <1>17, <2>1, <2>2, <2>5 DEF Prepend, IInv, TypeOK
  <2>7. UNCHANGED <<state, ctlVars, ppc, call, gpc, taken>>
    BY <1>17 DEF Prepend
  <2>8. QED BY <2>4, <2>6, <2>7, Zenon DEF IInv, TypeOK, InCall
<1>18. ASSUME NEW p \in Producers, WaitEnter(p) \/ WaitTest(p) PROVE IInv'
  BY <1>18 DEF WaitEnter, WaitTest, IInv, TypeOK, InCall
<1>19. QED
  BY <1>3, <1>4, <1>5, <1>6, <1>7, <1>8, <1>9, <1>10, <1>11, <1>12, <1>13, <1>14,
     <1>15, <1>16, <1>17, <1>18, Zenon DEF Next, Controller, CallQueue, AddBuffer, GetBuffer

\* Every reachable state is well typed, and a producer inside addBuffer() has a
\* buffer left to add.
THEOREM TypeCorrect == Spec => []TypeOK
<1>1. Spec => []IInv
  BY InitIInv, NextIInv, PTL DEF Spec
<1>2. IInv => TypeOK
  BY DEF IInv
<1>3. QED BY <1>1, <1>2, PTL

-----------------------------------------------------------------------------
\* A producer only waits where its mode makes it wait: in the count modes nobody
\* appends without having seen, with the mutex held, that there is room.
Waits == \A p \in Producers :
           /\ ppc[p] = "ratewait" => RLimit \in {"COUNT", "TOTAL", "INTERVAL"}
           /\ ppc[p] = "relock" => RLimit \in {"TOTAL", "INTERVAL"}

CountInv == Waits /\ CountBound

LEMMA PushCount ==
  ASSUME IInv, CountInv, NEW p \in Producers, NEW q \in Seq(Buffer), Push(p, q),
         ppc[p] \in {"enter", "ratewait", "relock"},
         RLimit' = RLimit, LimitCount' = LimitCount, setup' = setup,
         RLimit \in {"COUNT", "DROP"} => Len(q) < LimitCount
  PROVE  CountInv'
<1>1. LimitCount \in Nat
  BY SetupTyped DEF IInv, TypeOK
<1>2. Head(call[p].todo) \in Buffer
  BY DEF IInv, InCall, TypeOK, Call
<1>3. CountBound'
  <2>1. queue' = q \/ queue' = Append(q, Head(call[p].todo))
    BY DEF Push, Handed
  <2>2. Len(Append(q, Head(call[p].todo))) = Len(q) + 1 /\ Len(q) \in Nat
    BY <1>2
  <2>3. QED BY <1>1, <2>1, <2>2 DEF CountBound
<1>4. Waits'
  <2>1. ppc' = [ppc EXCEPT ![p] = IF Len(call[p].todo) > 1 THEN "enter" ELSE "release"]
    BY DEF Push, Handed
  <2>2. QED BY <2>1 DEF CountInv, Waits, IInv, TypeOK
<1>5. QED BY <1>3, <1>4 DEF CountInv

LEMMA NextCountInv == IInv /\ CountInv /\ [Next]_vars => CountInv'
<1> SUFFICES ASSUME IInv, CountInv, [Next]_vars PROVE CountInv'
  OBVIOUS
<1>0. RLimit' = RLimit /\ LimitCount' = LimitCount /\ setup' = setup
  BY SetupStays
<1> USE <1>0 DEF ctlVars, prodVars
<1>1. /\ setup \in Setups /\ LimitCount \in Nat \ {0} /\ RLimit \in Modes
      /\ queue \in Seq(Buffer)
  BY SetupTyped DEF IInv, TypeOK
<1>2. ASSUME NEW p \in Producers,
             \/ CallAdd(p) \/ AddRefused(p) \/ AddWaited(p) \/ AddRelease(p)
             \/ WaitEnter(p) \/ WaitTest(p)
      PROVE  CountInv'
  BY <1>2 DEF CallAdd, WaitEnter, WaitTest, AddRefused, AddWaited, AddRelease, Release, CountInv, Waits,
              CountBound, IInv, TypeOK
<1>3. ASSUME NEW p \in Producers, AddEnter(p) PROVE CountInv'
  <2>1. ppc[p] = "enter"
    BY <1>3 DEF AddEnter
  <2>2. CASE RLimit \in {"NONE", "INTERVAL"} /\ Push(p, queue)
    BY <1>1, <2>1, <2>2, PushCount
  <2>3. CASE RLimit = "DROP" /\ Push(p, Evict(queue))
    BY <1>1, <2>1, <2>3, EvictProperties, PushCount
  <2>4. CASE RLimit = "COUNT" /\ Len(queue) < LimitCount /\ Push(p, queue)
    BY <1>1, <2>1, <2>4, PushCount
  <2>5. CASE /\ RLimit \in {"COUNT", "TOTAL", "INTERVAL"}
             /\ ppc' = [ppc EXCEPT ![p] = "ratewait"]
             /\ UNCHANGED <<queue, bufSize, call>>
    BY <2>5 DEF CountInv, Waits, CountBound, IInv, TypeOK
  <2>6. QED BY <1>3, <2>2, <2>3, <2>4, <2>5 DEF AddEnter
<1>4. ASSUME NEW p \in Producers, AddRetry(p) PROVE CountInv'
  BY <1>1, <1>4, PushCount DEF AddRetry
<1>5. ASSUME NEW p \in Producers, AddRelock(p) PROVE CountInv'
  <2>1. RLimit \in {"TOTAL", "INTERVAL"} /\ ppc[p] = "relock" /\ Push(p, queue)
    BY <1>5 DEF AddRelock, CountInv, Waits
  <2>2. QED BY <1>1, <2>1, PushCount
<1>6. ASSUME NEW c \in Consumers, GetEnter(c) \/ GetRecheck(c) \/ GetAcquire(c)
      PROVE  CountInv'
  BY <1>6 DEF GetEnter, GetRecheck, GetAcquire, GetAcquireAny, CountInv, Waits, CountBound
<1>7. ASSUME NEW c \in Consumers, GetTake(c) PROVE CountInv'
  <2>1. UNCHANGED ppc /\ (queue' = queue \/ (queue # <<>> /\ queue' = Tail(queue)))
    BY <1>7 DEF GetTake
  <2>2. Len(queue) \in Nat /\ (queue # <<>> => Len(Tail(queue)) = Len(queue) - 1)
    BY <1>1
  <2>3. QED BY <1>1, <2>1, <2>2 DEF CountInv, Waits, CountBound
<1>8. ASSUME CtlStart \/ CtlGo \/ CtlJoin \/ CtlStop \/ CtlClearRead \/ CtlStopRelease
      PROVE  CountInv'
  BY <1>8 DEF CtlStart, CtlGo, CtlJoin, CtlStop, CtlClearRead, CtlStopRelease, WakeUp,
              CountInv, Waits, CountBound
<1>9. ASSUME CtlClearAcquire PROVE CountInv'
  <2>1. UNCHANGED ppc /\ queue' = <<>>
    BY <1>9 DEF CtlClearAcquire
  <2>2. QED BY <1>1, <2>1, EmptySeq DEF CountInv, Waits, CountBound
<1>10. ASSUME UNCHANGED vars PROVE CountInv'
  BY <1>10 DEF vars, CountInv, Waits, CountBound
<1>11. ASSUME NEW p \in Producers, Prepend(p) PROVE CountInv'
  <2>1. setup.prepending # {} /\ UNCHANGED ppc
    BY <1>11 DEF Prepend
  <2>2. QED BY <2>1 DEF CountInv, Waits, CountBound
<1>12. QED
  BY <1>2, <1>3, <1>4, <1>5, <1>6, <1>7, <1>8, <1>9, <1>10, <1>11, Zenon
     DEF Next, Controller, CallQueue, AddBuffer, GetBuffer

\* setRateLimitBufferCount() bounds the queue for any number of producers and any
\* limit, in the waiting and in the dropping form.
THEOREM CountBounded == Spec => []CountBound
<1>1. Init => CountInv
  <2> SUFFICES ASSUME Init PROVE CountInv
    OBVIOUS
  <2>1. queue = <<>> /\ ppc = [p \in Producers |-> "idle"]
    BY Zenon DEF Init
  <2>2. LimitCount \in Nat
    BY SetupTyped DEF Init
  <2>3. QED BY <2>1, <2>2, EmptySeq DEF CountInv, Waits, CountBound
<1>2. Spec => []IInv
  BY InitIInv, NextIInv, PTL DEF Spec
<1>3. Spec => []CountInv
  BY <1>1, <1>2, NextCountInv, PTL DEF Spec
<1>4. CountInv => CountBound
  BY DEF CountInv
<1>5. QED BY <1>3, <1>4, PTL
-----------------------------------------------------------------------------
(* The queue is a MediaFifo *)

\* The buffers a producer has still to hand over are the last of those it made, in
\* order.
OrderedAt(p) ==
  /\ call[p].todo # <<>> => ppc[p] \in {"enter", "ratewait", "relock"}
  /\ \A i \in 1..Len(call[p].todo) :
       /\ call[p].todo[i].by = p
       /\ call[p].todo[i].no = sent[p] - Len(call[p].todo) + i
Ordered == \A p \in Producers : OrderedAt(p)

\* What `handed' of MediaFifo stands for.
Handing(p) == sent[p] - Len(call[p].todo)

LEMMA OrderedStep ==
  ASSUME Ordered, NEW p \in Producers, OrderedAt(p)',
         \A r \in Producers : r # p => call'[r] = call[r] /\ sent'[r] = sent[r] /\ ppc'[r] = ppc[r]
  PROVE  Ordered'
BY DEF Ordered, OrderedAt

LEMMA OrderedSame ==
  ASSUME Ordered, UNCHANGED <<call, sent, ppc>>
  PROVE  Ordered'
BY DEF Ordered, OrderedAt

LEMMA HandedOrdered ==
  ASSUME IInv, Ordered, NEW p \in Producers, NEW q, NEW n, NEW permits,
         Handed(p, q, n, permits), call[p].todo # <<>>, UNCHANGED sent
  PROVE  /\ Ordered'
         /\ Handing(p)' = Handing(p) + 1 /\ Handing(p) \in Nat
         /\ Head(call[p].todo).by = p /\ Head(call[p].todo).no = Handing(p) + 1
<1> DEFINE t == call[p].todo
<1>1. /\ t \in Seq(Buffer) /\ t # <<>> /\ Len(t) \in Nat /\ Len(t) > 0
      /\ Tail(t) \in Seq(Buffer) /\ Len(Tail(t)) = Len(t) - 1 /\ Head(t) = t[1]
      /\ sent[p] \in Nat
  BY DEF IInv, TypeOK, Call
<1>2. \A i \in 1..Len(Tail(t)) : Tail(t)[i] = t[i + 1] /\ i + 1 \in 1..Len(t)
  BY <1>1
<1>3. \A i \in 1..Len(t) : t[i].by = p /\ t[i].no = sent[p] - Len(t) + i
  BY DEF Ordered, OrderedAt
<1>4. /\ call' = [call EXCEPT ![p] = [todo |-> Tail(t), permits |-> permits,
                                      list |-> call[p].list]]
      /\ ppc' = [ppc EXCEPT ![p] = IF Len(t) > 1 THEN "enter" ELSE "release"]
      /\ call \in [Producers -> Call]
      /\ ppc \in [Producers -> {"idle", "enter", "ratewait", "relock", "release",
                              "wait", "asleep"}]
  BY DEF Handed, IInv, TypeOK
<1>5. call'[p].todo = Tail(t) /\ sent'[p] = sent[p]
  BY <1>4
<1> HIDE DEF t
<1>6. Handing(p)' = Handing(p) + 1 /\ Handing(p) = sent[p] - Len(t)
  BY <1>1, <1>5 DEF Handing, t
<1>7. Head(t).by = p /\ Head(t).no = sent[p] - Len(t) + 1
  BY <1>1, <1>3
<1>8. Head(t).no \in Nat \ {0}
  <2>1. Head(t) \in Buffer
    BY <1>1
  <2>2. QED BY <2>1, BoundAssumption DEF BoundAssumption, Buffer
<1>9. Handing(p) \in Nat /\ Head(t).no = Handing(p) + 1
  BY <1>1, <1>6, <1>7, <1>8
<1>10. OrderedAt(p)'
  <2>1. Tail(t) # <<>> => ppc'[p] = "enter"
    BY <1>1, <1>4
  <2>2. ASSUME NEW i \in 1..Len(Tail(t))
        PROVE  Tail(t)[i].by = p /\ Tail(t)[i].no = sent[p] - Len(Tail(t)) + i
    <3>1. /\ Tail(t)[i] = t[i + 1] /\ t[i + 1].by = p
          /\ t[i + 1].no = sent[p] - Len(t) + (i + 1)
      BY <1>2, <1>3
    <3>2. sent[p] - Len(t) + (i + 1) = sent[p] - Len(Tail(t)) + i
      <4>1. /\ i \in Int /\ Len(t) \in Int /\ sent[p] \in Int
            /\ Len(Tail(t)) = Len(t) - 1
        BY <1>1
      <4>2. QED BY <4>1
    <3>3. QED BY <3>1, <3>2
  <2>3. QED BY <1>5, <2>1, <2>2, Zenon DEF OrderedAt
<1>11. Ordered'
  BY <1>4, <1>10, OrderedStep
<1>12. QED BY <1>6, <1>7, <1>9, <1>11 DEF t

LEMMA HandedChanges ==
  ASSUME NEW p \in Producers, NEW n, Handing(p)' = n,
         \A r \in Producers : r # p => Handing(r)' = Handing(r)
  PROVE  [r \in Producers |-> sent'[r] - Len(call'[r].todo)]
           = [[r \in Producers |-> sent[r] - Len(call[r].todo)] EXCEPT ![p] = n]
BY DEF Handing

\* The queue after a hand-over is the queue without its oldest buffers, if any.
LEMMA EvictDrops ==
  ASSUME setup \in Setups, NEW q \in Seq(Buffer)
  PROVE  /\ \E k \in 0..Len(q) : q = SubSeq(q, k + 1, Len(q))
         /\ \E k \in 0..Len(q) : Evict(q) = SubSeq(q, k + 1, Len(q))
<1>1. LimitCount \in Nat \ {0} /\ Len(q) \in Nat
  BY SetupTyped
<1>2. q = SubSeq(q, 0 + 1, Len(q)) /\ 0 \in 0..Len(q)
  BY <1>1, SubSeqFull
<1>3. CASE Len(q) < LimitCount
  BY <1>2, <1>3 DEF Evict
<1>4. CASE ~(Len(q) < LimitCount)
  <2>1. /\ (Len(q) - LimitCount + 1) + 1 = Len(q) - LimitCount + 2
        /\ Len(q) - LimitCount + 1 \in 0..Len(q)
    BY <1>1, <1>4
  <2>2. QED BY <1>2, <1>4, <2>1 DEF Evict
<1>5. QED BY <1>3, <1>4

\* What an iteration of addBuffer() is to the fifo: a Put, or a buffer lost.
LEMMA PushPuts ==
  ASSUME IInv, Ordered, NEW p \in Producers, NEW q,
         \E k \in 0..Len(queue) : q = SubSeq(queue, k + 1, Len(queue)),
         Push(p, q), ppc[p] \in {"enter", "ratewait", "relock"},
         UNCHANGED <<sent, taken, setup>>
  PROVE  Ordered' /\ Fifo!Next
<1> DEFINE b == Head(call[p].todo)
<1>1. call[p].todo # <<>> /\ call[p].todo \in Seq(Buffer)
  BY DEF IInv, InCall, TypeOK, Call
<1>2. b \in Buffer
  BY <1>1
<1>3. PICK n, permits, r : r \in {q, Append(q, b)} /\ Handed(p, r, n, permits)
  BY Zenon DEF Push
<1>4. /\ Ordered' /\ Handing(p)' = Handing(p) + 1 /\ Handing(p) \in Nat
      /\ b.by = p /\ b.no = Handing(p) + 1
  BY <1>1, <1>3, HandedOrdered
<1>5. queue' = r /\ \A s \in Producers : s # p => call'[s] = call[s]
  BY <1>3 DEF Handed, IInv, TypeOK
<1>6. [s \in Producers |-> sent'[s] - Len(call'[s].todo)]
        = [[s \in Producers |-> sent[s] - Len(call[s].todo)] EXCEPT ![p] = b.no]
  <2>1. Handing(p)' = b.no
    BY <1>4
  <2>2. \A s \in Producers : s # p => Handing(s)' = Handing(s)
    BY <1>5 DEF Handing
  <2>3. QED BY <2>1, <2>2, HandedChanges
<1>7. b.no > [s \in Producers |-> sent[s] - Len(call[s].todo)][p]
  BY <1>4 DEF Handing
<1> HIDE DEF b
<1>8. CASE r = Append(q, b)
  <2>0. \E k \in 0..Len(queue) : queue' = Append(SubSeq(queue, k + 1, Len(queue)), b)
    BY <1>5, <1>8
  <2>1. \E x \in Buffer : Fifo!Put(x)
    <3>1. PICK x \in Buffer : x = b
      BY <1>2
    <3>2. Fifo!Put(x)
      BY <3>1, <1>4, <1>6, <1>7, <2>0 DEF Fifo!Put
    <3>3. QED BY <3>2
  <2>2. QED BY <1>4, <2>1 DEF Fifo!Next
<1>9. CASE r = q
  <2>1. Fifo!Lose(p)
    BY <1>2, <1>5, <1>6, <1>7, <1>9 DEF Fifo!Lose
  <2>2. QED BY <1>4, <2>1 DEF Fifo!Next
<1>10. QED BY <1>3, <1>8, <1>9

LEMMA NextFifo == IInv /\ Ordered /\ [Next]_vars => Ordered' /\ [Fifo!Next]_(Fifo!fifoVars)
<1> SUFFICES ASSUME IInv, Ordered, [Next]_vars PROVE Ordered' /\ [Fifo!Next]_(Fifo!fifoVars)
  OBVIOUS
<1>0. setup' = setup
  BY SetupStays
<1>t. /\ setup \in Setups /\ queue \in Seq(Buffer) /\ call \in [Producers -> Call]
      /\ sent \in [Producers -> 0..MaxAdds] /\ MaxAdds \in Nat
      /\ ppc \in [Producers -> {"idle", "enter", "ratewait", "relock", "release",
                              "wait", "asleep"}]
  BY BoundAssumption DEF BoundAssumption, IInv, TypeOK
<1>n. NoCall.todo = <<>> /\ Len(<<>>) = 0 /\ \A i \in 1..Len(<<>>) : FALSE
  BY DEF NoCall
\* Steps that the fifo does not see.
<1>s. ASSUME UNCHANGED <<queue, taken>>, \A p \in Producers : Handing(p)' = Handing(p)
      PROVE  UNCHANGED Fifo!fifoVars
  <2>1. [p \in Producers |-> sent'[p] - Len(call'[p].todo)]
          = [p \in Producers |-> sent[p] - Len(call[p].todo)]
    BY <1>s DEF Handing
  <2>2. QED BY <1>0, <1>s, <2>1 DEF Fifo!fifoVars
\* A call ends with nothing left to hand over.
<1>e. ASSUME NEW p \in Producers, call' = [call EXCEPT ![p] = NoCall], UNCHANGED sent,
             ppc' = [ppc EXCEPT ![p] = "idle"]
      PROVE  Ordered' /\ \A r \in Producers : r # p => Handing(r)' = Handing(r)
  <2>1. OrderedAt(p)'
    BY <1>e, <1>n, <1>t DEF OrderedAt
  <2>2. QED BY <1>e, <1>t, <2>1, OrderedStep DEF Handing
<1> USE DEF ctlVars, prodVars
<1>1. ASSUME NEW p \in Producers, CallAdd(p) PROVE Ordered' /\ UNCHANGED Fifo!fifoVars
  <2>1. PICK n \in 1..MaxList, isList \in BOOLEAN :
          /\ \E sz \in [1..n -> setup.sizes] :
               call' = [call EXCEPT ![p] =
                         [todo |-> [i \in 1..n |-> [by |-> p, no |-> sent[p] + i,
                                                    size |-> sz[i]]],
                          permits |-> n, list |-> isList]]
          /\ sent' = [sent EXCEPT ![p] = @ + n]
    BY <1>1, Zenon DEF CallAdd
  <2>2. PICK sz \in [1..n -> setup.sizes] :
               call' = [call EXCEPT ![p] =
                         [todo |-> [i \in 1..n |-> [by |-> p, no |-> sent[p] + i,
                                                    size |-> sz[i]]],
                          permits |-> n, list |-> isList]]
    BY <2>1
  <2> DEFINE t == [i \in 1..n |-> [by |-> p, no |-> sent[p] + i, size |-> sz[i]]]
  <2>3. /\ ppc[p] = "idle" /\ ppc' = [ppc EXCEPT ![p] = "enter"] /\ UNCHANGED <<queue, taken>>
    BY <1>1, Zenon DEF CallAdd
  <2>4. call[p].todo = <<>>
    BY <2>3 DEF Ordered, OrderedAt
  <2>5. n \in Nat /\ Len(t) = n /\ call'[p].todo = t /\ sent'[p] = sent[p] + n /\ sent[p] \in Nat
    BY <1>t, <2>1, <2>2, SetupTyped
  <2>6. \A i \in 1..n : t[i].by = p /\ t[i].no = sent'[p] - n + i
    BY <1>t, <2>5
  <2>7. ppc'[p] = "enter" /\ \A r \in Producers : r # p => ppc'[r] = ppc[r]
    BY <1>t, <2>3
  <2>8. \A r \in Producers : r # p => call'[r] = call[r] /\ sent'[r] = sent[r]
    BY <1>t, <2>1, <2>2
  <2> HIDE DEF t
  <2>9. OrderedAt(p)'
    BY <2>5, <2>6, <2>7 DEF OrderedAt
  <2>10. Ordered'
    BY <2>7, <2>8, <2>9, OrderedStep
  <2>11. \A r \in Producers : Handing(r)' = Handing(r)
    <3>1. Handing(p)' = sent[p] + n - n /\ Handing(p) = sent[p] - 0
      BY <1>n, <2>4, <2>5 DEF Handing
    <3>2. QED BY <2>5, <2>8, <3>1, SMTT(30) DEF Handing
  <2>12. QED BY <1>s, <2>3, <2>10, <2>11
<1>2. ASSUME NEW p \in Producers, Prepend(p) PROVE Ordered' /\ Fifo!Next
  <2>1. PICK sz \in setup.sizes \ {0} :
          queue' = <<[by |-> p, no |-> sent[p] + 1, size |-> sz]>> \o queue
    BY <1>2, Zenon DEF Prepend
  <2> DEFINE b == [by |-> p, no |-> sent[p] + 1, size |-> sz]
  <2>2. /\ p \in setup.prepending /\ ppc[p] = "idle" /\ sent[p] < MaxAdds
        /\ sent' = [sent EXCEPT ![p] = @ + 1] /\ UNCHANGED <<ppc, call, taken>>
    BY <1>2 DEF Prepend
  <2>3. call[p].todo = <<>>
    BY <2>2 DEF Ordered, OrderedAt
  <2>4. sent[p] \in Nat /\ sent'[p] = sent[p] + 1 /\ \A r \in Producers : r # p => sent'[r] = sent[r]
    BY <1>t, <2>2
  <2>5. Ordered'
    <3>1. OrderedAt(p)'
      BY <1>n, <2>2, <2>3 DEF OrderedAt
    <3>2. QED BY <2>2, <2>4, <3>1, OrderedStep
  <2>6. b \in Buffer /\ b.by = p /\ b.no = sent[p] + 1
    BY <1>t, <2>2, <2>4, SetupTyped DEF Buffer
  <2>7. [s \in Producers |-> sent'[s] - Len(call'[s].todo)]
          = [[s \in Producers |-> sent[s] - Len(call[s].todo)] EXCEPT ![p] = b.no]
    <3>1. Handing(p)' = b.no
      BY <1>n, <2>2, <2>3, <2>4, <2>6 DEF Handing
    <3>2. \A s \in Producers : s # p => Handing(s)' = Handing(s)
      BY <2>2, <2>4 DEF Handing
    <3>3. QED BY <3>1, <3>2, HandedChanges
  <2>8. b.no > [s \in Producers |-> sent[s] - Len(call[s].todo)][p]
    BY <1>n, <2>3, <2>4, <2>6
  <2>9. queue' = <<b>> \o queue
    BY <2>1
  <2> HIDE DEF b
  <2>10. \E x \in Buffer : Fifo!PutFirst(x)
    <3>1. PICK x \in Buffer : x = b
      BY <2>6
    <3>2. Fifo!PutFirst(x)
      BY <1>0, <2>2, <2>6, <2>7, <2>8, <2>9, <3>1 DEF Fifo!PutFirst
    <3>3. QED BY <3>2
  <2>11. QED BY <2>5, <2>10 DEF Fifo!Next
<1>3. ASSUME NEW p \in Producers, WaitEnter(p) \/ WaitTest(p)
      PROVE  Ordered' /\ UNCHANGED Fifo!fifoVars
  <2>1. /\ UNCHANGED <<queue, taken, call, sent>> /\ ppc[p] \in {"idle", "wait"}
        /\ \A r \in Producers : r # p => ppc'[r] = ppc[r]
    BY <1>3, <1>t DEF WaitEnter, WaitTest
  <2>2. call[p].todo = <<>>
    BY <2>1 DEF Ordered, OrderedAt
  <2>3. OrderedAt(p)'
    BY <1>n, <2>1, <2>2 DEF OrderedAt
  <2>4. QED BY <1>s, <2>1, <2>3, OrderedStep DEF Handing
<1>4. ASSUME NEW p \in Producers, AddRefused(p) PROVE Ordered' /\ Fifo!Next
  <2>1. /\ ppc[p] = "enter" /\ ppc' = [ppc EXCEPT ![p] = "idle"]
        /\ call' = [call EXCEPT ![p] = NoCall] /\ UNCHANGED <<queue, sent, taken>>
    BY <1>4 DEF AddRefused
  <2> DEFINE t == call[p].todo
  <2>2. t \in Seq(Buffer) /\ t # <<>>
    BY <1>t, <2>1 DEF Call, IInv, InCall
  <2>3. Len(t) \in Nat \ {0} /\ Len(t) \in 1..Len(t) /\ sent[p] \in Nat
    BY <1>t, <2>2, EmptySeq
  <2>4. t[Len(t)] \in Buffer /\ t[Len(t)].no = sent[p]
    <3>1. t[Len(t)] \in Buffer
      BY <2>2, <2>3, ElementOfSeq
    <3>2. t[Len(t)].no = sent[p] - Len(t) + Len(t)
      BY <2>3 DEF Ordered, OrderedAt
    <3>3. QED BY <2>3, <3>1, <3>2
  <2>5. Ordered' /\ \A r \in Producers : r # p => Handing(r)' = Handing(r)
    BY <1>e, <2>1
  <2>6. call'[p].todo = <<>> /\ sent'[p] = sent[p]
    BY <1>n, <1>t, <2>1
  <2>7. [s \in Producers |-> sent'[s] - Len(call'[s].todo)]
          = [[s \in Producers |-> sent[s] - Len(call[s].todo)] EXCEPT ![p] = sent[p]]
    <3>1. Handing(p)' = sent[p]
      BY <1>n, <2>3, <2>6 DEF Handing
    <3>2. QED BY <2>5, <3>1, HandedChanges
  <2>8. sent[p] > [s \in Producers |-> sent[s] - Len(call[s].todo)][p]
    BY <2>3
  <2>9. \E k \in 0..Len(queue) : queue = SubSeq(queue, k + 1, Len(queue))
    BY <1>t, EvictDrops
  <2> HIDE DEF t
  <2>10. Fifo!Lose(p)
    BY <1>0, <2>1, <2>4, <2>7, <2>8, <2>9 DEF Fifo!Lose
  <2>11. QED BY <2>5, <2>10 DEF Fifo!Next
<1>5. ASSUME NEW p \in Producers, AddEnter(p) PROVE Ordered' /\ [Fifo!Next]_(Fifo!fifoVars)
  <2>1. ppc[p] = "enter" /\ UNCHANGED <<sent, taken>>
    BY <1>5 DEF AddEnter
  <2>2. CASE Push(p, queue)
    BY <1>0, <1>t, <2>1, <2>2, EvictDrops, PushPuts
  <2>3. CASE Push(p, Evict(queue))
    BY <1>0, <1>t, <2>1, <2>3, EvictDrops, PushPuts
  <2>4. CASE ppc' = [ppc EXCEPT ![p] = "ratewait"] /\ UNCHANGED <<queue, bufSize, call>>
    <3>1. OrderedAt(p)'
      BY <1>t, <2>1, <2>4 DEF Ordered, OrderedAt
    <3>2. Ordered'
      BY <1>t, <2>1, <2>4, <3>1, OrderedStep
    <3>3. QED BY <1>s, <2>1, <2>4, <3>2 DEF Handing
  <2>5. QED BY <1>5, <2>2, <2>3, <2>4, Zenon DEF AddEnter
<1>6. ASSUME NEW p \in Producers, AddRetry(p) \/ AddRelock(p) PROVE Ordered' /\ Fifo!Next
  <2>1. /\ ppc[p] \in {"ratewait", "relock"} /\ Push(p, queue) /\ UNCHANGED <<sent, taken>>
    BY <1>6 DEF AddRetry, AddRelock
  <2>2. QED BY <1>0, <1>t, <2>1, EvictDrops, PushPuts
<1>7. ASSUME NEW p \in Producers, AddWaited(p) PROVE Ordered' /\ UNCHANGED Fifo!fifoVars
  <2>1. /\ ppc[p] = "ratewait" /\ ppc' = [ppc EXCEPT ![p] = "relock"]
        /\ UNCHANGED <<queue, taken, call, sent>>
    BY <1>7 DEF AddWaited
  <2>2. OrderedAt(p)'
    BY <1>t, <2>1 DEF Ordered, OrderedAt
  <2>3. QED BY <1>s, <1>t, <2>1, <2>2, OrderedStep DEF Handing
<1>8. ASSUME NEW p \in Producers, AddRelease(p) PROVE Ordered' /\ UNCHANGED Fifo!fifoVars
  <2>1. /\ ppc[p] = "release" /\ ppc' = [ppc EXCEPT ![p] = "idle"]
        /\ call' = [call EXCEPT ![p] = NoCall] /\ UNCHANGED <<queue, sent, taken>>
    BY <1>8 DEF AddRelease, Release
  <2>2. call[p].todo = <<>> /\ call'[p].todo = <<>>
    BY <1>n, <1>t, <2>1 DEF Ordered, OrderedAt
  <2>3. Ordered' /\ \A r \in Producers : r # p => Handing(r)' = Handing(r)
    BY <1>e, <2>1
  <2>4. Handing(p)' = Handing(p)
    BY <2>1, <2>2 DEF Handing
  <2>5. QED BY <1>s, <2>1, <2>3, <2>4
<1>9. ASSUME NEW c \in Consumers, GetBuffer(c) PROVE Ordered' /\ [Fifo!Next]_(Fifo!fifoVars)
  <2>1. UNCHANGED <<call, sent, ppc>>
    BY <1>9 DEF GetBuffer, GetEnter, GetAcquire, GetAcquireAny, GetRecheck, GetTake
  <2>2. Ordered' /\ \A p \in Producers : Handing(p)' = Handing(p)
    BY <2>1, OrderedSame DEF Handing
  <2>3. CASE UNCHANGED <<queue, taken>>
    BY <1>s, <2>2, <2>3
  <2>4. CASE queue # <<>> /\ queue' = Tail(queue) /\ taken' = Append(taken, Head(queue))
    <3>1. Fifo!Take
      BY <1>0, <2>1, <2>4 DEF Fifo!Take
    <3>2. QED BY <2>2, <3>1 DEF Fifo!Next
  <2>5. QED BY <1>9, <2>3, <2>4
           DEF GetBuffer, GetEnter, GetAcquire, GetAcquireAny, GetRecheck, GetTake
<1>10. ASSUME Controller PROVE Ordered' /\ [Fifo!Next]_(Fifo!fifoVars)
  <2>1. UNCHANGED <<call, sent, ppc, taken>> /\ queue' \in {queue, <<>>}
    BY <1>10 DEF Controller, CtlStart, CtlGo, CtlJoin, CtlStop, CtlClearRead, CtlClearAcquire,
                 CtlStopRelease, WakeUp
  <2>2. Ordered' /\ \A p \in Producers : Handing(p)' = Handing(p)
    BY <2>1, OrderedSame DEF Handing
  <2>3. CASE queue' = queue
    BY <1>s, <2>1, <2>2, <2>3
  <2>4. CASE queue' = <<>>
    <3>1. Fifo!Flush
      BY <1>0, <2>1, <2>4 DEF Fifo!Flush
    <3>2. QED BY <2>2, <3>1 DEF Fifo!Next
  <2>5. QED BY <2>1, <2>3, <2>4
<1>11. ASSUME UNCHANGED vars PROVE Ordered' /\ UNCHANGED Fifo!fifoVars
  <2>1. UNCHANGED <<call, sent, ppc, queue, taken>>
    BY <1>11 DEF vars
  <2>2. QED BY <1>s, <2>1, OrderedSame DEF Handing
<1>12. QED
  BY <1>1, <1>2, <1>3, <1>4, <1>5, <1>6, <1>7, <1>8, <1>9, <1>10, <1>11, Zenon
     DEF Next, CallQueue, AddBuffer

LEMMA InitOrdered == Init => Ordered
<1> SUFFICES ASSUME Init PROVE Ordered
  OBVIOUS
<1>1. call = [p \in Producers |-> NoCall] /\ sent = [p \in Producers |-> 0] /\ queue = <<>>
  BY Zenon DEF Init
<1>2. NoCall.todo = <<>> /\ Len(<<>>) = 0 /\ \A i \in 1..Len(<<>>) : FALSE
  BY DEF NoCall
<1>3. QED BY <1>1, <1>2 DEF Ordered, OrderedAt

\* Every way of configuring and driving a queue, with any number of threads, is a
\* MediaFifo: no step reorders a producer's buffers or delivers one twice.
THEOREM ImplementsFifo == Spec => FifoSpec
<1>1. Init => Ordered /\ Fifo!Init
  <2> SUFFICES ASSUME Init PROVE Ordered /\ Fifo!Init
    OBVIOUS
  <2>1. /\ call = [p \in Producers |-> NoCall] /\ sent = [p \in Producers |-> 0]
        /\ queue = <<>> /\ taken = <<>> /\ setup \in Setups
    BY Zenon DEF Init
  <2>2. NoCall.todo = <<>> /\ Len(<<>>) = 0 /\ \A i \in 1..Len(<<>>) : FALSE
    BY DEF NoCall
  <2>3. Ordered
    BY InitOrdered
  <2>4. [p \in Producers |-> sent[p] - Len(call[p].todo)] = [p \in Producers |-> 0]
    BY <2>1, <2>2
  <2>5. setup.prepending \subseteq Producers
    BY <2>1, SetupAssumption DEF SetupAssumption, Setup
  <2>6. QED BY <2>1, <2>3, <2>4, <2>5 DEF Fifo!Init
<1>2. Spec => []IInv
  BY InitIInv, NextIInv, PTL DEF Spec
<1>3. Spec => Fifo!Init /\ [][Fifo!Next]_(Fifo!fifoVars)
  BY <1>1, <1>2, NextFifo, PTL DEF Spec
<1>4. QED BY <1>3 DEF FifoSpec, Fifo!Spec
-----------------------------------------------------------------------------
(* Permits *)

\* The permits a producer will release for buffers it has queued already.
Owed(p) == call[p].permits - Len(call[p].todo)
OwedInt == \A p \in Producers : Owed(p) \in Int
PendingSummed ==
  \E g, c : /\ Chooses(c, Producers) /\ Adds(g, [p \in Producers |-> Owed(p)], c, Producers)
            /\ Pending = g[Producers]

LEMMA OwedTyped == TypeOK => OwedInt
BY DEF TypeOK, Call, Owed, OwedInt

LEMMA PendingSum == TypeOK => PendingSummed
<1> SUFFICES ASSUME TypeOK PROVE PendingSummed
  OBVIOUS
<1> DEFINE F == [p \in Producers |-> Owed(p)]
           c == [s \in SUBSET Producers |-> CHOOSE x \in s : TRUE]
           G(g) == g = [s \in SUBSET Producers |->
                          IF s = {} THEN 0
                          ELSE (call[CHOOSE x \in s : TRUE].permits
                                  - Len(call[CHOOSE x \in s : TRUE].todo))
                               + g[s \ {CHOOSE x \in s : TRUE}]]
<1>1. F \in [Producers -> Int] /\ IsFiniteSet(Producers)
  BY ThreadAssumption DEF ThreadAssumption, TypeOK, Call, Owed
<1>2. Chooses(c, Producers)
  BY DEF Chooses
<1>3. \A s \in SUBSET Producers : c[s] = (CHOOSE x \in s : TRUE)
                                  /\ (s # {} => c[s] \in Producers)
  BY <1>2 DEF Chooses
<1>4. \A g : G(g) <=> Adds(g, F, c, Producers)
  <2>1. ASSUME NEW g PROVE G(g) <=> Adds(g, F, c, Producers)
    <3>1. ASSUME NEW s \in SUBSET Producers
          PROVE  (IF s = {} THEN 0
                          ELSE (call[CHOOSE x \in s : TRUE].permits
                                  - Len(call[CHOOSE x \in s : TRUE].todo))
                               + g[s \ {CHOOSE x \in s : TRUE}])
                 = (IF s = {} THEN 0 ELSE F[c[s]] + g[s \ {c[s]}])
      <4>1. s # {} => F[c[s]] = call[c[s]].permits - Len(call[c[s]].todo)
        BY <1>3 DEF Owed
      <4> HIDE DEF F, c
      <4>2. QED BY <1>3, <4>1
    <3> HIDE DEF F, c
    <3>2. QED BY <3>1 DEF Adds
  <2>2. QED BY <2>1
<1>5. \E g : Adds(g, F, c, Producers)
  <2> HIDE DEF F, c
  <2>1. QED BY <1>1, <1>2, AddsExists
<1>6. Pending = (CHOOSE g : G(g))[Producers]
  BY DEF Pending, MapThenSumSet, MapThenFoldSet
<1> HIDE DEF F, c, G
<1>7. G(CHOOSE g : G(g))
  BY <1>4, <1>5
<1>8. QED BY <1>2, <1>4, <1>6, <1>7 DEF PendingSummed, F

LEMMA PendingNat == TypeOK /\ (\A p \in Producers : Owed(p) >= 0) => Pending \in Nat
<1> SUFFICES ASSUME TypeOK, \A p \in Producers : Owed(p) >= 0 PROVE Pending \in Nat
  OBVIOUS
<1>1. PICK g, c : /\ Chooses(c, Producers) /\ Adds(g, [p \in Producers |-> Owed(p)], c, Producers)
                  /\ Pending = g[Producers]
  BY PendingSum DEF PendingSummed
<1> DEFINE F == [p \in Producers |-> Owed(p)]
<1>2. F \in [Producers -> Int] /\ IsFiniteSet(Producers) /\ \A p \in Producers : F[p] >= 0
  BY ThreadAssumption DEF ThreadAssumption, TypeOK, Call, Owed
<1> HIDE DEF F
<1>3. g[Producers] \in Nat
  BY <1>1, <1>2, AddsNat DEF F
<1>4. QED BY <1>1, <1>3

\* A step of one producer changes what is pending by what it changes of its call.
LEMMA PendingChange ==
  ASSUME TypeOK, TypeOK', NEW p \in Producers,
         \A r \in Producers : r # p => call'[r] = call[r]
  PROVE  Pending \in Int /\ Pending' = Pending - Owed(p) + Owed(p)'
<1>1. PICK g, c : /\ Chooses(c, Producers) /\ Adds(g, [r \in Producers |-> Owed(r)], c, Producers)
                  /\ Pending = g[Producers]
  BY PendingSum DEF PendingSummed
<1>2. PendingSummed'
  BY PendingSum, PTL
<1>3. PICK h, d : /\ Chooses(d, Producers) /\ Adds(h, [r \in Producers |-> Owed(r)'], d, Producers)
                  /\ Pending' = h[Producers]
  BY <1>2 DEF PendingSummed
<1> DEFINE F == [r \in Producers |-> Owed(r)]
           H == [r \in Producers |-> Owed(r)']
<1>4. /\ F \in [Producers -> Int] /\ H \in [Producers -> Int] /\ IsFiniteSet(Producers)
      /\ \A r \in Producers : r # p => H[r] = F[r]
      /\ F[p] = Owed(p) /\ H[p] = Owed(p)'
  <2>0. OwedInt /\ OwedInt'
    BY OwedTyped, PTL
  <2>1. /\ \A r \in Producers : Owed(r) \in Int
        /\ \A r \in Producers : Owed(r)' \in Int
    BY <2>0 DEF OwedInt
  <2>3. \A r \in Producers : r # p => Owed(r)' = Owed(r)
    BY DEF Owed
  <2>4. QED BY <2>1, <2>3, ThreadAssumption DEF ThreadAssumption
<1>5. Adds(g, F, c, Producers) /\ Adds(h, H, d, Producers)
  BY <1>1, <1>3
<1> HIDE DEF F, H
<1>6. PICK f1, h1 : f1 = F /\ h1 = H
  OBVIOUS
<1>7. g[Producers] \in Int /\ h[Producers] = g[Producers] - f1[p] + h1[p]
  BY <1>1, <1>3, <1>4, <1>5, <1>6, AddsChange
<1>8. QED BY <1>1, <1>3, <1>4, <1>6, <1>7

LEMMA PendingNone == ASSUME TypeOK, \A p \in Producers : call[p] = NoCall PROVE Pending = 0
<1>1. Len(<<>>) = 0
  OBVIOUS
<1>2. ASSUME NEW p \in Producers PROVE Owed(p) = 0
  <2>1. call[p].permits = 0 /\ call[p].todo = <<>>
    BY DEF NoCall
  <2>2. PICK m, n \in Nat : m = call[p].permits /\ n = Len(call[p].todo) /\ m = 0 /\ n = 0
    BY <1>1, <2>1
  <2>3. m - n = 0
    BY <2>2
  <2>4. QED BY <2>2, <2>3, Zenon DEF Owed
<1>3. PICK g, c : /\ Chooses(c, Producers) /\ Adds(g, [r \in Producers |-> Owed(r)], c, Producers)
                  /\ Pending = g[Producers]
  BY PendingSum DEF PendingSummed
<1> DEFINE F == [r \in Producers |-> Owed(r)]
<1>4. F \in [Producers -> Int] /\ (\A r \in Producers : F[r] = 0) /\ IsFiniteSet(Producers)
  BY <1>2, ThreadAssumption DEF ThreadAssumption
<1>5. Adds(g, F, c, Producers)
  BY <1>3
<1> HIDE DEF F
<1>6. g[Producers] = 0
  BY <1>3, <1>4, <1>5, AddsZero
<1>7. QED BY <1>3, <1>6

LEMMA PendingSame == ASSUME TypeOK, TypeOK', UNCHANGED call PROVE Pending' = Pending
<1>1. CASE Producers = {}
  <2>1. PendingSummed /\ PendingSummed'
    BY PendingSum, PTL
  <2>2. \A g, c, f : Adds(g, f, c, {}) => g[{}] = 0
    BY DEF Adds
  <2>3. Pending = 0
    <3>1. PICK g, c : /\ Adds(g, [r \in Producers |-> Owed(r)], c, Producers)
                      /\ Pending = g[Producers]
      BY <2>1 DEF PendingSummed
    <3>2. QED BY <1>1, <2>2, <3>1
  <2>4. Pending' = 0
    <3>1. PICK g, c : /\ Adds(g, [r \in Producers |-> Owed(r)'], c, Producers)
                      /\ Pending' = g[Producers]
      BY <2>1 DEF PendingSummed
    <3>2. QED BY <1>1, <2>2, <3>1
  <2>5. QED BY <2>3, <2>4
<1>2. CASE Producers # {}
  <2>1. PICK p \in Producers : TRUE
    BY <1>2
  <2>2. Pending \in Int /\ Pending' = Pending - Owed(p) + Owed(p)'
    BY PendingChange
  <2>3. Owed(p)' = Owed(p) /\ Owed(p) \in Int
    BY OwedTyped DEF Owed, OwedInt
  <2>4. QED BY <2>2, <2>3
<1>3. QED BY <1>1, <1>2
\* A call owes a permit for every buffer it has queued; a single buffer's call has one
\* permit to give, and a producer outside addBuffer() has no call.
OwingAt(p) ==
  /\ ppc[p] \in {"idle", "wait", "asleep"} => call[p] = NoCall
  /\ ~call[p].list => Len(call[p].todo) <= 1 /\ call[p].permits <= 1
  /\ Owed(p) >= 0
  /\ MaxList <= 1 => Len(call[p].todo) <= 1 /\ (call[p].todo # <<>> => Owed(p) = 0)
  /\ \A i \in 1..Len(call[p].todo) : call[p].todo[i].size \in setup.sizes

\* Only consumers that use the semaphore hold its permits.
Owing == /\ \A p \in Producers : OwingAt(p)
         /\ \A c \in Consumers : c \in Polling => gpc[c] \notin {"acquire", "recheck"}

LEMMA OwingStep ==
  ASSUME Owing, setup' = setup, NEW p \in Producers, OwingAt(p)', UNCHANGED gpc,
         \A r \in Producers : r # p => call'[r] = call[r] /\ ppc'[r] = ppc[r]
  PROVE  Owing'
<1>1. MaxList' = MaxList /\ Polling' = Polling
  BY DEF MaxList, Polling
<1>2. ASSUME NEW r \in Producers, r # p PROVE OwingAt(r)'
  <2>1. call'[r] = call[r] /\ ppc'[r] = ppc[r] /\ OwingAt(r)
    BY <1>2 DEF Owing
  <2>2. QED BY <1>1, <2>1 DEF OwingAt, Owed
<1>3. QED BY <1>1, <1>2 DEF Owing

\* What an iteration of addBuffer() makes of what its call owes.
LEMMA HandedOwing ==
  ASSUME IInv, Owing, NEW p \in Producers, NEW q, NEW n, NEW permits,
         Handed(p, q, n, permits), call[p].todo # <<>>, setup' = setup, UNCHANGED gpc,
         permits = IF call[p].list THEN call[p].permits ELSE permits,
         permits \in {0, call[p].permits}
  PROVE  /\ Owing'
         /\ permits = call[p].permits => Owed(p)' = Owed(p) + 1
         /\ ~call[p].list /\ permits = 0 => Owed(p)' = Owed(p)
<1> DEFINE t == call[p].todo
           m == call[p].permits
<1>1. /\ t \in Seq(Buffer) /\ Len(t) \in Nat /\ Len(t) > 0 /\ m \in Nat
      /\ Len(Tail(t)) = Len(t) - 1 /\ Tail(t) \in Seq(Buffer)
  BY DEF IInv, TypeOK, Call
<1>2. \A i \in 1..Len(Tail(t)) : Tail(t)[i] = t[i + 1] /\ i + 1 \in 1..Len(t)
  BY <1>1
<1>3. /\ ~call[p].list => Len(t) <= 1 /\ m <= 1
      /\ m - Len(t) >= 0
      /\ MaxList <= 1 => Len(t) <= 1
      /\ \A i \in 1..Len(t) : t[i].size \in setup.sizes
  BY DEF Owing, OwingAt, Owed
<1>4. /\ call' = [call EXCEPT ![p] = [todo |-> Tail(t), permits |-> permits,
                                      list |-> call[p].list]]
      /\ ppc' = [ppc EXCEPT ![p] = IF Len(t) > 1 THEN "enter" ELSE "release"]
      /\ call \in [Producers -> Call]
      /\ ppc \in [Producers -> {"idle", "enter", "ratewait", "relock", "release",
                              "wait", "asleep"}]
  BY DEF Handed, IInv, TypeOK
<1>5. /\ call'[p].todo = Tail(t) /\ call'[p].permits = permits /\ call'[p].list = call[p].list
      /\ ppc'[p] \in {"enter", "release"}
      /\ \A r \in Producers : r # p => call'[r] = call[r] /\ ppc'[r] = ppc[r]
  BY <1>4
<1>6. Owed(p) = m - Len(t) /\ Owed(p)' = permits - (Len(t) - 1)
  BY <1>1, <1>5 DEF Owed
<1> HIDE DEF t, m
<1>7. /\ permits = m => Owed(p)' = Owed(p) + 1
      /\ ~call[p].list /\ permits = 0 => Owed(p)' = Owed(p)
      /\ permits = m \/ ~call[p].list
  BY <1>1, <1>3, <1>6 DEF m
<1>8. OwingAt(p)'
  <2>1. /\ ppc'[p] \notin {"idle", "wait", "asleep"}
        /\ ~call[p].list => Len(Tail(t)) <= 1 /\ permits <= 1
        /\ Owed(p)' >= 0
        /\ MaxList <= 1 => Len(Tail(t)) <= 1 /\ Len(Tail(t)) = 0
    <3>1. permits = m \/ permits = 0
      BY DEF m
    <3>2. Owed(p)' >= 0
      <4>1. CASE permits = m
        BY <1>1, <1>3, <1>6, <4>1
      <4>2. CASE permits = 0 /\ ~call[p].list
        BY <1>1, <1>3, <1>6, <4>2
      <4>3. QED BY <1>7, <3>1, <4>1, <4>2
    <3>3. QED BY <1>1, <1>3, <1>5, <3>1, <3>2
  <2>2. \A i \in 1..Len(Tail(t)) : Tail(t)[i].size \in setup.sizes
    BY <1>2, <1>3
  <2>3. Len(Tail(t)) = 0 => Tail(t) = <<>>
    BY <1>1, EmptySeq DEF t
  <2>4. MaxList' = MaxList /\ setup'.sizes = setup.sizes
    BY DEF MaxList
  <2>5. QED BY <1>5, <2>1, <2>2, <2>3, <2>4 DEF OwingAt
<1>9. Owing'
  BY <1>5, <1>8, OwingStep
<1>10. QED BY <1>7, <1>9 DEF m

\* The permits there are or will be, beyond one for every queued buffer.
Balance == bufSem + Held + Pending - Len(queue)

HeldBy(c) == c \notin Polling /\ gpc[c] \in {"recheck", "take"}

LEMMA HeldChange ==
  ASSUME setup' = setup
  PROVE  /\ Held \in Nat
         /\ (\A d \in Consumers : HeldBy(d)' <=> HeldBy(d)) => Held' = Held
         /\ \A c \in Consumers :
              (\A d \in Consumers : d # c => (HeldBy(d)' <=> HeldBy(d))) =>
                /\ ~HeldBy(c) /\ HeldBy(c)' => Held' = Held + 1
                /\ HeldBy(c) /\ ~HeldBy(c)' => Held' = Held - 1 /\ Held > 0
<1> DEFINE S == {c \in Consumers \ Polling : gpc[c] \in {"recheck", "take"}}
           R == {c \in Consumers \ Polling' : gpc'[c] \in {"recheck", "take"}}
<1>1. IsFiniteSet(S) /\ Cardinality(S) \in Nat /\ IsFiniteSet(R)
  BY ThreadAssumption, FS_Subset, FS_CardinalityType DEF ThreadAssumption
<1>2. /\ \A c : c \in S <=> c \in Consumers /\ HeldBy(c)
      /\ \A c : c \in R <=> c \in Consumers /\ HeldBy(c)'
  BY DEF HeldBy
<1>3. Held = Cardinality(S) /\ Held' = Cardinality(R)
  BY DEF Held
<1> HIDE DEF S, R
<1>4. (\A d \in Consumers : HeldBy(d)' <=> HeldBy(d)) => R = S
  BY <1>2
<1>5. ASSUME NEW c \in Consumers, \A d \in Consumers : d # c => (HeldBy(d)' <=> HeldBy(d))
      PROVE  /\ ~HeldBy(c) /\ HeldBy(c)' => Held' = Held + 1
             /\ HeldBy(c) /\ ~HeldBy(c)' => Held' = Held - 1 /\ Held > 0
  <2>1. ASSUME ~HeldBy(c), HeldBy(c)' PROVE Held' = Held + 1
    <3>1. R = S \cup {c} /\ c \notin S
      BY <1>2, <1>5, <2>1
    <3>2. QED BY <1>1, <1>3, <3>1, FS_AddElement
  <2>2. ASSUME HeldBy(c), ~HeldBy(c)' PROVE Held' = Held - 1 /\ Held > 0
    <3>1. R = S \ {c} /\ c \in S
      BY <1>2, <1>5, <2>2
    <3>2. Cardinality(R) = Cardinality(S) - 1 /\ Cardinality(R) \in Nat
      BY <1>1, <3>1, FS_RemoveElement, FS_CardinalityType
    <3>3. QED BY <1>1, <1>3, <3>2
  <2>3. QED BY <2>1, <2>2
<1>6. QED BY <1>1, <1>3, <1>4, <1>5

LEMMA BalanceTyped == TypeOK /\ Owing =>
  /\ bufSem \in Nat /\ Held \in Nat /\ Pending \in Nat /\ Len(queue) \in Nat
<1> SUFFICES ASSUME TypeOK, Owing
             PROVE  bufSem \in Nat /\ Held \in Nat /\ Pending \in Nat /\ Len(queue) \in Nat
  OBVIOUS
<1>1. Pending \in Nat
  BY PendingNat DEF Owing, OwingAt
<1>2. IsFiniteSet({c \in Consumers \ Polling : gpc[c] \in {"recheck", "take"}})
  BY ThreadAssumption, FS_Subset DEF ThreadAssumption
<1>3. Held \in Nat
  BY <1>2, FS_CardinalityType DEF Held
<1>4. QED BY <1>1, <1>3 DEF TypeOK

\* A queue from which buffers were dropped is not longer.
LEMMA EvictShorter ==
  ASSUME setup \in Setups, NEW q \in Seq(Buffer)
  PROVE  Evict(q) \in Seq(Buffer) /\ Len(Evict(q)) <= Len(q)
<1>1. Evict(q) \in Seq(Buffer) /\ Len(Evict(q)) < LimitCount /\ LimitCount \in Nat
  BY EvictProperties, SetupTyped
<1>2. CASE Len(q) < LimitCount
  BY <1>2 DEF Evict
<1>3. CASE ~(Len(q) < LimitCount)
  BY <1>1, <1>3
<1>4. QED BY <1>2, <1>3

\* The configurations in which a refused buffer leaves no others behind it without
\* permits.
Whole == \A s \in Setups : s.list <= 1 \/ (0 \notin s.sizes /\ s.size = 0)

\* The configurations in which every permit is for a buffer: none is dropped or skipped,
\* or taken without a permit.
Exact == \A s \in Setups : s.rlimit # "DROP" /\ ~s.reduce /\ s.polling = {}

\* What a step of a producer keeps.
Producing ==
  /\ Owing'
  /\ UNCHANGED <<state, ctlVars, gpc>>
  /\ Whole => Balance' >= Balance
  /\ Exact => Balance' <= Balance

LEMMA PushBalance ==
  ASSUME IInv, IInv', Ordered, Owing, setup' = setup, NEW p \in Producers,
         NEW q \in Seq(Buffer), Len(q) <= Len(queue), q = queue \/ RLimit = "DROP",
         ppc[p] \in {"enter", "ratewait", "relock"}, Push(p, q),
         UNCHANGED <<bufSem, state, ctlVars, sent, gpc, taken>>
  PROVE  Producing
<1> DEFINE b == Head(call[p].todo)
<1>1. /\ call[p].todo # <<>> /\ call[p].todo \in Seq(Buffer) /\ b \in Buffer
      /\ call[p].permits \in Nat
  BY DEF IInv, InCall, TypeOK, Call
<1>2. PICK n, permits, r :
         /\ Handed(p, r, n, permits)
         /\ \/ r = Append(q, b) /\ permits = call[p].permits
            \/ r = q /\ Reduce /\ permits = IF call[p].list THEN call[p].permits ELSE 0
  BY Zenon DEF Push
<1>3. /\ permits = IF call[p].list THEN call[p].permits ELSE permits
      /\ permits \in {0, call[p].permits}
  BY <1>2
<1>4. UNCHANGED gpc /\ setup' = setup
  OBVIOUS
<1>5. /\ Owing'
      /\ permits = call[p].permits => Owed(p)' = Owed(p) + 1
      /\ ~call[p].list /\ permits = 0 => Owed(p)' = Owed(p)
  BY <1>1, <1>2, <1>3, <1>4, HandedOwing
<1>6. \A s \in Producers : s # p => call'[s] = call[s]
  BY <1>2 DEF Handed, IInv, TypeOK
<1>7. Pending \in Int /\ Pending' = Pending - Owed(p) + Owed(p)'
  BY <1>6, PendingChange DEF IInv
<1>8. Held' = Held /\ Held \in Nat
  <2>1. \A d \in Consumers : HeldBy(d)' <=> HeldBy(d)
    BY DEF HeldBy, Polling
  <2>2. QED BY <2>1, HeldChange
<1>9. /\ bufSem \in Nat /\ Len(queue) \in Nat /\ Len(q) \in Nat
      /\ Len(Append(q, b)) = Len(q) + 1 /\ queue' = r
  BY <1>1, <1>2, SMTT(30) DEF IInv, TypeOK, Handed
<1>10. Owed(p) \in Int
  BY OwedTyped DEF IInv, OwedInt
<1> HIDE DEF b
<1>11. CASE r = Append(q, b) /\ permits = call[p].permits
  <2>1. Pending' = Pending + 1 /\ Len(queue') = Len(q) + 1
    BY <1>5, <1>7, <1>9, <1>10, <1>11
  <2>2. Balance' >= Balance
    BY <1>7, <1>8, <1>9, <2>1 DEF Balance
  <2>3. Exact => q = queue
    BY SetupTyped DEF Exact, RLimit, IInv, TypeOK
  <2>4. Exact => Balance' <= Balance
    BY <1>7, <1>8, <1>9, <2>1, <2>3 DEF Balance
  <2>5. QED BY <1>5, <2>2, <2>4 DEF Producing
<1>12. CASE r = q /\ Reduce /\ permits = IF call[p].list THEN call[p].permits ELSE 0
  <2>1. Pending' >= Pending /\ Pending' \in Int
    BY <1>5, <1>7, <1>10, <1>12
  <2>2. Balance' >= Balance
    BY <1>7, <1>8, <1>9, <1>12, <2>1 DEF Balance
  <2>3. ~Exact
    BY <1>12 DEF Exact, Reduce, IInv, TypeOK
  <2>4. QED BY <1>5, <2>2, <2>3 DEF Producing
<1>13. QED BY <1>2, <1>11, <1>12

LEMMA ProducerBalance ==
  ASSUME IInv, IInv', Ordered, Owing, NEW p \in Producers, CallQueue(p) \/ AddBuffer(p)
  PROVE  Producing
<1>0. setup' = setup
  BY DEF CallQueue, AddBuffer
<1>t. /\ setup \in Setups /\ queue \in Seq(Buffer) /\ Len(queue) \in Nat /\ bufSem \in Nat
      /\ call \in [Producers -> Call] /\ sent \in [Producers -> 0..MaxAdds]
      /\ ppc \in [Producers -> {"idle", "enter", "ratewait", "relock", "release",
                              "wait", "asleep"}]
  BY DEF IInv, TypeOK
<1>n. /\ NoCall.todo = <<>> /\ NoCall.permits = 0 /\ NoCall.list = FALSE /\ Len(<<>>) = 0
      /\ \A i \in 1..Len(<<>>) : FALSE
  BY DEF NoCall
<1>h. ASSUME UNCHANGED gpc PROVE Held' = Held /\ Held \in Nat
  <2>1. \A d \in Consumers : HeldBy(d)' <=> HeldBy(d)
    BY <1>0, <1>h DEF HeldBy, Polling
  <2>2. QED BY <1>0, <2>1, HeldChange
<1>o. OwedInt /\ Pending \in Nat
  BY OwedTyped, BalanceTyped DEF IInv
<1>k. ASSUME UNCHANGED call PROVE Pending' = Pending
  BY <1>k, PendingSame DEF IInv
\* A step that leaves the queue, the permits and the calls alone.
<1>s. ASSUME UNCHANGED <<queue, bufSem, state, ctlVars, gpc, call>>, OwingAt(p)',
             \A r \in Producers : r # p => ppc'[r] = ppc[r]
      PROVE  Producing
  <2>1. Owing'
    BY <1>0, <1>s, OwingStep
  <2>2. Pending' = Pending
    BY <1>k, <1>s
  <2>3. Balance' = Balance /\ Balance \in Int
    BY <1>h, <1>o, <1>s, <1>t, <2>2 DEF Balance
  <2>4. QED BY <1>s, <2>1, <2>3 DEF Producing
\* A call ends: what it owed is released or lost.
<1>e. ASSUME call' = [call EXCEPT ![p] = NoCall], ppc' = [ppc EXCEPT ![p] = "idle"],
             UNCHANGED gpc
      PROVE  Owing' /\ Pending' = Pending - Owed(p) /\ Pending \in Int /\ Owed(p) \in Int
  <2>1. /\ call'[p] = NoCall /\ ppc'[p] = "idle"
        /\ \A r \in Producers : r # p => call'[r] = call[r] /\ ppc'[r] = ppc[r]
    BY <1>e, <1>t
  <2>2. Owed(p)' = 0
    BY <1>n, <2>1 DEF Owed
  <2>3. OwingAt(p)'
    BY <1>n, <2>1, <2>2 DEF OwingAt
  <2>4. Pending \in Int /\ Pending' = Pending - Owed(p) + Owed(p)'
    BY <2>1, PendingChange DEF IInv
  <2>5. QED BY <1>0, <1>e, <1>o, <2>1, <2>2, <2>3, <2>4, OwingStep DEF OwedInt
<1>1. CASE CallAdd(p)
  <2>1. PICK n \in 1..MaxList, isList \in BOOLEAN :
          /\ n > 1 => isList
          /\ \E sz \in [1..n -> setup.sizes] :
               call' = [call EXCEPT ![p] =
                         [todo |-> [i \in 1..n |-> [by |-> p, no |-> sent[p] + i,
                                                    size |-> sz[i]]],
                          permits |-> n, list |-> isList]]
    BY <1>1, Zenon DEF CallAdd
  <2>2. PICK sz \in [1..n -> setup.sizes] :
               call' = [call EXCEPT ![p] =
                         [todo |-> [i \in 1..n |-> [by |-> p, no |-> sent[p] + i,
                                                    size |-> sz[i]]],
                          permits |-> n, list |-> isList]]
    BY <2>1
  <2> DEFINE t == [i \in 1..n |-> [by |-> p, no |-> sent[p] + i, size |-> sz[i]]]
  <2>3. /\ ppc[p] = "idle" /\ ppc' = [ppc EXCEPT ![p] = "enter"]
        /\ UNCHANGED <<queue, bufSem, state, ctlVars, gpc>>
    BY <1>1, Zenon DEF CallAdd
  <2>4. call[p] = NoCall
    BY <2>3 DEF Owing, OwingAt
  <2>5. /\ n \in Nat /\ n >= 1 /\ n <= MaxList /\ MaxList \in Nat
        /\ Len(t) = n /\ \A i \in 1..Len(t) : t[i].size \in setup.sizes
    BY <1>t, SetupTyped
  <2>6. /\ call'[p].todo = t /\ call'[p].permits = n /\ call'[p].list = isList
        /\ ppc'[p] = "enter"
        /\ \A r \in Producers : r # p => call'[r] = call[r] /\ ppc'[r] = ppc[r]
    BY <1>t, <2>2, <2>3
  <2> HIDE DEF t
  <2>7. Owed(p) = 0 /\ Owed(p)' = 0
    BY <1>n, <2>4, <2>5, <2>6 DEF Owed
  <2>8. MaxList' = MaxList
    BY <1>0 DEF MaxList
  <2>9. OwingAt(p)'
    <3>1. ~isList => n <= 1
      BY <2>1
    <3>2. /\ ~isList => Len(t) <= 1 /\ n <= 1
          /\ MaxList <= 1 => Len(t) <= 1
      BY <2>5, <3>1
    <3>3. setup'.sizes = setup.sizes
      BY <1>0
    <3>4. QED BY <2>5, <2>6, <2>7, <2>8, <3>2, <3>3 DEF OwingAt
  <2>10. Owing'
    BY <1>0, <2>3, <2>6, <2>9, OwingStep
  <2>11. Pending' = Pending
    BY <1>o, <2>6, <2>7, PendingChange DEF IInv
  <2>12. Balance' = Balance /\ Balance \in Int
    BY <1>h, <1>o, <1>t, <2>3, <2>11 DEF Balance
  <2>13. QED BY <2>3, <2>10, <2>12 DEF Producing
<1>2. CASE Prepend(p)
  <2>1. PICK sz \in setup.sizes \ {0} :
          queue' = <<[by |-> p, no |-> sent[p] + 1, size |-> sz]>> \o queue
    BY <1>2, Zenon DEF Prepend
  <2>2. /\ bufSem' = bufSem + 1 /\ sent[p] < MaxAdds /\ UNCHANGED <<state, ctlVars, ppc, call, gpc>>
    BY <1>2 DEF Prepend
  <2>3. [by |-> p, no |-> sent[p] + 1, size |-> sz] \in Buffer
    BY <1>t, <2>2, SetupTyped, BoundAssumption DEF Buffer, BoundAssumption
  <2>4. Len(queue') = Len(queue) + 1
    BY <1>t, <2>1, <2>3
  <2>5. Pending' = Pending
    BY <1>k, <2>2
  <2>6. OwingAt(p)'
    BY <1>0, <2>2 DEF Owing, OwingAt, Owed, MaxList
  <2>7. Owing'
    BY <1>0, <2>2, <2>6, OwingStep
  <2>8. Balance' = Balance /\ Balance \in Int
    BY <1>h, <1>o, <1>t, <2>2, <2>4, <2>5 DEF Balance
  <2>9. QED BY <2>2, <2>7, <2>8 DEF Producing
<1>3. CASE WaitEnter(p) \/ WaitTest(p)
  <2>1. /\ ppc[p] \in {"idle", "wait"} /\ UNCHANGED <<queue, bufSem, state, ctlVars, gpc, call>>
        /\ \A r \in Producers : r # p => ppc'[r] = ppc[r]
    BY <1>3, <1>t DEF WaitEnter, WaitTest
  <2>2. call[p] = NoCall
    BY <2>1 DEF Owing, OwingAt
  <2>3. OwingAt(p)'
    BY <1>0, <1>n, <2>1, <2>2 DEF OwingAt, Owed
  <2>4. QED BY <1>s, <2>1, <2>3
<1>4. CASE AddRefused(p)
  <2>1. /\ ppc[p] = "enter" /\ ppc' = [ppc EXCEPT ![p] = "idle"]
        /\ call' = [call EXCEPT ![p] = NoCall] /\ UNCHANGED <<queue, bufSem, state, ctlVars, gpc>>
        /\ Head(call[p].todo).size = 0 \/ ~CheckSizeLimits
    BY <1>4 DEF AddRefused
  <2>2. Owing' /\ Pending' = Pending - Owed(p) /\ Pending \in Int /\ Owed(p) \in Int
    BY <1>e, <2>1
  <2>3. Owed(p) >= 0
    BY DEF Owing, OwingAt
  <2>4. Whole => Owed(p) = 0
    <3>1. call[p].todo # <<>> /\ call[p].todo \in Seq(Buffer)
      BY <1>t, <2>1 DEF IInv, InCall, Call
    <3>2. Head(call[p].todo).size \in setup.sizes
      <4>1. Head(call[p].todo) = call[p].todo[1] /\ 1 \in 1..Len(call[p].todo)
        BY <3>1
      <4>2. QED BY <4>1 DEF Owing, OwingAt
    <3>3. ASSUME Whole, ~(MaxList <= 1) PROVE FALSE
      <4>1. 0 \notin setup.sizes /\ setup.size = 0
        BY <1>t, <3>3 DEF Whole, MaxList
      <4>2. QED BY <2>1, <3>2, <4>1 DEF CheckSizeLimits, SizeLimit
    <3>4. MaxList <= 1 => Owed(p) = 0
      BY <3>1 DEF Owing, OwingAt
    <3>5. QED BY <3>3, <3>4
  <2>5. Balance' = Balance - Owed(p) /\ Balance \in Int
    BY <1>h, <1>t, <2>1, <2>2 DEF Balance
  <2>6. QED BY <2>1, <2>2, <2>3, <2>4, <2>5 DEF Producing
<1>5. CASE AddEnter(p)
  <2>1. ppc[p] = "enter" /\ UNCHANGED <<bufSem, state, ctlVars, sent, gpc, taken>>
    BY <1>5 DEF AddEnter
  <2>2. CASE Push(p, queue)
    BY <1>0, <1>t, <2>1, <2>2, PushBalance
  <2>3. CASE RLimit = "DROP" /\ Push(p, Evict(queue))
    BY <1>0, <1>t, <2>1, <2>3, EvictShorter, PushBalance
  <2>4. CASE ppc' = [ppc EXCEPT ![p] = "ratewait"] /\ UNCHANGED <<queue, bufSize, call>>
    <3>1. ppc'[p] = "ratewait" /\ \A r \in Producers : r # p => ppc'[r] = ppc[r]
      BY <1>t, <2>4
    <3>2. OwingAt(p)'
      BY <1>0, <2>4, <3>1 DEF Owing, OwingAt, Owed, MaxList
    <3>3. QED BY <1>s, <2>1, <2>4, <3>1, <3>2
  <2>5. QED BY <1>5, <2>2, <2>3, <2>4, Zenon DEF AddEnter
<1>6. CASE AddRetry(p) \/ AddRelock(p)
  <2>1. /\ ppc[p] \in {"ratewait", "relock"} /\ Push(p, queue)
        /\ UNCHANGED <<bufSem, state, ctlVars, sent, gpc, taken>>
    BY <1>6 DEF AddRetry, AddRelock
  <2>2. QED BY <1>0, <1>t, <2>1, PushBalance
<1>7. CASE AddWaited(p)
  <2>1. /\ ppc' = [ppc EXCEPT ![p] = "relock"]
        /\ UNCHANGED <<queue, bufSem, state, ctlVars, gpc, call>>
    BY <1>7 DEF AddWaited
  <2>2. ppc'[p] = "relock" /\ \A r \in Producers : r # p => ppc'[r] = ppc[r]
    BY <1>t, <2>1
  <2>3. OwingAt(p)'
    BY <1>0, <2>1, <2>2 DEF Owing, OwingAt, Owed, MaxList
  <2>4. QED BY <1>s, <2>1, <2>2, <2>3
<1>8. CASE AddRelease(p)
  <2>1. /\ ppc[p] = "release" /\ ppc' = [ppc EXCEPT ![p] = "idle"]
        /\ call' = [call EXCEPT ![p] = NoCall] /\ bufSem' = bufSem + call[p].permits
        /\ UNCHANGED <<queue, state, ctlVars, gpc>>
    BY <1>8 DEF AddRelease, Release
  <2>2. call[p].todo = <<>> /\ call[p].permits \in Nat
    BY <1>t, <2>1 DEF Ordered, OrderedAt, Call
  <2>3. Owed(p) = call[p].permits
    BY <1>n, <2>2 DEF Owed
  <2>4. Owing' /\ Pending' = Pending - Owed(p) /\ Pending \in Int
    BY <1>e, <2>1
  <2>5. Balance' = Balance /\ Balance \in Int
    <3>1. Held' = Held /\ Held \in Nat /\ queue' = queue
      BY <1>h, <2>1
    <3>2. bufSem' = bufSem + Owed(p) /\ Owed(p) \in Nat
      BY <2>1, <2>2, <2>3
    <3>3. QED BY <1>t, <2>4, <3>1, <3>2, SMTT(30) DEF Balance
  <2>6. QED BY <2>1, <2>4, <2>5 DEF Producing
<1>9. QED BY <1>1, <1>2, <1>3, <1>4, <1>5, <1>6, <1>7, <1>8 DEF CallQueue, AddBuffer

\* Every buffer of the queue has a permit, available or on its way.
Covered == Balance >= 0

\* No consumer that uses the semaphore is between its two looks at the state, or past
\* them.
Quiet == \A c \in Consumers : c \notin Polling => gpc[c] \in {"off", "idle", "quit"}

\* What a step of a consumer keeps: only one that finds the queue stopped loses a
\* permit, and only one that finds no buffer uses one up in vain.
Consuming(c) ==
  /\ Owing'
  /\ UNCHANGED <<state, ctlVars>>
  /\ Covered /\ (state = "STOPPED" => Quiet) => Covered'
  /\ state = "STOPPED" /\ Quiet => Quiet'
  /\ Exact => /\ Balance' <= Balance
              /\ c \notin Polling /\ gpc[c] = "take" /\ gpc'[c] = "quit" => Balance > 0

LEMMA ConsumerBalance ==
  ASSUME IInv, IInv', Owing, NEW c \in Consumers, GetBuffer(c)
  PROVE  Consuming(c)
<1>0. setup' = setup /\ Polling' = Polling
  BY DEF GetBuffer, Polling
<1>1. /\ setup \in Setups /\ queue \in Seq(Buffer)
      /\ gpc \in [Consumers -> {"off", "idle", "acquire", "recheck", "take", "quit"}]
      /\ bufSem \in Nat /\ Held \in Nat /\ Pending \in Nat /\ Len(queue) \in Nat
  BY BalanceTyped DEF IInv, TypeOK
<1>2. UNCHANGED <<state, ctlVars, ppc, call>>
  BY DEF GetBuffer, GetEnter, GetAcquire, GetAcquireAny, GetRecheck, GetTake, prodVars
<1>3. PICK l \in {"idle", "acquire", "recheck", "take", "quit"} :
        gpc' = [gpc EXCEPT ![c] = l]
  BY DEF GetBuffer, GetEnter, GetAcquire, GetAcquireAny, GetRecheck, GetTake, GoTo
<1>4. gpc'[c] = l /\ \A d \in Consumers : d # c => gpc'[d] = gpc[d]
  BY <1>1, <1>3
<1>5. Pending' = Pending
  BY <1>2, PendingSame DEF IInv
<1>6. /\ HeldBy(c)' <=> HeldBy(c) => Held' = Held
      /\ ~HeldBy(c) /\ HeldBy(c)' => Held' = Held + 1
      /\ HeldBy(c) /\ ~HeldBy(c)' => Held' = Held - 1 /\ Held > 0
  <2>1. \A d \in Consumers : d # c => (HeldBy(d)' <=> HeldBy(d))
    BY <1>0, <1>4 DEF HeldBy
  <2>2. QED BY <1>0, <2>1, HeldChange
<1>7. /\ gpc[c] \in {"acquire", "recheck"} => c \notin Polling
      /\ Exact => c \notin Polling
  BY <1>1 DEF Owing, Exact, Polling
<1>8. ASSUME c \in Polling => l \notin {"acquire", "recheck"} PROVE Owing'
  <2>1. ASSUME NEW p \in Producers PROVE OwingAt(p)'
    <3>1. OwingAt(p)
      BY DEF Owing
    <3>2. QED BY <1>0, <1>2, <3>1 DEF OwingAt, Owed, MaxList
  <2>2. \A d \in Consumers : d \in Polling' => gpc'[d] \notin {"acquire", "recheck"}
    BY <1>0, <1>4, <1>8 DEF Owing
  <2>3. QED BY <2>1, <2>2 DEF Owing
<1>9. ASSUME l = "quit" PROVE Quiet => Quiet'
  BY <1>0, <1>4, <1>9 DEF Quiet
<1>10. CASE GetEnter(c)
  <2>1. /\ gpc[c] = "idle" /\ bufSem' = bufSem /\ queue' = queue
        /\ l = IF c \in Polling THEN "take" ELSE IF state = "STOPPED" THEN "quit" ELSE "acquire"
    BY <1>1, <1>4, <1>10 DEF GetEnter, GoTo
  <2>2. ~HeldBy(c) /\ ~HeldBy(c)'
    BY <1>0, <1>4, <2>1 DEF HeldBy
  <2>3. Balance' = Balance /\ Balance \in Int
    BY <1>1, <1>5, <1>6, <2>1, <2>2 DEF Balance
  <2>4. state = "STOPPED" /\ Quiet => Quiet'
    BY <1>0, <1>4, <2>1 DEF Quiet
  <2>5. Owing'
    BY <1>8, <2>1
  <2>6. QED BY <1>2, <2>1, <2>3, <2>4, <2>5 DEF Consuming, Covered
<1>11. CASE GetAcquire(c)
  <2>1. gpc[c] = "acquire" /\ bufSem' = bufSem - 1 /\ queue' = queue /\ l = "recheck"
    BY <1>1, <1>4, <1>11 DEF GetAcquire, GetAcquireAny, GoTo
  <2>2. ~HeldBy(c) /\ HeldBy(c)' /\ c \notin Polling
    BY <1>0, <1>4, <1>7, <2>1 DEF HeldBy
  <2>3. Balance' = Balance /\ Balance \in Int
    BY <1>1, <1>5, <1>6, <2>1, <2>2 DEF Balance
  <2>4. ~Quiet
    BY <2>1, <2>2 DEF Quiet
  <2>5. Owing'
    BY <1>8, <2>2
  <2>6. QED BY <1>2, <2>1, <2>3, <2>4, <2>5 DEF Consuming, Covered
<1>12. CASE GetRecheck(c)
  <2>1. /\ gpc[c] = "recheck" /\ bufSem' = bufSem /\ queue' = queue
        /\ l = IF state = "STOPPED" THEN "quit" ELSE "take"
    BY <1>1, <1>4, <1>12 DEF GetRecheck, GoTo
  <2>2. HeldBy(c) /\ c \notin Polling /\ ~Quiet
    BY <1>7, <2>1 DEF HeldBy, Quiet
  <2>3. Owing'
    BY <1>8, <2>2
  <2>4. CASE state = "STOPPED"
    <3>1. ~HeldBy(c)'
      BY <1>4, <2>1, <2>4 DEF HeldBy
    <3>2. Balance' = Balance - 1 /\ Balance \in Int
      BY <1>1, <1>5, <1>6, <2>1, <2>2, <3>1 DEF Balance
    <3>3. QED BY <1>2, <2>1, <2>2, <2>3, <2>4, <3>2 DEF Consuming
  <2>5. CASE state # "STOPPED"
    <3>1. HeldBy(c)'
      BY <1>0, <1>4, <2>1, <2>2, <2>5 DEF HeldBy
    <3>2. Balance' = Balance /\ Balance \in Int
      BY <1>1, <1>5, <1>6, <2>1, <2>2, <3>1 DEF Balance
    <3>3. QED BY <1>2, <2>1, <2>2, <2>3, <2>5, <3>2 DEF Consuming, Covered
  <2>6. QED BY <2>4, <2>5
<1>13. CASE GetTake(c)
  <2>1. gpc[c] = "take" /\ bufSem' = bufSem
    BY <1>13 DEF GetTake
  <2>2. HeldBy(c) <=> c \notin Polling
    BY <2>1 DEF HeldBy
  <2>3. l \in {"idle", "quit"} /\ (c \in Polling => l = "idle")
    BY <1>1, <1>4, <1>13 DEF GetTake, GoTo
  <2>4. ~HeldBy(c)'
    BY <1>4, <2>3 DEF HeldBy
  <2>5. Owing'
    BY <1>8, <2>3
  <2>6. Quiet => Quiet'
    BY <1>0, <1>4, <2>3 DEF Quiet
  <2>7. Held' = Held \/ (Held' = Held - 1 /\ Held > 0)
    BY <1>6, <2>4
  <2>8. c \notin Polling => Held' = Held - 1 /\ Held > 0
    BY <1>6, <2>2, <2>4
  <2>9. CASE queue # <<>>
    <3>1. queue' = Tail(queue) /\ l = "idle"
      BY <1>1, <1>4, <1>13, <2>9 DEF GetTake, GoTo
    <3>2. Len(queue') = Len(queue) - 1
      BY <1>1, <2>9, <3>1
    <3>3. Balance' >= Balance /\ Balance \in Int /\ Balance' \in Int
      BY <1>1, <1>5, <2>1, <2>7, <3>2 DEF Balance
    <3>4. c \notin Polling => Balance' = Balance
      BY <1>1, <1>5, <2>1, <2>8, <3>2 DEF Balance
    <3>5. QED BY <1>2, <1>4, <1>7, <2>5, <2>6, <3>1, <3>3, <3>4 DEF Consuming, Covered
  <2>10. CASE queue = <<>>
    <3>1. queue' = <<>> /\ Len(<<>>) = 0
      BY <1>13, <2>10 DEF GetTake
    <3>2. Balance' >= 0 /\ Balance' <= Balance
      BY <1>1, <1>5, <2>1, <2>7, <2>10, <3>1 DEF Balance
    <3>3. c \notin Polling => Balance > 0
      BY <1>1, <2>8, <2>10, <3>1 DEF Balance
    <3>4. QED BY <1>2, <2>5, <2>6, <3>2, <3>3 DEF Consuming, Covered
  <2>11. QED BY <2>9, <2>10
<1>14. QED BY <1>10, <1>11, <1>12, <1>13 DEF GetBuffer

\* A call of the controller that has begun: stop() clears the queue, as flush() does.
Calling == /\ cpc \in {"clear", "release"} => Script[at] = "stop"
           /\ cpc = "acquire" => Script[at] \in {"flush", "stop"}

\* The calls since the stop() at index i: after the threads were joined none of them is
\* inside getBuffer(), and a flush() after that leaves nothing behind.
Since(i) ==
  /\ Script[i] = "stop"
  /\ \A j \in i + 1..at - 1 : Script[j] = "join" =>
       /\ Quiet
       /\ \A f \in j + 1..at - 1 : Script[f] = "flush" => Covered

\* The permits of a queue that is not stopped cover its buffers; a stopped queue loses
\* permits to the consumers it stops, until it has been joined and flushed.
Permits == /\ Calling
           /\ state # "STOPPED" => Covered
           /\ state = "STOPPED" => \E i \in 1..at : Since(i)

\* The scripts that start a stopped queue again only after joining the consumers and
\* then flushing it.
Orderly ==
  \A s \in Setups : \A i, k \in 1..Len(s.script) :
    i < k /\ s.script[i] = "stop" /\ s.script[k] = "start" =>
      \E j \in i + 1..k - 1 : /\ s.script[j] = "join"
                              /\ \E f \in j + 1..k - 1 : s.script[f] = "flush"

\* What a step of the controller keeps; clear() leaves no buffer without a permit.
Controlling ==
  /\ Owing'
  /\ Covered => Covered'
  /\ Quiet => Quiet'
  /\ CtlClearAcquire => Covered'
  /\ ~CtlClearAcquire /\ ~CtlStopRelease => Balance' = Balance

LEMMA ControllerBalance ==
  ASSUME IInv, IInv', Owing, Controller
  PROVE  Controlling
<1>0. setup' = setup /\ Polling' = Polling
  BY DEF Controller, Polling
<1>1. /\ setup \in Setups /\ queue \in Seq(Buffer) /\ want \in Nat /\ StopPermits \in Nat
      /\ gpc \in [Consumers -> {"off", "idle", "acquire", "recheck", "take", "quit"}]
      /\ bufSem \in Nat /\ Held \in Nat /\ Pending \in Nat /\ Len(queue) \in Nat
      /\ bufSem' \in Nat
  BY BalanceTyped, BoundAssumption DEF BoundAssumption, IInv, TypeOK
<1>2. UNCHANGED <<ppc, call>>
  BY DEF Controller, CtlStart, CtlGo, CtlJoin, CtlStop, CtlClearRead, CtlClearAcquire,
         CtlStopRelease, WakeUp, prodVars
<1>3. Pending' = Pending
  BY <1>2, PendingSame DEF IInv
<1>4. \A d \in Consumers :
        \/ gpc'[d] = gpc[d]
        \/ gpc[d] \in {"off", "quit"} /\ gpc'[d] = "idle"
  <2>1. CASE CtlGo
    BY <1>1, <2>1 DEF CtlGo
  <2>2. CASE UNCHANGED gpc
    BY <2>2
  <2>3. QED BY <2>1, <2>2, Zenon
            DEF Controller, CtlStart, CtlJoin, CtlStop, CtlClearRead, CtlClearAcquire,
                CtlStopRelease, WakeUp
<1>5. Held' = Held
  <2>1. \A d \in Consumers : HeldBy(d)' <=> HeldBy(d)
    BY <1>0, <1>4 DEF HeldBy
  <2>2. QED BY <1>0, <2>1, HeldChange
<1>6. Owing'
  <2>1. ASSUME NEW p \in Producers PROVE OwingAt(p)'
    <3>1. OwingAt(p)
      BY DEF Owing
    <3>2. QED BY <1>0, <1>2, <3>1 DEF OwingAt, Owed, MaxList
  <2>2. \A d \in Consumers : d \in Polling' => gpc'[d] \notin {"acquire", "recheck"}
    BY <1>0, <1>4 DEF Owing
  <2>3. QED BY <2>1, <2>2 DEF Owing
<1>7. Quiet => Quiet'
  BY <1>0, <1>4 DEF Quiet
<1>8. CtlClearAcquire => Covered'
  <2>1. SUFFICES ASSUME CtlClearAcquire PROVE Covered'
    OBVIOUS
  <2>2. SUFFICES bufSem' + Held' + Pending' - Len(queue') >= 0
    BY Zenon DEF Covered, Balance
  <2>3. queue' = <<>>
    BY <2>1 DEF CtlClearAcquire
  <2>4. PICK n, s, h, m \in Nat :
          /\ n = Len(queue') /\ s = bufSem' /\ h = Held' /\ m = Pending' /\ n <= 0
    BY <1>1, <1>3, <1>5, <2>3
  <2>5. s + h + m - n >= 0
    BY <2>4, SMTT(30)
  <2>6. QED BY <2>4, <2>5, Zenon
<1>9. CtlStopRelease => (Covered => Covered')
  <2>1. SUFFICES ASSUME CtlStopRelease PROVE Balance' = Balance + StopPermits
    BY <1>1 DEF Covered, Balance
  <2>2. bufSem' = bufSem + StopPermits /\ queue' = queue
    BY <2>1 DEF CtlStopRelease, WakeUp
  <2>3. QED BY <1>1, <1>3, <1>5, <2>2 DEF Balance
<1>10. ~CtlClearAcquire /\ ~CtlStopRelease => Balance' = Balance
  <2>1. SUFFICES ASSUME ~CtlClearAcquire, ~CtlStopRelease PROVE Balance' = Balance
    OBVIOUS
  <2>2. bufSem' = bufSem /\ queue' = queue
    BY <2>1 DEF Controller, CtlStart, CtlGo, CtlJoin, CtlStop, CtlClearRead
  <2>3. QED BY <1>1, <1>3, <1>5, <2>2 DEF Balance
<1>11. QED BY <1>6, <1>7, <1>8, <1>9, <1>10 DEF Controlling, Covered

LEMMA PermitsInit == Init => Owing /\ Permits
<1> SUFFICES ASSUME Init PROVE Owing /\ Permits
  OBVIOUS
<1>1. TypeOK /\ setup \in Setups /\ NoCall.todo = <<>> /\ Len(<<>>) = 0
  BY InitIInv DEF IInv, TypeOK, NoCall
<1>2. \A p \in Producers : call[p] = NoCall /\ ppc[p] = "idle"
  BY DEF Init
<1>3. Owing
  <2>1. \A c \in Consumers : c \in Polling => gpc[c] \notin {"acquire", "recheck"}
    BY DEF Init
  <2>2. ASSUME NEW p \in Producers PROVE OwingAt(p)
    <3>1. call[p].todo = <<>> /\ call[p].permits = 0 /\ call[p].list = FALSE /\ call[p] = NoCall
      BY <1>2 DEF NoCall
    <3>2. Len(call[p].todo) = 0 /\ Len(call[p].todo) \in Nat /\ call[p].permits \in Nat
      BY <1>1, <3>1
    <3>3. Owed(p) = 0
      <4>1. PICK m, n \in Nat : m = call[p].permits /\ n = Len(call[p].todo) /\ m = 0 /\ n = 0
        BY <3>1, <3>2
      <4>2. m - n = 0
        BY <4>1
      <4>3. QED BY <4>1, <4>2, Zenon DEF Owed
    <3>4. QED BY <1>1, <3>1, <3>2, <3>3 DEF OwingAt
  <2>3. QED BY <2>1, <2>2 DEF Owing
<1>4. bufSem \in Nat /\ Held \in Nat /\ Pending \in Nat /\ Len(queue) = 0
  BY <1>1, <1>3, BalanceTyped DEF Init
<1>5. Covered
  BY <1>4 DEF Covered, Balance
<1>6. QED BY <1>3, <1>5 DEF Permits, Calling, Init

LEMMA IntBalance == TypeOK /\ Owing => Balance \in Int
BY BalanceTyped DEF Balance

LEMMA StutterBalance ==
  ASSUME IInv, IInv', Owing, UNCHANGED vars
  PROVE  Owing' /\ Balance' = Balance
<1>1. UNCHANGED <<queue, bufSem, call, gpc, ppc>> /\ setup' = setup
  BY DEF vars, prodVars
<1>2. Pending' = Pending
  BY <1>1, PendingSame DEF IInv
<1>3. Held' = Held
  <2>1. \A d \in Consumers : HeldBy(d)' <=> HeldBy(d)
    BY <1>1 DEF HeldBy, Polling
  <2>2. QED BY <1>1, <2>1, HeldChange
<1>4. Balance' = Balance
  BY <1>1, <1>2, <1>3 DEF Balance
<1>5. ASSUME NEW p \in Producers PROVE OwingAt(p)'
  <2>1. OwingAt(p)
    BY DEF Owing
  <2>2. QED BY <1>1, <2>1 DEF OwingAt, Owed, MaxList
<1>6. \A d \in Consumers : d \in Polling' => gpc'[d] \notin {"acquire", "recheck"}
  BY <1>1 DEF Owing, Polling
<1>7. QED BY <1>4, <1>5, <1>6 DEF Owing

LEMMA PermitsNext ==
  ASSUME Whole, Orderly, IInv, IInv', Ordered, Owing, Permits, [Next]_vars
  PROVE  Owing' /\ Permits'
<1>0. setup' = setup /\ Script' = Script
  BY SetupStays
<1>1. /\ setup \in Setups /\ Script \in Seq(CtlOps) /\ Len(Script) \in Nat
      /\ at \in Nat /\ 1 <= at /\ at <= Len(Script) + 1
  BY SetupTyped DEF IInv, TypeOK
<1>2. state = "STOPPED" => \E i \in 1..at : Since(i)
  BY DEF Permits
\* A step that leaves the controller alone.
<1>3. ASSUME UNCHANGED <<state, ctlVars>>,
             Covered /\ (state = "STOPPED" => Quiet) => Covered',
             state = "STOPPED" /\ Quiet => Quiet'
      PROVE  Permits'
  <2>1. cpc' = cpc /\ at' = at /\ state' = state
    BY <1>3 DEF ctlVars
  <2>2. Calling'
    BY <1>0, <2>1 DEF Permits, Calling
  <2>3. state # "STOPPED" => Covered'
    BY <1>3 DEF Permits
  <2>4. ASSUME state = "STOPPED", NEW i \in 1..at, Since(i) PROVE Since(i)'
    BY <1>0, <1>3, <2>1, <2>4 DEF Since
  <2>5. QED BY <2>1, <2>2, <2>3, <2>4 DEF Permits
<1>4. ASSUME NEW p \in Producers, CallQueue(p) \/ AddBuffer(p) PROVE Owing' /\ Permits'
  <2>1. Producing
    BY <1>4, ProducerBalance
  <2>2. Covered => Covered'
    <3>1. TypeOK /\ TypeOK' /\ Owing'
      BY <2>1 DEF IInv, Producing
    <3>2. Balance \in Int
      BY <3>1, IntBalance
    <3>3. (TypeOK /\ Owing)' => (Balance \in Int)'
      BY IntBalance, PTL
    <3>4. Balance' \in Int
      BY <3>1, <3>3
    <3>5. QED BY <2>1, <3>2, <3>4 DEF Producing, Covered
  <2>3. Quiet => Quiet'
    BY <1>0, <2>1 DEF Producing, Quiet, Polling
  <2>4. QED BY <1>3, <2>1, <2>2, <2>3 DEF Producing
<1>5. ASSUME NEW c \in Consumers, GetBuffer(c) PROVE Owing' /\ Permits'
  <2>1. Consuming(c)
    BY <1>5, ConsumerBalance
  <2>2. QED BY <1>3, <2>1 DEF Consuming
<1>6. ASSUME Controller PROVE Owing' /\ Permits'
  <2>1. Controlling
    BY <1>6, ControllerBalance
  \* A call of the controller that ends at `at' and is no join: what held since a
  \* stop still does.
  <2>2. ASSUME at' = at + 1, at <= Len(Script), NEW i \in 1..at, Since(i),
               Script[at] = "flush" => Covered', Script[at] = "join" => Quiet'
        PROVE  i \in 1..at' /\ Since(i)'
    <3>1. ASSUME NEW j \in i + 1..at, Script[j] = "join"
          PROVE  Quiet' /\ \A f \in j + 1..at : Script[f] = "flush" => Covered'
      <4>1. CASE j = at
        BY <1>1, <2>2, <3>1, <4>1
      <4>2. CASE j # at
        <5>1. j \in i + 1..at - 1
          BY <1>1, <3>1, <4>2
        <5>2. Quiet /\ \A f \in j + 1..at - 1 : Script[f] = "flush" => Covered
          BY <2>2, <3>1, <5>1 DEF Since
        <5>3. \A f \in j + 1..at : f = at \/ f \in j + 1..at - 1
          BY <1>1, <3>1
        <5>4. QED BY <2>1, <2>2, <5>2, <5>3 DEF Controlling
      <4>3. QED BY <4>1, <4>2
    <3>2. at' - 1 = at
      BY <1>1, <2>2
    <3>3. QED BY <1>0, <1>1, <2>2, <3>1, <3>2 DEF Since
  \* ... and one that goes on.
  <2>3. ASSUME at' = at, NEW i \in 1..at, Since(i) PROVE Since(i)'
    BY <1>0, <2>1, <2>3 DEF Since, Controlling
  <2>4. CASE CtlStart
    <3>1. /\ state' = "STARTED" /\ cpc = "next" /\ cpc' = "next"
          /\ at \in 1..Len(Script) /\ Script[at] = "start"
      BY <1>1, <2>4 DEF CtlStart, CtlCalls, CtlReturns
    <3>2. Covered
      <4>1. CASE state # "STOPPED"
        BY <4>1 DEF Permits
      <4>2. CASE state = "STOPPED"
        <5>1. PICK i \in 1..at : Since(i)
          BY <1>2, <4>2
        <5>2. i < at /\ i \in 1..Len(Script) /\ Script[i] = "stop"
          BY <1>1, <3>1, <5>1 DEF Since
        <5>3. PICK j \in i + 1..at - 1 :
                /\ Script[j] = "join"
                /\ \E f \in j + 1..at - 1 : Script[f] = "flush"
          BY <1>1, <3>1, <5>2 DEF Orderly, Script
        <5>4. QED BY <5>1, <5>3 DEF Since
      <4>3. QED BY <4>1, <4>2
    <3>3. Covered'
      BY <2>1, <3>2 DEF Controlling
    <3>4. QED BY <2>1, <3>1, <3>3 DEF Permits, Calling, Controlling
  <2>5. CASE CtlGo \/ CtlJoin
    <3>1. /\ state' = state /\ cpc = "next" /\ cpc' = "next" /\ at' = at + 1
          /\ at <= Len(Script) /\ Script[at] \in {"go", "join"}
      BY <2>5 DEF CtlGo, CtlJoin, CtlCalls, CtlReturns
    <3>2. Script[at] = "join" => Quiet'
      <4>1. SUFFICES ASSUME Script[at] = "join" PROVE Quiet
        BY <2>1 DEF Controlling
      <4>2. \A c \in Consumers : gpc[c] \in {"off", "quit"}
        BY <2>5, <4>1 DEF CtlGo, CtlJoin, CtlCalls
      <4>3. QED BY <4>2 DEF Quiet
    <3>3. state # "STOPPED" => Covered'
      BY <2>1 DEF Permits, Controlling
    <3>4. state = "STOPPED" => \E i \in 1..at' : Since(i)'
      BY <1>2, <2>2, <3>1, <3>2
    <3>5. QED BY <2>1, <3>1, <3>3, <3>4 DEF Permits, Calling, Controlling
  <2>6. CASE CtlStop
    <3>1. /\ state' = "STOPPED" /\ cpc' = "clear" /\ at' = at /\ Script[at] = "stop"
      BY <2>6 DEF CtlStop, CtlCalls
    <3>2. Since(at)'
      BY <1>0, <1>1, <3>1 DEF Since
    <3>3. at \in 1..at'
      BY <1>1, <3>1
    <3>4. \E i \in 1..at' : Since(i)'
      BY <1>1, <3>1, <3>2, <3>3 DEF Since
    <3>5. QED BY <1>0, <2>1, <3>1, <3>4 DEF Permits, Calling, Controlling
  <2>7. CASE CtlClearRead
    <3>1. /\ state' = state /\ cpc' = "acquire" /\ at' = at
          /\ Script[at] \in {"flush", "stop"}
      BY <2>7 DEF CtlClearRead, CtlCalls, Permits, Calling
    <3>2. state # "STOPPED" => Covered'
      BY <2>1 DEF Permits, Controlling
    <3>3. state = "STOPPED" => \E i \in 1..at' : Since(i)'
      BY <1>2, <2>3, <3>1
    <3>4. QED BY <1>0, <2>1, <3>1, <3>2, <3>3 DEF Permits, Calling, Controlling
  <2>8. CASE CtlClearAcquire
    <3>1. /\ state' = state /\ cpc = "acquire" /\ at <= Len(Script)
          /\ Script[at] \in {"flush", "stop"}
          /\ \/ Script[at] = "flush" /\ cpc' = "next" /\ at' = at + 1
             \/ Script[at] # "flush" /\ cpc' = "release" /\ at' = at
      BY <2>8 DEF CtlClearAcquire, CtlReturns, Permits, Calling, IInv, InCall
    <3>2. Covered'
      BY <2>1, <2>8 DEF Controlling
    <3>3. state = "STOPPED" => \E i \in 1..at' : Since(i)'
      BY <1>2, <2>2, <2>3, <3>1, <3>2
    <3>4. QED BY <1>0, <2>1, <3>1, <3>2, <3>3 DEF Permits, Calling, Controlling
  <2>9. CASE CtlStopRelease
    <3>1. /\ state' = state /\ cpc = "release" /\ cpc' = "next" /\ at' = at + 1
          /\ at <= Len(Script) /\ Script[at] = "stop"
      BY <2>9 DEF CtlStopRelease, WakeUp, CtlReturns, Permits, Calling, IInv, InCall
    <3>2. state # "STOPPED" => Covered'
      BY <2>1 DEF Permits, Controlling
    <3>3. state = "STOPPED" => \E i \in 1..at' : Since(i)'
      BY <1>2, <2>2, <3>1
    <3>4. QED BY <2>1, <3>1, <3>2, <3>3 DEF Permits, Calling, Controlling
  <2>10. QED BY <1>6, <2>4, <2>5, <2>6, <2>7, <2>8, <2>9 DEF Controller
<1>7. ASSUME UNCHANGED vars PROVE Owing' /\ Permits'
  <2>1. Owing' /\ Balance' = Balance /\ UNCHANGED <<state, ctlVars, gpc>>
    BY <1>7, StutterBalance DEF vars
  <2>2. Quiet => Quiet'
    BY <1>0, <2>1 DEF Quiet, Polling
  <2>3. QED BY <1>3, <2>1, <2>2 DEF Covered
<1>8. QED BY <1>4, <1>5, <1>6, <1>7 DEF Next

\* No buffer of a running queue is stranded: in the configurations in which a refused
\* buffer leaves no others behind, and a stopped queue is joined and flushed before it
\* starts again, every queued buffer has its permit.
THEOREM NoneStranded == ASSUME Whole, Orderly PROVE Spec => []NoStranded
<1> DEFINE Inv == IInv /\ Ordered /\ Owing /\ Permits
<1>1. Init => Inv
  BY InitIInv, PermitsInit, InitOrdered
<1>2. Inv /\ [Next]_vars => Inv'
  <2>1. SUFFICES ASSUME Inv, [Next]_vars PROVE Inv'
    OBVIOUS
  <2>2. IInv'
    BY <2>1, NextIInv
  <2>3. Ordered'
    BY <2>1, NextFifo
  <2>4. Owing' /\ Permits'
    BY <2>1, <2>2, PermitsNext
  <2>5. QED BY <2>2, <2>3, <2>4
<1>3. Inv => NoStranded
  <2>1. SUFFICES ASSUME Inv, state = "STARTED" PROVE Len(queue) <= bufSem + Held + Pending
    BY DEF NoStranded
  <2>2. Balance >= 0
    BY <2>1 DEF Permits, Covered
  <2>3. bufSem \in Nat /\ Held \in Nat /\ Pending \in Nat /\ Len(queue) \in Nat
    BY <2>1, BalanceTyped DEF IInv
  <2>4. QED BY <2>2, <2>3 DEF Balance
<1>4. QED BY <1>1, <1>2, <1>3, PTL DEF Spec

\* While nobody clears the queue there are never more permits than buffers.
Backed == NeverCleared => state # "STOPPED" /\ cpc = "next" /\ Balance <= 0

LEMMA BackedNext ==
  ASSUME Exact, IInv, IInv', Ordered, Owing, Backed, [Next]_vars
  PROVE  /\ Owing' /\ Backed'
         /\ NeverCleared => \A c \in Consumers \ Polling :
              gpc[c] = "take" /\ gpc'[c] = "quit" => state = "STOPPED"
<1>0. setup' = setup /\ Script' = Script
  BY SetupStays
<1>1. /\ NeverCleared' <=> NeverCleared
      /\ at \in Nat /\ 1 <= at /\ Len(Script) \in Nat /\ Script \in Seq(CtlOps)
      /\ gpc \in [Consumers -> {"off", "idle", "acquire", "recheck", "take", "quit"}]
  BY <1>0, SetupTyped DEF NeverCleared, IInv, TypeOK
<1>2. Balance \in Int
  BY IntBalance DEF IInv
<1>3. ASSUME Owing' PROVE Balance' \in Int
  <2>1. (TypeOK /\ Owing)' => (Balance \in Int)'
    BY IntBalance, PTL
  <2>2. QED BY <1>3, <2>1 DEF IInv
<1>4. ASSUME NEW p \in Producers, CallQueue(p) \/ AddBuffer(p)
      PROVE  Owing' /\ Backed' /\ UNCHANGED gpc
  <2>1. Producing
    BY <1>4, ProducerBalance
  <2>2. Balance' \in Int
    BY <1>3, <2>1 DEF Producing
  <2>3. QED BY <1>1, <1>2, <2>1, <2>2 DEF Producing, Backed, ctlVars
<1>5. ASSUME NEW c \in Consumers, GetBuffer(c)
      PROVE  /\ Owing' /\ Backed'
             /\ NeverCleared => (c \notin Polling => ~(gpc[c] = "take" /\ gpc'[c] = "quit"))
             /\ \A d \in Consumers : d # c => gpc'[d] = gpc[d]
  <2>1. Consuming(c)
    BY <1>5, ConsumerBalance
  <2>2. Balance' \in Int
    BY <1>3, <2>1 DEF Consuming
  <2>3. \A d \in Consumers : d # c => gpc'[d] = gpc[d]
    BY <1>1, <1>5 DEF GetBuffer, GetEnter, GetAcquire, GetAcquireAny, GetRecheck, GetTake, GoTo
  <2>4. Backed'
    BY <1>1, <1>2, <2>1, <2>2 DEF Consuming, Backed, ctlVars
  <2>5. NeverCleared => (c \notin Polling => ~(gpc[c] = "take" /\ gpc'[c] = "quit"))
    BY <1>2, <2>1 DEF Consuming, Backed
  <2>6. QED BY <2>1, <2>3, <2>4, <2>5 DEF Consuming
<1>6. ASSUME Controller
      PROVE  Owing' /\ Backed' /\ \A c \in Consumers : gpc[c] = "take" => gpc'[c] # "quit"
  <2>1. Controlling
    BY <1>6, ControllerBalance
  <2>2. ASSUME NeverCleared PROVE CtlStart \/ CtlGo \/ CtlJoin
    <3>1. cpc = "next"
      BY <2>2 DEF Backed
    <3>2. CtlStop \/ CtlClearRead => /\ at \in DOMAIN Script
                                     /\ Script[at] \in {"flush", "stop"}
      BY <1>1, <3>1 DEF CtlStop, CtlClearRead, CtlCalls
    <3>3. ~CtlStop /\ ~CtlClearRead
      BY <2>2, <3>2 DEF NeverCleared
    <3>4. QED BY <1>6, <3>1, <3>3 DEF Controller, CtlClearAcquire, CtlStopRelease, WakeUp
  <2>3. ASSUME NeverCleared PROVE state' # "STOPPED" /\ cpc' = "next" /\ Balance' <= 0
    <3>1. state' \in {state, "STARTED"} /\ cpc' = "next"
      BY <2>2, <2>3 DEF CtlStart, CtlGo, CtlJoin, CtlReturns
    <3>2. ~CtlClearAcquire /\ ~CtlStopRelease
      BY <2>3 DEF Backed, CtlClearAcquire, CtlStopRelease, WakeUp
    <3>3. QED BY <2>1, <2>3, <3>1, <3>2 DEF Controlling, Backed
  <2>4. \A c \in Consumers : gpc[c] = "take" => gpc'[c] # "quit"
    <3>1. CASE CtlGo
      BY <1>1, <3>1 DEF CtlGo
    <3>2. CASE UNCHANGED gpc
      BY <3>2
    <3>3. QED BY <1>6, <3>1, <3>2, Zenon
              DEF Controller, CtlStart, CtlJoin, CtlStop, CtlClearRead, CtlClearAcquire,
                  CtlStopRelease, WakeUp
  <2>5. QED BY <1>1, <2>1, <2>3, <2>4 DEF Controlling, Backed
<1>7. ASSUME UNCHANGED vars PROVE Owing' /\ Backed' /\ UNCHANGED gpc
  <2>1. /\ Owing' /\ Balance' = Balance
    BY <1>7, StutterBalance
  <2>2. state' = state /\ cpc' = cpc /\ gpc' = gpc
    BY <1>7 DEF vars, ctlVars
  <2>3. QED BY <1>1, <2>1, <2>2 DEF Backed
<1>8. QED
  <2>1. Owing' /\ Backed'
    BY <1>4, <1>5, <1>6, <1>7 DEF Next
  <2>2. SUFFICES ASSUME NeverCleared, NEW c \in Consumers, c \notin Polling,
                        gpc[c] = "take", gpc'[c] = "quit"
                 PROVE  FALSE
    BY <2>1
  <2>3. \A d \in Consumers : ~GetBuffer(d)
    BY <1>5, <2>2
  <2>4. QED BY <1>4, <1>6, <1>7, <2>2, <2>3 DEF Next

\* While nobody clears the queue, getBuffer() of a queue that is not stopped does not
\* come back empty: in the configurations in which no buffer is dropped, skipped or
\* taken without a permit, a permit stands for a buffer.
THEOREM EmptyMeansStopped == ASSUME Exact PROVE Spec => EmptyOnlyWhenStopped
<1> DEFINE Inv == IInv /\ Ordered /\ Owing /\ Backed
           Step == NeverCleared => \A c \in Consumers \ Polling :
                     gpc[c] = "take" /\ gpc'[c] = "quit" => state = "STOPPED"
<1>1. Init => Inv
  <2> SUFFICES ASSUME Init PROVE Inv
    OBVIOUS
  <2>1. IInv /\ Ordered /\ Owing
    BY InitIInv, PermitsInit, InitOrdered
  <2>2. bufSem = 0 /\ Len(queue) \in Nat
    BY <2>1 DEF Init, IInv, TypeOK
  <2>3. \A c \in Consumers : ~HeldBy(c)
    BY DEF Init, HeldBy
  <2>4. Held = 0
    <3>1. {c \in Consumers \ Polling : gpc[c] \in {"recheck", "take"}} = {}
      BY <2>3 DEF HeldBy
    <3>2. QED BY <3>1, FS_EmptySet DEF Held
  <2>5. Pending = 0
    BY <2>1, PendingNone DEF Init, IInv
  <2>6. Balance <= 0
    BY <2>2, <2>4, <2>5 DEF Balance
  <2>7. QED BY <2>1, <2>6 DEF Backed, Init
<1>2. Inv /\ [Next]_vars => Inv' /\ Step
  <2>1. SUFFICES ASSUME Inv, [Next]_vars PROVE Inv' /\ Step
    OBVIOUS
  <2>2. IInv'
    BY <2>1, NextIInv
  <2>3. Ordered'
    BY <2>1, NextFifo
  <2>4. Owing' /\ Backed' /\ Step
    BY <2>1, <2>2, BackedNext
  <2>5. QED BY <2>2, <2>3, <2>4
<1>3. QED BY <1>1, <1>2, PTL DEF Spec, EmptyOnlyWhenStopped

-----------------------------------------------------------------------------
(* The bytes of a queue *)

SizesOf(q) == [i \in 1..Len(q) |-> q[i].size]

Summed(q) == \E g, c : /\ Chooses(c, 1..Len(q)) /\ Adds(g, SizesOf(q), c, 1..Len(q))
                       /\ Bytes(q) = g[1..Len(q)]

LEMMA SizesTyped ==
  ASSUME NEW q \in Seq(Buffer)
  PROVE  /\ Len(q) \in Nat /\ IsFiniteSet(1..Len(q)) /\ DOMAIN q = 1..Len(q)
         /\ SizesOf(q) \in [1..Len(q) -> Int]
         /\ \A i \in 1..Len(q) : q[i] \in Buffer /\ SizesOf(q)[i] = q[i].size
                                 /\ q[i].size \in Nat /\ SizesOf(q)[i] >= 0
<1>1. Len(q) \in Nat /\ DOMAIN q = 1..Len(q)
  OBVIOUS
<1>2. IsFiniteSet(1..Len(q))
  BY <1>1, FS_Interval
<1>3. \A i \in 1..Len(q) : q[i] \in Buffer /\ q[i].size \in Nat
  <2>1. \A i \in 1..Len(q) : q[i] \in Buffer
    BY ElementOfSeq
  <2>2. \A b \in Buffer : b.size \in Nat
    BY BoundAssumption DEF BoundAssumption, Buffer
  <2>3. QED BY <2>1, <2>2
<1>4. QED BY <1>1, <1>2, <1>3 DEF SizesOf

LEMMA BytesSum == ASSUME NEW q \in Seq(Buffer) PROVE Summed(q)
<1> DEFINE n == Len(q)
           S == 1..n
           c == [s \in SUBSET S |-> Max(s)]
           F == SizesOf(q)
           G(g) == g = [s \in SUBSET S |-> IF s = {} THEN 0
                                           ELSE g[s \ {Max(s)}] + q[Max(s)].size]
<1>1. n \in Nat /\ IsFiniteSet(S) /\ DOMAIN q = S /\ F \in [S -> Int]
      /\ \A i \in S : F[i] = q[i].size
  BY SizesTyped
<1>2. Chooses(c, S)
  BY <1>1, LastChooses
<1>3. \A s \in SUBSET S : c[s] = Max(s) /\ (s # {} => c[s] \in S)
  BY <1>2 DEF Chooses
<1>4. Bytes(q) = (CHOOSE g : g = [s \in SUBSET (DOMAIN q) |->
                                    IF s = {} THEN 0
                                    ELSE g[s \ {Max(s)}] + q[Max(s)].size])[DOMAIN q]
  BY DEF Bytes, FoldLeft, MapThenFoldSet
<1>5. Bytes(q) = (CHOOSE g : G(g))[S]
  BY <1>1, <1>4, Zenon
<1>6. \A g : G(g) <=> AddsAfter(g, F, c, S)
  <2>1. SUFFICES ASSUME NEW g PROVE G(g) <=> AddsAfter(g, F, c, S)
    OBVIOUS
  <2>2. ASSUME NEW s \in SUBSET S
        PROVE  (IF s = {} THEN 0 ELSE g[s \ {Max(s)}] + q[Max(s)].size)
               = (IF s = {} THEN 0 ELSE g[s \ {c[s]}] + F[c[s]])
    <3>1. s # {} => F[c[s]] = q[Max(s)].size
      BY <1>1, <1>3
    <3> HIDE DEF F, c, S
    <3>2. QED BY <1>3, <3>1
  <2> HIDE DEF F, c, S
  <2>3. QED BY <2>2 DEF AddsAfter
<1> HIDE DEF n, S, c, F, G
<1>7. G(CHOOSE g : G(g))
  BY <1>1, <1>2, <1>6, AddsAfterExists
<1>8. PICK g : G(g) /\ Bytes(q) = g[S]
  BY <1>5, <1>7
<1>9. AddsAfter(g, F, c, S)
  BY <1>6, <1>8
<1>10. Adds(g, F, c, S)
  BY <1>1, <1>2, <1>9, AddsRight
<1>11. QED BY <1>2, <1>8, <1>10 DEF Summed, F, S, n

\* The sum in any order.
LEMMA BytesOrder ==
  ASSUME NEW q \in Seq(Buffer)
  PROVE  /\ Bytes(q) \in Nat
         /\ \E g : AnyOrder(g, SizesOf(q), 1..Len(q)) /\ Bytes(q) = g[1..Len(q)]
<1> DEFINE F == SizesOf(q)
           S == 1..Len(q)
<1>1. IsFiniteSet(S) /\ F \in [S -> Int] /\ \A i \in S : F[i] >= 0
  BY SizesTyped
<1>2. PICK g, c : Chooses(c, S) /\ Adds(g, F, c, S) /\ Bytes(q) = g[S]
  BY BytesSum DEF Summed
<1> HIDE DEF F, S
<1>3. AnyOrder(g, F, S) /\ g[S] \in Nat
  BY <1>1, <1>2, AddsAny, AddsNat
<1>4. QED BY <1>2, <1>3 DEF F, S

LEMMA BytesEmpty == Bytes(<<>>) = 0
<1>1. <<>> \in Seq(Buffer) /\ Len(<<>>) = 0 /\ 1..0 = {}
  OBVIOUS
<1>2. PICK g : AnyOrder(g, SizesOf(<<>>), 1..Len(<<>>)) /\ Bytes(<<>>) = g[1..Len(<<>>)]
  BY <1>1, BytesOrder
<1>3. QED BY <1>1, <1>2 DEF AnyOrder

LEMMA BytesFirst ==
  ASSUME NEW q \in Seq(Buffer), q # <<>>
  PROVE  /\ Bytes(q) \in Nat /\ Bytes(Tail(q)) \in Nat /\ Head(q).size \in Nat
         /\ Bytes(q) = Head(q).size + Bytes(Tail(q))
<1> DEFINE t == Tail(q)
           S == 1..Len(q)
           R == 1..Len(t)
           f == SizesOf(q)
           e == SizesOf(t)
           m == [i \in R |-> i + 1]
<1>1. /\ t \in Seq(Buffer) /\ Len(t) = Len(q) - 1 /\ Len(q) \in Nat /\ Len(q) > 0
      /\ \A i \in R : t[i] = q[i + 1]
      /\ Head(q) = q[1]
  OBVIOUS
<1>2. /\ IsFiniteSet(S) /\ f \in [S -> Int] /\ IsFiniteSet(R) /\ e \in [R -> Int]
      /\ \A i \in S : f[i] = q[i].size /\ q[i].size \in Nat
      /\ \A i \in R : e[i] = t[i].size
  BY <1>1, SizesTyped
<1>3. Bytes(q) \in Nat /\ Bytes(t) \in Nat
  BY <1>1, BytesOrder
<1>4. PICK g : AnyOrder(g, f, S) /\ Bytes(q) = g[S]
  BY BytesOrder
<1>5. PICK h : AnyOrder(h, e, R) /\ Bytes(t) = h[R]
  BY <1>1, BytesOrder
<1>6. /\ m \in [R -> S] /\ \A x, y \in R : m[x] = m[y] => x = y
      /\ \A x \in R : m[x] = x + 1
  BY <1>1
<1>7. {m[x] : x \in R} = S \ {1}
  <2>1. \A y \in S \ {1} : y - 1 \in R /\ y = (y - 1) + 1
    BY <1>1
  <2>2. \A y \in R : y + 1 \in S \ {1}
    BY <1>1
  <2> HIDE DEF m, R, S
  <2>3. QED BY <1>6, <2>1, <2>2
<1>8. \A x \in R : e[x] = f[m[x]]
  <2>1. SUFFICES ASSUME NEW x \in R PROVE e[x] = f[x + 1]
    BY <1>6
  <2>2. x + 1 \in S
    BY <1>1
  <2> HIDE DEF R, S, f, e
  <2>3. QED BY <1>1, <1>2, <2>1, <2>2
<1>9. 1 \in S
  BY <1>1
<1> HIDE DEF S, R, f, e, m
<1>10. h[R] = g[S \ {1}]
  <2>1. Renames(m, f, S, e, R)
    BY <1>6, <1>8 DEF Renames
  <2>2. h[R] = g[Image(m, R)]
    BY <1>2, <1>4, <1>5, <2>1, AddsImage
  <2>3. QED BY <1>7, <2>2 DEF Image
<1>11. g[S] = f[1] + g[S \ {1}]
  BY <1>4, <1>9 DEF AnyOrder
<1>12. f[1] = Head(q).size /\ Head(q).size \in Nat
  BY <1>1, <1>2, <1>9
<1>13. QED BY <1>3, <1>4, <1>5, <1>10, <1>11, <1>12

LEMMA BytesLast ==
  ASSUME NEW q \in Seq(Buffer), NEW b \in Buffer
  PROVE  /\ Bytes(q) \in Nat /\ b.size \in Nat
         /\ Bytes(Append(q, b)) = Bytes(q) + b.size
<1> DEFINE t == Append(q, b)
           n == Len(t)
           S == 1..n
           R == 1..Len(q)
           f == SizesOf(t)
           e == SizesOf(q)
           m == [i \in R |-> i]
<1>1. /\ t \in Seq(Buffer) /\ n = Len(q) + 1 /\ Len(q) \in Nat
      /\ \A i \in R : t[i] = q[i]
      /\ t[n] = b
  OBVIOUS
<1>2. /\ IsFiniteSet(S) /\ f \in [S -> Int] /\ IsFiniteSet(R) /\ e \in [R -> Int]
      /\ \A i \in S : f[i] = t[i].size /\ t[i].size \in Nat
      /\ \A i \in R : e[i] = q[i].size
  BY <1>1, SizesTyped
<1>3. Bytes(q) \in Nat /\ Bytes(t) \in Nat
  BY <1>1, BytesOrder
<1>4. PICK g : AnyOrder(g, f, S) /\ Bytes(t) = g[S]
  BY <1>1, BytesOrder
<1>5. PICK h : AnyOrder(h, e, R) /\ Bytes(q) = h[R]
  BY BytesOrder
<1>6. /\ m \in [R -> S] /\ \A x, y \in R : m[x] = m[y] => x = y
      /\ \A x \in R : m[x] = x /\ x \in S
      /\ n \in S /\ S \ {n} = R
  BY <1>1
<1>7. {m[x] : x \in R} = S \ {n}
  <2> HIDE DEF m, R, S
  <2>1. QED BY <1>6
<1> HIDE DEF S, R, f, e, m, n, t
<1>8. \A x \in R : e[x] = f[m[x]]
  BY <1>1, <1>2, <1>6
<1>9. h[R] = g[S \ {n}]
  <2>1. Renames(m, f, S, e, R)
    BY <1>6, <1>8 DEF Renames
  <2>2. h[R] = g[Image(m, R)]
    BY <1>2, <1>4, <1>5, <2>1, AddsImage
  <2>3. QED BY <1>7, <2>2 DEF Image
<1>10. g[S] = f[n] + g[S \ {n}]
  BY <1>4, <1>6 DEF AnyOrder
<1>11. f[n] = b.size /\ b.size \in Nat
  BY <1>1, <1>2, <1>6
<1>12. Bytes(t) = Bytes(q) + b.size
  BY <1>3, <1>4, <1>5, <1>9, <1>10, <1>11
<1>13. QED BY <1>3, <1>11, <1>12 DEF t

LEMMA BytesFront ==
  ASSUME NEW q \in Seq(Buffer), NEW b \in Buffer
  PROVE  Bytes(<<b>> \o q) = b.size + Bytes(q)
<1>1. /\ <<b>> \o q \in Seq(Buffer) /\ <<b>> \o q # <<>>
      /\ Head(<<b>> \o q) = b /\ Tail(<<b>> \o q) = q
  BY HeadTailAppend
<1>2. QED BY <1>1, BytesFirst

\* What is left of a queue whose oldest buffers were dropped.
LEMMA BytesDropped ==
  ASSUME NEW q \in Seq(Buffer), NEW k \in Nat, k <= Len(q)
  PROVE  /\ SubSeq(q, k + 1, Len(q)) \in Seq(Buffer)
         /\ Bytes(SubSeq(q, k + 1, Len(q))) <= Bytes(q)
<1> DEFINE r(i) == SubSeq(q, i + 1, Len(q))
           T == {i \in Nat : i <= Len(q) =>
                   /\ r(i) \in Seq(Buffer) /\ Len(r(i)) = Len(q) - i
                   /\ Bytes(r(i)) <= Bytes(q)}
<1>1. Len(q) \in Nat /\ Bytes(q) \in Nat
  BY BytesOrder
<1>2. 0 \in T
  <2>1. r(0) = q
    BY <1>1
  <2>2. Len(q) = Len(q) - 0 /\ Bytes(q) <= Bytes(q)
    BY <1>1
  <2> HIDE DEF r
  <2>3. QED BY <2>1, <2>2
<1>3. ASSUME NEW i \in T PROVE i + 1 \in T
  <2>1. SUFFICES ASSUME i + 1 <= Len(q)
                 PROVE  /\ r(i + 1) \in Seq(Buffer) /\ Len(r(i + 1)) = Len(q) - (i + 1)
                        /\ Bytes(r(i + 1)) <= Bytes(q)
    OBVIOUS
  <2>2. i \in Nat /\ r(i) \in Seq(Buffer) /\ Len(r(i)) = Len(q) - i /\ Bytes(r(i)) <= Bytes(q)
    BY <1>1, <2>1
  <2>3. r(i + 1) = Tail(r(i))
    BY <1>1, <2>1, <2>2, SMTT(30)
  <2> HIDE DEF r, T
  <2>4. r(i) # <<>> /\ Tail(r(i)) \in Seq(Buffer) /\ Len(Tail(r(i))) = Len(r(i)) - 1
    BY <1>1, <2>1, <2>2
  <2>5. /\ Bytes(r(i)) \in Nat /\ Bytes(Tail(r(i))) \in Nat /\ Head(r(i)).size \in Nat
        /\ Bytes(r(i)) = Head(r(i)).size + Bytes(Tail(r(i)))
    BY <2>2, <2>4, BytesFirst
  <2>6. Bytes(Tail(r(i))) <= Bytes(q)
    BY <1>1, <2>2, <2>5
  <2>7. Len(Tail(r(i))) = Len(q) - (i + 1)
    BY <1>1, <2>2, <2>4
  <2>8. QED BY <2>3, <2>4, <2>6, <2>7
<1> HIDE DEF r
<1>4. k \in T
  BY <1>2, <1>3, NatSetInduction
<1>5. r(k) \in Seq(Buffer) /\ Bytes(r(k)) <= Bytes(q)
  BY <1>4
<1>6. QED BY <1>5 DEF r

LEMMA Times ==
  ASSUME NEW m \in Nat, NEW a \in Nat, NEW b \in Nat
  PROVE  /\ m * a \in Nat /\ m * (a + 1) = m * a + m
         /\ a <= b => m * a <= m * b
<1>1. m * a \in Nat
  OBVIOUS
<1>2. m * (a + 1) = m * a + m
  OBVIOUS
<1>3. ASSUME a <= b PROVE m * a <= m * b
  <2>1. PICK d \in Nat : b = a + d
    <3>1. b - a \in Nat /\ b = a + (b - a)
      BY <1>3
    <3>2. QED BY <3>1
  <2>2. m * (a + d) = m * a + m * d
    OBVIOUS
  <2>3. m * d \in Nat
    OBVIOUS
  <2>4. QED BY <1>1, <2>1, <2>2, <2>3
<1>4. QED BY <1>1, <1>2, <1>3

LEMMA SizeOfBuffer == ASSUME NEW b \in Buffer PROVE b.size \in Sizes /\ b.size \in Nat
BY BoundAssumption DEF BoundAssumption, Buffer

LEMMA PushSized ==
  ASSUME IInv, SizeAccounting, NEW p \in Producers, NEW q \in Seq(Buffer), Push(p, q),
         ppc[p] \in {"enter", "ratewait", "relock"}, RLimit' = RLimit,
         Bytes(q) <= Bytes(queue), q = queue \/ RLimit = "DROP"
  PROVE  SizeAccounting'
<1> DEFINE b == Head(call[p].todo)
<1>1. b \in Buffer /\ bufSize \in Int
  BY DEF IInv, InCall, TypeOK, Call
<1>2. b.size \in Nat
  BY <1>1, SizeOfBuffer
<1>3. \/ queue' = Append(q, b) /\ bufSize' = bufSize + b.size
      \/ queue' = q /\ bufSize' = bufSize
  BY Zenon DEF Push, Handed
<1> HIDE DEF b
<1>4. Bytes(q) \in Nat /\ Bytes(queue) \in Nat /\ Bytes(Append(q, b)) = Bytes(q) + b.size
  BY <1>1, BytesOrder, BytesLast DEF IInv, TypeOK
<1>5. /\ bufSize >= Bytes(queue) /\ (RLimit # "DROP" => bufSize = Bytes(queue))
  BY DEF SizeAccounting
<1>6. CASE queue' = Append(q, b) /\ bufSize' = bufSize + b.size
  <2>1. Bytes(queue') = Bytes(q) + b.size
    BY <1>4, <1>6
  <2>2. bufSize' >= Bytes(queue') /\ (RLimit # "DROP" => bufSize' = Bytes(queue'))
    BY <1>1, <1>2, <1>4, <1>5, <1>6, <2>1
  <2>3. QED BY <2>2 DEF SizeAccounting
<1>7. CASE queue' = q /\ bufSize' = bufSize
  <2>1. bufSize' >= Bytes(queue') /\ (RLimit # "DROP" => bufSize' = Bytes(queue'))
    BY <1>1, <1>4, <1>5, <1>7
  <2>2. QED BY <2>1 DEF SizeAccounting
<1>8. QED BY <1>3, <1>6, <1>7

LEMMA EvictBytes ==
  ASSUME setup \in Setups, NEW q \in Seq(Buffer)
  PROVE  Bytes(Evict(q)) <= Bytes(q)
<1>1. LimitCount \in Nat \ {0} /\ Len(q) \in Nat /\ Bytes(q) \in Nat
  BY SetupTyped, BytesOrder
<1>2. CASE Len(q) < LimitCount
  BY <1>1, <1>2 DEF Evict
<1>3. CASE ~(Len(q) < LimitCount)
  <2> DEFINE k == Len(q) - LimitCount + 1
  <2>1. k \in Nat /\ k <= Len(q) /\ k + 1 = Len(q) - LimitCount + 2
    BY <1>1, <1>3
  <2> HIDE DEF k
  <2>2. Evict(q) = SubSeq(q, k + 1, Len(q))
    BY <1>3, <2>1, Zenon DEF Evict
  <2>3. QED BY <2>1, <2>2, BytesDropped
<1>4. QED BY <1>2, <1>3

\* The bytes of the queue are what bufSize says.
LEMMA NextSized ==
  ASSUME IInv, SizeAccounting, [Next]_vars
  PROVE  SizeAccounting'
<1>0. RLimit' = RLimit
  BY SetupStays
<1>1. /\ setup \in Setups /\ queue \in Seq(Buffer) /\ bufSize \in Int /\ Bytes(queue) \in Nat
      /\ setup.sizes \subseteq Sizes
  BY BytesOrder, SetupTyped DEF IInv, TypeOK
<1>2. bufSize >= Bytes(queue) /\ (RLimit # "DROP" => bufSize = Bytes(queue))
  BY DEF SizeAccounting
<1>3. ASSUME UNCHANGED <<queue, bufSize>> PROVE SizeAccounting'
  BY <1>0, <1>2, <1>3 DEF SizeAccounting
<1>4. ASSUME NEW p \in Producers, AddEnter(p) PROVE SizeAccounting'
  <2>1. ppc[p] = "enter"
    BY <1>4 DEF AddEnter
  <2>2. CASE Push(p, queue)
    BY <1>0, <1>1, <2>1, <2>2, PushSized
  <2>3. CASE RLimit = "DROP" /\ Push(p, Evict(queue))
    <3>1. Evict(queue) \in Seq(Buffer) /\ Bytes(Evict(queue)) <= Bytes(queue)
      BY <1>1, EvictProperties, EvictBytes
    <3>2. QED BY <1>0, <2>1, <2>3, <3>1, PushSized
  <2>4. QED BY <1>3, <1>4, <2>2, <2>3, Zenon DEF AddEnter
<1>5. ASSUME NEW p \in Producers, AddRetry(p) \/ AddRelock(p) PROVE SizeAccounting'
  <2>1. ppc[p] \in {"ratewait", "relock"} /\ Push(p, queue)
    BY <1>5 DEF AddRetry, AddRelock
  <2>2. QED BY <1>0, <1>1, <2>1, PushSized
<1>6. ASSUME NEW p \in Producers, Prepend(p) PROVE SizeAccounting'
  <2>1. PICK sz \in setup.sizes \ {0} :
          /\ queue' = <<[by |-> p, no |-> sent[p] + 1, size |-> sz]>> \o queue
          /\ bufSize' = bufSize + sz
    BY <1>6, Zenon DEF Prepend
  <2> DEFINE b == [by |-> p, no |-> sent[p] + 1, size |-> sz]
  <2>2. b \in Buffer /\ b.size = sz
    BY <1>1, <1>6, BoundAssumption DEF BoundAssumption, Prepend, IInv, TypeOK, Buffer
  <2>3. queue' = <<b>> \o queue
    BY <2>1
  <2> HIDE DEF b
  <2>4. Bytes(queue') = b.size + Bytes(queue) /\ b.size \in Nat
    BY <1>1, <2>2, <2>3, BytesFront, SizeOfBuffer
  <2>5. bufSize' >= Bytes(queue') /\ (RLimit # "DROP" => bufSize' = Bytes(queue'))
    BY <1>1, <1>2, <2>1, <2>2, <2>4
  <2>6. QED BY <1>0, <2>5 DEF SizeAccounting
<1>7. ASSUME NEW c \in Consumers, GetTake(c) PROVE SizeAccounting'
  <2>1. CASE queue # <<>>
    <3>1. queue' = Tail(queue) /\ bufSize' = bufSize - Head(queue).size
      BY <1>7, <2>1, Zenon DEF GetTake
    <3>2. /\ Bytes(Tail(queue)) \in Nat /\ Head(queue).size \in Nat
          /\ Bytes(queue) = Head(queue).size + Bytes(Tail(queue))
      BY <1>1, <2>1, BytesFirst
    <3>3. bufSize' >= Bytes(queue') /\ (RLimit # "DROP" => bufSize' = Bytes(queue'))
      BY <1>1, <1>2, <3>1, <3>2
    <3>4. QED BY <1>0, <3>3 DEF SizeAccounting
  <2>2. CASE queue = <<>>
    <3>1. UNCHANGED <<queue, bufSize>>
      BY <1>7, <2>2 DEF GetTake
    <3>2. QED BY <1>3, <3>1
  <2>3. QED BY <2>1, <2>2
<1>8. ASSUME CtlClearAcquire PROVE SizeAccounting'
  <2>1. queue' = <<>> /\ bufSize' = 0
    BY <1>8 DEF CtlClearAcquire
  <2>2. Bytes(queue') = 0
    BY <2>1, BytesEmpty
  <2>3. bufSize' >= Bytes(queue') /\ bufSize' = Bytes(queue')
    BY <2>1, <2>2
  <2>4. QED BY <2>3 DEF SizeAccounting
<1>9. CASE Controller
  <2>1. CtlClearAcquire \/ UNCHANGED <<queue, bufSize>>
    BY <1>9 DEF Controller, CtlStart, CtlGo, CtlJoin, CtlStop, CtlClearRead, CtlStopRelease, WakeUp
  <2>2. QED BY <1>3, <1>8, <2>1
<1>10. CASE \E p \in Producers : CallQueue(p) \/ AddBuffer(p)
  <2>1. PICK p \in Producers : CallQueue(p) \/ AddBuffer(p)
    BY <1>10
  <2>2. \/ AddEnter(p) \/ AddRetry(p) \/ AddRelock(p) \/ Prepend(p)
        \/ UNCHANGED <<queue, bufSize>>
    BY <2>1 DEF CallQueue, AddBuffer, CallAdd, WaitEnter, WaitTest, AddRefused, AddWaited,
                AddRelease, Release
  <2>3. QED BY <1>3, <1>4, <1>5, <1>6, <2>2
<1>11. CASE \E c \in Consumers : GetBuffer(c)
  <2>1. PICK c \in Consumers : GetBuffer(c)
    BY <1>11
  <2>2. GetTake(c) \/ UNCHANGED <<queue, bufSize>>
    BY <2>1 DEF GetBuffer, GetEnter, GetAcquire, GetAcquireAny, GetRecheck
  <2>3. QED BY <1>3, <1>7, <2>2
<1>12. CASE UNCHANGED vars
  BY <1>3, <1>12 DEF vars
<1>13. QED BY <1>9, <1>10, <1>11, <1>12 DEF Next

\* The producers that may still be kept out: those that have not passed the size test
\* and wait for the mutex.
Free == Cardinality({p \in Producers : ppc[p] # "relock"})

\* Each producer past the test adds one buffer at most.
RoomFor(m) == bufSize <= LimitTotal + m * Free

Room == RLimit = "TOTAL" /\ setup.prepending = {} =>
          \A m \in Sizes : (\A s \in Sizes : s <= m) => RoomFor(m)

LEMMA FreeChange ==
  /\ Free \in Nat /\ Free <= Cardinality(Producers) /\ Cardinality(Producers) \in Nat
  /\ (\A r \in Producers : ppc'[r] = "relock" => ppc[r] = "relock")
       => Free' \in Nat /\ Free <= Free'
  /\ \A p \in Producers :
       /\ ppc[p] = "relock" /\ ppc'[p] # "relock"
       /\ \A r \in Producers : r # p => ppc'[r] = ppc[r]
       => Free' = Free + 1
<1> DEFINE S == {p \in Producers : ppc[p] # "relock"}
           R == {p \in Producers : ppc'[p] # "relock"}
<1>1. /\ IsFiniteSet(S) /\ IsFiniteSet(R) /\ IsFiniteSet(Producers)
      /\ Cardinality(S) \in Nat /\ Cardinality(R) \in Nat /\ Cardinality(Producers) \in Nat
      /\ Cardinality(S) <= Cardinality(Producers)
  BY ThreadAssumption, FS_Subset, FS_CardinalityType DEF ThreadAssumption
<1>2. Free = Cardinality(S) /\ Free' = Cardinality(R)
  BY DEF Free
<1>3. ASSUME \A r \in Producers : ppc'[r] = "relock" => ppc[r] = "relock"
      PROVE  Cardinality(S) <= Cardinality(R)
  <2>1. S \subseteq R
    BY <1>3
  <2>2. QED BY <1>1, <2>1, FS_Subset
<1>4. ASSUME NEW p \in Producers, ppc[p] = "relock", ppc'[p] # "relock",
             \A r \in Producers : r # p => ppc'[r] = ppc[r]
      PROVE  Cardinality(R) = Cardinality(S) + 1
  <2>1. R = S \cup {p} /\ p \notin S
    BY <1>4
  <2> HIDE DEF R, S
  <2>2. QED BY <1>1, <2>1, FS_AddElement
<1> HIDE DEF S, R
<1>5. QED BY <1>1, <1>2, <1>3, <1>4

LEMMA NextRoom ==
  ASSUME IInv, SizeAccounting, Room, [Next]_vars
  PROVE  Room'
<1>0. RLimit' = RLimit /\ setup' = setup /\ LimitTotal' = LimitTotal
  BY SetupStays DEF LimitTotal
<1>1. SUFFICES ASSUME RLimit = "TOTAL", setup.prepending = {},
                      NEW m \in Sizes, \A s \in Sizes : s <= m
               PROVE  RoomFor(m)'
  BY <1>0 DEF Room
<1>2. /\ setup \in Setups /\ queue \in Seq(Buffer) /\ bufSize \in Int /\ bufSize >= 0
      /\ ppc \in [Producers -> {"idle", "enter", "ratewait", "relock", "release",
                              "wait", "asleep"}]
      /\ m \in Nat /\ LimitTotal \in Nat /\ Free \in Nat
  <2>1. bufSize \in Int /\ queue \in Seq(Buffer) /\ setup \in Setups
    BY DEF IInv, TypeOK
  <2>2. bufSize >= Bytes(queue) /\ Bytes(queue) \in Nat
    BY <2>1, BytesOrder DEF SizeAccounting
  <2>3. m \in Nat /\ LimitTotal \in Nat
    BY <2>1, BoundAssumption, SetupAssumption
       DEF BoundAssumption, SetupAssumption, Setup, LimitTotal
  <2>4. QED BY <2>1, <2>2, <2>3, FreeChange DEF IInv, TypeOK
<1>3. bufSize <= LimitTotal + m * Free
  BY <1>1 DEF Room, RoomFor
\* Nobody passes the test and the queue does not grow.
<1>4. ASSUME bufSize' \in Int, bufSize' <= bufSize,
             \A r \in Producers : ppc'[r] = "relock" => ppc[r] = "relock"
      PROVE  RoomFor(m)'
  <2>1. Free' \in Nat /\ Free <= Free'
    BY <1>4, FreeChange
  <2>2. m * Free <= m * Free' /\ m * Free \in Nat /\ m * Free' \in Nat
    BY <1>2, <2>1, Times
  <2>3. bufSize' <= LimitTotal + m * Free'
    BY <1>2, <1>3, <1>4, <2>2
  <2>4. QED BY <1>0, <2>3 DEF RoomFor
<1>5. ASSUME NEW p \in Producers, AddWaited(p) PROVE RoomFor(m)'
  <2>1. bufSize' = bufSize /\ bufSize <= LimitTotal
    BY <1>1, <1>5 DEF AddWaited
  <2>2. Free' \in Nat
    <3>1. (Free \in Nat)'
      BY FreeChange, PTL
    <3>2. QED BY <3>1
  <2>3. m * Free' \in Nat
    BY <1>2, <2>2, Times
  <2>4. bufSize' <= LimitTotal + m * Free'
    BY <1>2, <2>1, <2>3
  <2>5. QED BY <1>0, <2>4 DEF RoomFor
<1>6. ASSUME NEW p \in Producers, AddRelock(p) PROVE RoomFor(m)'
  <2> DEFINE b == Head(call[p].todo)
  <2>1. b \in Buffer
    BY <1>6 DEF AddRelock, IInv, InCall, TypeOK, Call
  <2>2. b.size \in Nat /\ b.size <= m
    BY <1>1, <2>1, SizeOfBuffer
  <2>3. bufSize' = bufSize + b.size \/ bufSize' = bufSize
    BY <1>6, Zenon DEF AddRelock, Push, Handed
  <2>4. /\ ppc[p] = "relock" /\ ppc'[p] # "relock"
        /\ \A r \in Producers : r # p => ppc'[r] = ppc[r]
    <3>1. \E l \in {"enter", "release"} : ppc' = [ppc EXCEPT ![p] = l]
      BY <1>6 DEF AddRelock, Push, Handed
    <3>2. ppc[p] = "relock"
      BY <1>6 DEF AddRelock
    <3>3. QED BY <1>2, <3>1, <3>2
  <2> HIDE DEF b
  <2>5. Free' = Free + 1
    BY <2>4, FreeChange
  <2>6. m * Free' = m * Free + m /\ m * Free \in Nat
    BY <1>2, <2>5, Times
  <2>7. bufSize' <= LimitTotal + m * Free'
    BY <1>2, <1>3, <2>2, <2>3, <2>6
  <2>8. QED BY <1>0, <2>7 DEF RoomFor
<1>7. CASE Controller
  <2>1. bufSize' \in {bufSize, 0} /\ ppc' = ppc
    BY <1>7 DEF Controller, CtlStart, CtlGo, CtlJoin, CtlStop, CtlClearRead,
                CtlClearAcquire, CtlStopRelease, WakeUp, prodVars
  <2>2. QED BY <1>2, <1>4, <2>1
<1>8. CASE \E p \in Producers : CallQueue(p) \/ AddBuffer(p)
  <2>1. PICK p \in Producers : CallQueue(p) \/ AddBuffer(p)
    BY <1>8
  <2>2. ~Prepend(p) /\ ~AddRetry(p)
    BY <1>1 DEF Prepend, AddRetry
  <2>3. CASE \/ CallAdd(p) \/ WaitEnter(p) \/ WaitTest(p) \/ AddRefused(p) \/ AddRelease(p)
    <3>1. /\ bufSize' = bufSize
          /\ \E l \in {"enter", "wait", "asleep", "idle"} : ppc' = [ppc EXCEPT ![p] = l]
      <4>1. CASE CallAdd(p)
        BY <4>1, Zenon DEF CallAdd
      <4>2. CASE WaitEnter(p) \/ WaitTest(p) \/ AddRefused(p) \/ AddRelease(p)
        BY <4>2 DEF WaitEnter, WaitTest, AddRefused, AddRelease, Release
      <4>3. QED BY <2>3, <4>1, <4>2
    <3>2. \A r \in Producers : ppc'[r] = "relock" => ppc[r] = "relock"
      BY <1>2, <3>1
    <3>3. QED BY <1>2, <1>4, <3>1, <3>2
  <2>4. CASE AddEnter(p)
    <3>1. bufSize' = bufSize /\ ppc' = [ppc EXCEPT ![p] = "ratewait"]
      BY <1>1, <2>4, Zenon DEF AddEnter
    <3>2. \A r \in Producers : ppc'[r] = "relock" => ppc[r] = "relock"
      BY <1>2, <3>1
    <3>3. QED BY <1>2, <1>4, <3>1, <3>2
  <2>5. QED BY <1>5, <1>6, <2>1, <2>2, <2>3, <2>4 DEF CallQueue, AddBuffer
<1>9. CASE \E c \in Consumers : GetBuffer(c)
  <2>1. PICK c \in Consumers : GetBuffer(c)
    BY <1>9
  <2>2. ppc' = ppc
    BY <2>1 DEF GetBuffer, GetEnter, GetAcquire, GetAcquireAny, GetRecheck, GetTake, prodVars
  <2>3. bufSize' \in Int /\ bufSize' <= bufSize
    <3>1. CASE queue # <<>> /\ bufSize' = bufSize - Head(queue).size
      <4>1. Head(queue).size \in Nat
        BY <1>2, <3>1, BytesFirst
      <4>2. QED BY <1>2, <3>1, <4>1
    <3>2. CASE bufSize' = bufSize
      BY <1>2, <3>2
    <3>3. QED BY <2>1, <3>1, <3>2
              DEF GetBuffer, GetEnter, GetAcquire, GetAcquireAny, GetRecheck, GetTake
  <2>4. QED BY <1>4, <2>2, <2>3
<1>10. CASE UNCHANGED vars
  BY <1>2, <1>4, <1>10 DEF vars, prodVars
<1>11. QED BY <1>7, <1>8, <1>9, <1>10 DEF Next

\* getTotalSize() is the number of queued bytes, and the total size limit, which is
\* tested without the mutex, is exceeded by one buffer of each producer at most.
THEOREM TotalBounded == Spec => []TotalBound
<1> DEFINE Inv == IInv /\ SizeAccounting /\ Room
<1>1. Init => Inv
  <2> SUFFICES ASSUME Init PROVE Inv
    OBVIOUS
  <2>1. IInv
    BY InitIInv
  <2>2. bufSize = 0 /\ Bytes(queue) = 0
    BY BytesEmpty DEF Init
  <2>3. SizeAccounting
    BY <2>2 DEF SizeAccounting
  <2>4. ASSUME NEW m \in Sizes PROVE RoomFor(m)
    <3>1. m \in Nat /\ LimitTotal \in Nat
      BY <2>1, BoundAssumption, SetupAssumption
         DEF BoundAssumption, SetupAssumption, Setup, LimitTotal, IInv, TypeOK
    <3>2. m * Free \in Nat
      BY <3>1, FreeChange, Times
    <3>3. QED BY <2>2, <3>1, <3>2 DEF RoomFor
  <2>5. QED BY <2>1, <2>3, <2>4 DEF Room
<1>2. Inv /\ [Next]_vars => Inv'
  BY NextIInv, NextSized, NextRoom
<1>3. Inv => TotalBound
  <2>1. SUFFICES ASSUME Inv, RLimit = "TOTAL", setup.prepending = {},
                        NEW m \in Sizes, \A s \in Sizes : s <= m
                 PROVE  bufSize <= LimitTotal + m * Cardinality(Producers)
    BY DEF TotalBound
  <2>2. bufSize <= LimitTotal + m * Free
    BY <2>1 DEF Room, RoomFor
  <2>3. m \in Nat /\ LimitTotal \in Nat /\ bufSize \in Int
    BY <2>1, BoundAssumption, SetupAssumption
       DEF BoundAssumption, SetupAssumption, Setup, LimitTotal, IInv, TypeOK
  <2>4. Free \in Nat /\ Free <= Cardinality(Producers) /\ Cardinality(Producers) \in Nat
    BY FreeChange
  <2>5. /\ m * Free <= m * Cardinality(Producers)
        /\ m * Free \in Nat /\ m * Cardinality(Producers) \in Nat
    BY <2>3, <2>4, Times
  <2>6. QED BY <2>2, <2>3, <2>5
<1>4. QED BY <1>1, <1>2, <1>3, PTL DEF Spec
=============================================================================
