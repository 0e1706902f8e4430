------------------ MODULE JobDistributorElement_proofs ------------------
(* Theorems about JobDistributorElement, for every value of its constants. *)
EXTENDS JobDistributorElement, FoldTheorems, SequenceTheorems

\* A handler has a buffer to see to: the permit for it is there, or was taken.
Pending(h) ==
  \/ wsem[h] = 1 /\ hpc[h] \in {"off", "begin", "sleep", "unmark"}
  \/ wsem[h] = 0 /\ hpc[h] \in {"check", "work", "finish"}

\* ... and has not worked on it yet.
Undone(h) ==
  \/ wsem[h] = 1 /\ hpc[h] \in {"off", "begin", "sleep", "unmark"}
  \/ wsem[h] = 0 /\ hpc[h] \in {"check", "work"}

\* The table holds numbers of buffers that were handed over.
Handing ==
  /\ IsFiniteSet(DOMAIN busy) /\ DOMAIN busy \subseteq {No(b) : b \in 1..Handed}
  /\ Handed \in 0..Len(setup.nos)

\* Each method keeps to its own states, and no thread is told to end but by stop().
Phases ==
  /\ stopping => Calls("stop")
  /\ NeverStopped => ~stopping /\ ~ending
  /\ Sequential => ppc \in {"off", "idle", "take"}
  /\ ~Sequential => ppc # "take" /\ held = {} /\ DOMAIN busy = {}
  /\ held # {} => ppc = "take"
  /\ \A g, h \in held : g = h

Linked == Handing /\ Phases

\* Every handler is free, held or in the table.
Known == Range(free) \cup held \cup {busy[n] : n \in DOMAIN busy}
Covers == Distinct => Handlers \subseteq Known

\* Without a stop(), and with a number for each buffer, a handler is free, once, or
\* has one buffer, which the table knows by its number.
FreeOnce == IsInjective(free) /\ held \cap Range(free) = {}
FreeIdle == \A h \in Handlers : h \in Range(free) \cup held <=> ~Pending(h)
Tabled ==
  /\ \A h \in Handlers : Pending(h) => /\ cur[h] \in 1..Handed
                                       /\ No(cur[h]) \in DOMAIN busy /\ busy[No(cur[h])] = h
  /\ \A n \in DOMAIN busy : Pending(busy[n]) /\ n = No(cur[busy[n]])
Permits == \A h \in Handlers :
             /\ wsem[h] \in {0, 1}
             /\ hpc[h] \in {"check", "work", "finish"} => wsem[h] = 0
             /\ hpc[h] \notin {"off", "begin"} => active[h]
Tidy == Once => FreeOnce /\ FreeIdle /\ Tabled /\ Permits

\* What the history holds.
Entry == [by : Handlers, buf : Bufs]
Logged == done \in Seq(Entry)

\* The buffers that were handed over and not worked on are those of handlers.
Unworked == {h \in Handlers : Undone(h)}
Worked ==
  Once => /\ \A i \in DOMAIN done : done[i].buf \in 1..Handed
          /\ \A h \in Handlers : Undone(h) => \A i \in DOMAIN done : done[i].buf # cur[h]
          /\ Handed - Len(done) = Cardinality(Unworked)

-----------------------------------------------------------------------------
(* Sequences and tables *)

LEMMA CountNat ==
  ASSUME NEW S, NEW s \in Seq(S), NEW h
  PROVE  Count(h, s) \in Nat
<1>1. Len(s) \in Nat /\ DOMAIN s = 1..Len(s)
  OBVIOUS
<1>2. IsFiniteSet(1..Len(s))
  BY <1>1, FS_Interval
<1>3. {i \in DOMAIN s : s[i] = h} \in SUBSET (1..Len(s))
  BY <1>1
<1>4. IsFiniteSet({i \in DOMAIN s : s[i] = h})
  BY <1>2, <1>3, FS_Subset
<1>5. QED BY <1>4, FS_CardinalityType DEF Count

LEMMA RangeMoves ==
  ASSUME NEW S, NEW s \in Seq(S), NEW e \in S
  PROVE  /\ Range(Append(s, e)) = Range(s) \cup {e}
         /\ s # <<>> => /\ Head(s) \in S /\ Tail(s) \in Seq(S)
                        /\ Range(s) = Range(Tail(s)) \cup {Head(s)}
<1>1. Range(Append(s, e)) = Range(s) \cup {e}
  <2>1. /\ Len(s) \in Nat /\ DOMAIN s = 1..Len(s)
        /\ DOMAIN Append(s, e) = 1..(Len(s) + 1) /\ Append(s, e)[Len(s) + 1] = e
        /\ \A i \in 1..Len(s) : Append(s, e)[i] = s[i]
    OBVIOUS
  <2>2. /\ \A i \in 1..Len(s) : i \in 1..(Len(s) + 1)
        /\ \A i \in 1..(Len(s) + 1) : i = Len(s) + 1 \/ i \in 1..Len(s)
        /\ Len(s) + 1 \in 1..(Len(s) + 1)
    BY <2>1
  <2>3. Range(s) \cup {e} \subseteq Range(Append(s, e))
    BY <2>1, <2>2, Zenon DEF Range
  <2>4. Range(Append(s, e)) \subseteq Range(s) \cup {e}
    BY <2>1, <2>2, Zenon DEF Range
  <2>5. QED BY <2>3, <2>4
<1>2. ASSUME s # <<>>
      PROVE  /\ Head(s) \in S /\ Tail(s) \in Seq(S)
             /\ Range(s) = Range(Tail(s)) \cup {Head(s)}
  <2>1. Head(s) \in S /\ Tail(s) \in Seq(S) /\ Len(s) \in Nat \ {0}
    BY <1>2
  <2>2. Head(s) = s[1] /\ Len(Tail(s)) = Len(s) - 1
        /\ \A i \in 1..Len(Tail(s)) : Tail(s)[i] = s[i + 1]
    BY <1>2
  <2>3. Range(Tail(s)) \cup {Head(s)} \subseteq Range(s)
    BY <2>1, <2>2 DEF Range
  <2>4. ASSUME NEW i \in DOMAIN s PROVE s[i] \in Range(Tail(s)) \cup {Head(s)}
    <3>1. i \in 1..Len(s)
      OBVIOUS
    <3>2. CASE i = 1
      BY <2>2, <3>2
    <3>3. CASE i # 1
      <4>1. i - 1 \in 1..Len(Tail(s)) /\ s[i] = Tail(s)[i - 1]
        BY <2>1, <2>2, <3>1, <3>3
      <4>2. DOMAIN Tail(s) = 1..Len(Tail(s))
        BY <2>1
      <4>3. QED BY <4>1, <4>2 DEF Range
    <3>4. QED BY <3>2, <3>3
  <2>5. QED BY <2>1, <2>3, <2>4 DEF Range
<1>3. QED BY <1>1, <1>2

LEMMA OnceMoves ==
  ASSUME NEW S, NEW s \in Seq(S), NEW e \in S, IsInjective(s)
  PROVE  /\ e \notin Range(s) => IsInjective(Append(s, e))
         /\ s # <<>> => /\ IsInjective(Tail(s)) /\ Head(s) \notin Range(Tail(s))
<1>1. DOMAIN s = 1..Len(s) /\ Len(s) \in Nat
  OBVIOUS
<1>2. ASSUME e \notin Range(s) PROVE IsInjective(Append(s, e))
  <2> DEFINE a == Append(s, e)
  <2>1. DOMAIN a = 1..Len(s) + 1 /\ a[Len(s) + 1] = e /\ \A i \in 1..Len(s) : a[i] = s[i]
    BY <1>1
  <2>2. \A i \in 1..Len(s) : a[i] # e
    BY <1>1, <1>2, <2>1 DEF Range
  <2> HIDE DEF a
  <2>3. ASSUME NEW i \in DOMAIN a, NEW j \in DOMAIN a, a[i] = a[j] PROVE i = j
    <3>1. CASE i \in 1..Len(s) /\ j \in 1..Len(s)
      BY <1>1, <2>1, <2>3, <3>1 DEF IsInjective
    <3>2. CASE ~(i \in 1..Len(s) /\ j \in 1..Len(s))
      BY <1>1, <2>1, <2>2, <2>3, <3>2
    <3>3. QED BY <3>1, <3>2
  <2>4. IsInjective(a)
    BY <2>3 DEF IsInjective
  <2>5. QED BY <2>4 DEF a
<1>3. ASSUME s # <<>> PROVE IsInjective(Tail(s)) /\ Head(s) \notin Range(Tail(s))
  <2> DEFINE t == Tail(s)
  <2>1. Head(s) = s[1] /\ DOMAIN t = 1..Len(s) - 1 /\ 1 \in DOMAIN s
        /\ \A i \in 1..Len(s) - 1 : t[i] = s[i + 1] /\ i + 1 \in DOMAIN s
    BY <1>1, <1>3
  <2> HIDE DEF t
  <2>2. ASSUME NEW i \in DOMAIN t, NEW j \in DOMAIN t, t[i] = t[j] PROVE i = j
    <3>1. s[i + 1] = s[j + 1] /\ i + 1 \in DOMAIN s /\ j + 1 \in DOMAIN s
      BY <2>1, <2>2
    <3>2. i + 1 = j + 1
      BY <3>1 DEF IsInjective
    <3>3. QED BY <1>1, <2>1, <3>2
  <2>3. ASSUME NEW i \in DOMAIN t, t[i] = Head(s) PROVE FALSE
    <3>1. s[i + 1] = s[1] /\ i + 1 \in DOMAIN s /\ 1 \in DOMAIN s
      BY <2>1, <2>3
    <3>2. i + 1 = 1
      BY <3>1 DEF IsInjective
    <3>3. QED BY <1>1, <2>1, <3>2
  <2>4. IsInjective(t) /\ Head(s) \notin Range(t)
    BY <2>2, <2>3 DEF IsInjective, Range
  <2>5. QED BY <2>4 DEF t
<1>4. QED BY <1>2, <1>3

-----------------------------------------------------------------------------
(* Types *)

LEMMA DistFacts ==
  /\ IsFiniteSet(Handlers) /\ Handlers # {} /\ MaxBuffers \in Nat
  /\ \A s \in Setups : /\ s.nos \in Seq(Int) /\ Len(s.nos) \in 0..MaxBuffers
                       /\ s.method \in {"SEQUENTIAL", "ALL"}
                       /\ s.script \in Seq({"start", "stop"})
<1>1. IsFiniteSet(Handlers) /\ Handlers # {} /\ MaxBuffers \in Nat
  BY DistAssumption DEF DistAssumption
<1>2. ASSUME NEW s \in Setups
      PROVE  /\ s.nos \in Seq(Int) /\ Len(s.nos) \in 0..MaxBuffers
             /\ s.method \in {"SEQUENTIAL", "ALL"} /\ s.script \in Seq({"start", "stop"})
  <2>1. s \in Setup /\ Len(s.nos) <= MaxBuffers
    BY DistAssumption DEF DistAssumption
  <2>2. s.nos \in Seq(Int) /\ s.method \in {"SEQUENTIAL", "ALL"} /\ s.script \in Seq({"start", "stop"})
    BY <2>1 DEF Setup
  <2>3. Len(s.nos) \in Nat
    BY <2>2
  <2>4. QED BY <1>1, <2>1, <2>2, <2>3
<1>3. QED BY <1>1, <1>2

\* The parts of TypeOK.
CtlOK == /\ at \in 0..Len(setup.script) /\ vals \in Seq(Handlers)
         /\ stopping \in BOOLEAN /\ ending \in BOOLEAN /\ exit \in BOOLEAN
PipeOK == /\ ppc \in {"off", "idle", "take", "give", "wait"} /\ buf \in 0..Len(setup.nos)
          /\ index \in Nat \ {0} /\ held \subseteq Handlers
TablesOK == free \in Seq(Handlers) /\ \A n \in DOMAIN busy : busy[n] \in Handlers
HandOK ==
  /\ hpc \in [Handlers -> {"off", "begin", "sleep", "check", "work", "finish", "unmark"}]
  /\ flag \in [Handlers -> BOOLEAN] /\ active \in [Handlers -> BOOLEAN]
  /\ wsem \in [Handlers -> Nat] /\ cur \in [Handlers -> 0..buf] /\ early \in BOOLEAN
RedOK == rpc \in {"off", "begin", "on"} /\ rq \in Seq(Bufs) /\ out \in Seq(Bufs)

LEMMA Parts == TypeOK <=> setup \in Setups /\ CtlOK /\ PipeOK /\ TablesOK /\ HandOK /\ RedOK
BY DEF TypeOK, CtlOK, PipeOK, TablesOK, HandOK, RedOK

LEMMA InitTyped == Init => TypeOK
<1> SUFFICES ASSUME Init PROVE TypeOK
  OBVIOUS
<1>1. setup \in Setups /\ setup.nos \in Seq(Int) /\ setup.script \in Seq({"start", "stop"})
  BY DistFacts DEF Init
<1>2. Len(setup.nos) \in Nat /\ Len(setup.script) \in Nat
  BY <1>1
<1>3. CtlOK
  <2>1. at \in 0..Len(setup.script) /\ vals \in Seq(Handlers)
    BY <1>2 DEF Init
  <2>2. stopping \in BOOLEAN /\ ending \in BOOLEAN /\ exit \in BOOLEAN
    BY Zenon DEF Init
  <2>3. QED BY <2>1, <2>2 DEF CtlOK
<1>4. PipeOK
  BY <1>2 DEF Init, PipeOK
<1>5. TablesOK
  BY DistFacts, SetInSeq DEF Init, TablesOK
<1>6. HandOK
  <2>1. cur \in [Handlers -> 0..buf] /\ wsem \in [Handlers -> Nat]
    BY DEF Init
  <2>2. active \in [Handlers -> BOOLEAN] /\ early \in BOOLEAN
    BY Zenon DEF Init
  <2>3. QED BY <2>1, <2>2 DEF Init, HandOK
<1>7. RedOK
  BY DEF Init, RedOK
<1>8. QED BY <1>1, <1>3, <1>4, <1>5, <1>6, <1>7, Parts

LEMMA GiveTyped ==
  ASSUME TypeOK, NEW h, Give(h), setup' = setup
  PROVE  HandOK' /\ RedOK' /\ CtlOK' /\ buf' = buf
<1>1. HandOK /\ RedOK /\ CtlOK /\ PipeOK
  BY Parts
<1>2. buf' = buf /\ RedOK' /\ CtlOK'
  BY <1>1 DEF Give, ctl, red, RedOK, CtlOK, Bufs
<1>3. buf \in 0..buf
  BY <1>1, DistFacts DEF PipeOK
<1>4. /\ flag' \in [Handlers -> BOOLEAN] /\ early' \in BOOLEAN
      /\ hpc' = hpc /\ active' = active
  <2>1. early' \in BOOLEAN
    BY <1>1, Zenon DEF Give, HandOK
  <2>2. flag' \in [Handlers -> BOOLEAN]
    BY <1>1, Zenon DEF Give, HandOK
  <2>3. QED BY <2>1, <2>2 DEF Give
<1>5. wsem' \in [Handlers -> Nat]
  <2>1. wsem \in [Handlers -> Nat] /\ wsem' = [wsem EXCEPT ![h] = @ + 1]
    BY <1>1 DEF Give, HandOK
  <2>2. h \in Handlers => wsem[h] + 1 \in Nat
    BY <2>1
  <2>3. QED BY <2>1, <2>2
<1>6. cur' \in [Handlers -> 0..buf]
  BY <1>1, <1>3 DEF Give, HandOK
<1>7. QED BY <1>1, <1>2, <1>4, <1>5, <1>6 DEF HandOK

LEMMA TypeStep == TypeOK /\ Linked /\ [Next]_vars => TypeOK'
<1> SUFFICES ASSUME TypeOK, Linked, [Next]_vars PROVE TypeOK'
  OBVIOUS
<1>0. TypeOK' <=> /\ setup' \in Setups /\ CtlOK' /\ PipeOK' /\ TablesOK'
                  /\ HandOK' /\ RedOK'
  BY DEF TypeOK, CtlOK, PipeOK, TablesOK, HandOK, RedOK
<1>1. setup \in Setups /\ CtlOK /\ PipeOK /\ TablesOK /\ HandOK /\ RedOK
  BY Parts
<1>2. setup.nos \in Seq(Int) /\ setup.script \in Seq({"start", "stop"})
      /\ Len(setup.nos) \in Nat /\ Len(setup.script) \in Nat
  BY <1>1, DistFacts
<1>3. setup' = setup /\ setup' \in Setups
  BY <1>1 DEF Next, Fixed, vars
<1> USE <1>2, <1>3
<1>4. CASE Arrives
  <2>1. CtlOK' /\ TablesOK' /\ RedOK'
    BY <1>1, <1>4 DEF Arrives, ctl, red, CtlOK, TablesOK, RedOK, Bufs
  <2>2. PipeOK'
    BY <1>1, <1>4 DEF Arrives, PipeOK
  <2>3. cur' = cur /\ 0..buf \subseteq 0..buf'
    BY <1>1, <1>4 DEF Arrives, hand, PipeOK
  <2>4. HandOK'
    BY <1>1, <1>4, <2>3 DEF Arrives, hand, HandOK
  <2>5. QED BY <1>3, <2>1, <2>2, <2>4, <1>0
<1>5. CASE PipeEnds
  <2>1. CtlOK' /\ TablesOK' /\ RedOK' /\ HandOK' /\ PipeOK'
    BY <1>1, <1>5 DEF PipeEnds, ctl, red, hand, CtlOK, TablesOK, RedOK, Bufs, HandOK, PipeOK
  <2>2. QED BY <1>3, <2>1, <1>0
<1>6. CASE TakeFree
  <2>1. Head(free) \in Handlers /\ Tail(free) \in Seq(Handlers)
    BY <1>1, <1>6 DEF TakeFree, TablesOK
  <2>2. CASE Give1(Head(free)) /\ UNCHANGED held
    <3>1. HandOK' /\ RedOK' /\ CtlOK' /\ buf' = buf
      BY <2>2, GiveTyped DEF Give1
    <3>2. TablesOK'
      BY <1>1, <1>6, <2>1, <2>2 DEF Give1, TakeFree, TablesOK, Put
    <3>3. PipeOK'
      BY <1>1, <2>2, <3>1 DEF Give1, PipeOK
    <3>4. QED BY <1>3, <3>1, <3>2, <3>3, <1>0
  <2>3. CASE ~(Give1(Head(free)) /\ UNCHANGED held)
    <3>1. held' = {Head(free)} /\ free' = Tail(free)
          /\ UNCHANGED <<ctl, ppc, buf, index, busy, hand, red, rq, done, early>>
      BY <1>6, <2>3 DEF TakeFree
    <3>2. TablesOK' /\ PipeOK'
      BY <1>1, <2>1, <3>1 DEF TablesOK, PipeOK
    <3>3. CtlOK' /\ RedOK' /\ HandOK'
      BY <1>1, <3>1 DEF ctl, red, hand, CtlOK, RedOK, HandOK, Bufs
    <3>4. QED BY <1>3, <3>2, <3>3, <1>0
  <2>4. QED BY <2>2, <2>3
<1>7. CASE TakeAgain
  <2>1. PICK h \in held : Give1(h)
    BY <1>7 DEF TakeAgain
  <2>2. h \in Handlers
    BY <1>1, <2>1 DEF PipeOK
  <2>3. HandOK' /\ RedOK' /\ CtlOK' /\ buf' = buf
    BY <2>1, GiveTyped DEF Give1
  <2>4. TablesOK'
    BY <1>1, <1>7, <2>1, <2>2 DEF Give1, TakeAgain, TablesOK, Put
  <2>5. PipeOK'
    BY <1>1, <1>7, <2>1, <2>3 DEF Give1, TakeAgain, PipeOK
  <2>6. QED BY <1>3, <2>3, <2>4, <2>5, <1>0
<1>8. CASE GiveAll
  <2>1. HandOK' /\ RedOK' /\ CtlOK' /\ buf' = buf
    BY <1>8, GiveTyped DEF GiveAll
  <2>2. TablesOK'
    BY <1>1, <1>8 DEF GiveAll, TablesOK
  <2>3. PipeOK'
    BY <1>1, <1>8, <2>1 DEF GiveAll, PipeOK
  <2>4. QED BY <1>3, <2>1, <2>2, <2>3, <1>0
<1>9. CASE WaitAll
  <2>1. PipeOK'
    BY <1>1, <1>9 DEF WaitAll, PipeOK
  <2>2. CtlOK' /\ TablesOK' /\ RedOK' /\ HandOK'
    BY <1>1, <1>9 DEF WaitAll, ctl, red, hand, CtlOK, TablesOK, RedOK, Bufs, HandOK
  <2>3. QED BY <1>3, <2>1, <2>2, <1>0
<1>10. CASE \E h \in Handlers : Handler(h)
  <2>1. PICK h \in Handlers : Handler(h)
    BY <1>10
  <2>2. CtlOK' /\ PipeOK' /\ buf' = buf
    BY <1>1, <2>1 DEF Handler, Begins, Wakes, Acquire, Checks, Works, Finishes, Finished,
                      Unmarks, Unmark, ctl, pipe, red, CtlOK, PipeOK
  <2>3. CASE Begins(h)
    <3>1. HandOK' /\ TablesOK' /\ RedOK'
      BY <1>1, <2>2, <2>3 DEF Begins, HandlerGoes, red, HandOK, TablesOK, RedOK, Bufs
    <3>2. QED BY <1>3, <2>2, <3>1, <1>0
  <2>4. CASE Wakes(h)
    <3>1. TablesOK' /\ RedOK'
      BY <1>1, <2>4 DEF Wakes, Acquire, red, TablesOK, RedOK, Bufs
    <3>2. wsem' \in [Handlers -> Nat]
      BY <1>1, <2>4 DEF Wakes, Acquire, HandOK
    <3>3. HandOK'
      BY <1>1, <2>2, <2>4, <3>2 DEF Wakes, Acquire, HandlerGoes, HandOK
    <3>4. QED BY <1>3, <2>2, <3>1, <3>3, <1>0
  <2>5. CASE Checks(h)
    <3>1. HandOK' /\ TablesOK' /\ RedOK'
      BY <1>1, <2>2, <2>5 DEF Checks, HandlerGoes, red, HandOK, TablesOK, RedOK, Bufs
    <3>2. QED BY <1>3, <2>2, <3>1, <1>0
  <2>6. CASE Works(h)
    <3>1. HandOK' /\ TablesOK'
      BY <1>1, <2>2, <2>6 DEF Works, HandlerGoes, HandOK, TablesOK
    <3>2. cur[h] # 0 => cur[h] \in Bufs
      BY <1>1 DEF HandOK, PipeOK, Bufs
    <3>3. rq' \in Seq(Bufs)
      <4>1. rq \in Seq(Bufs)
        BY <1>1 DEF RedOK
      <4>2. CASE cur[h] = 0
        BY <2>6, <4>1, <4>2, Zenon DEF Works
      <4>3. CASE cur[h] # 0
        <5>1. rq' = Append(rq, cur[h])
          BY <2>6, <4>3, Zenon DEF Works
        <5>2. QED BY <3>2, <4>1, <4>3, <5>1
      <4>4. QED BY <4>2, <4>3
    <3>4. RedOK'
      BY <1>1, <2>6, <3>3 DEF Works, red, RedOK, Bufs
    <3>5. QED BY <1>3, <2>2, <3>1, <3>4, <1>0
  <2>7. CASE Finishes(h)
    <3>1. HandOK' /\ RedOK'
      BY <1>1, <2>2, <2>7 DEF Finishes, Finished, HandlerGoes, red, HandOK, RedOK, Bufs
    <3>2. ASSUME NEW n \in DOMAIN busy, free' = Freed[busy[n]], busy' = Drop(busy, n)
          PROVE  TablesOK'
      <4>1. busy[n] \in Handlers
        BY <1>1 DEF TablesOK
      <4>2. free' = Append(free, busy[n])
        BY <3>2, <4>1 DEF Freed
      <4>3. QED BY <1>1, <3>2, <4>1, <4>2 DEF TablesOK, Drop
    <3>3. ASSUME UNCHANGED <<free, busy>> PROVE TablesOK'
      BY <1>1, <3>3, Zenon DEF TablesOK
    <3>4. TablesOK'
      BY <2>7, <3>2, <3>3, Zenon DEF Finishes, Finished
    <3>5. QED BY <1>3, <2>2, <3>1, <3>4, <1>0
  <2>8. CASE Unmarks(h)
    <3>1. HandOK' /\ TablesOK' /\ RedOK'
      BY <1>1, <2>2, <2>8 DEF Unmarks, Unmark, HandlerGoes, red, HandOK, TablesOK, RedOK, Bufs
    <3>2. QED BY <1>3, <2>2, <3>1, <1>0
  <2>9. QED BY <2>1, <2>3, <2>4, <2>5, <2>6, <2>7, <2>8 DEF Handler
<1>11. CASE ReducerBegins
  <2>1. CtlOK' /\ PipeOK' /\ TablesOK' /\ HandOK' /\ RedOK'
    BY <1>1, <1>11 DEF ReducerBegins, ctl, pipe, hand, CtlOK, PipeOK, TablesOK, HandOK, RedOK, Bufs
  <2>2. QED BY <1>3, <2>1, <1>0
<1>12. CASE Reduces
  <2>1. CtlOK' /\ PipeOK' /\ TablesOK' /\ HandOK'
    BY <1>1, <1>12 DEF Reduces, ctl, pipe, hand, CtlOK, PipeOK, TablesOK, HandOK
  <2>2. RedOK'
    BY <1>1, <1>12 DEF Reduces, RedOK, Bufs
  <2>3. QED BY <1>3, <2>1, <2>2, <1>0
<1>13. CASE Start
  <2>1. CtlOK' /\ PipeOK' /\ TablesOK' /\ RedOK'
    <3>1. at' \in 0..Len(setup.script)
      BY <1>1, <1>13 DEF Start, Calls, CtlOK
    <3>2. CtlOK'
      BY <1>1, <1>13, <3>1, Zenon DEF Start, CtlOK
    <3>3. PipeOK' /\ TablesOK'
      BY <1>1, <1>13 DEF Start, PipeOK, TablesOK
    <3>4. RedOK'
      BY <1>1, <1>13 DEF Start, RedOK, Bufs
    <3>5. QED BY <3>2, <3>3, <3>4
  <2>2. HandOK'
    BY <1>1, <1>13 DEF Start, HandOK
  <2>3. QED BY <1>3, <2>1, <2>2, <1>0
<1>14. CASE StopReads
  <2>1. PipeOK' /\ TablesOK' /\ HandOK' /\ RedOK'
    BY <1>1, <1>14 DEF StopReads, pipe, hand, PipeOK, TablesOK, HandOK, RedOK, Bufs
  <2>2. SetToSeq(DOMAIN busy) \in Seq(DOMAIN busy)
    BY SetInSeq DEF Linked, Handing
  <2>3. vals' \in Seq(Handlers)
    <3> DEFINE nos == SetToSeq(DOMAIN busy)
    <3>1. vals' = [i \in DOMAIN nos |-> busy[nos[i]]]
      BY <1>14 DEF StopReads
    <3>2. Len(nos) \in Nat /\ DOMAIN nos = 1..Len(nos)
      BY <2>2
    <3>3. \A i \in DOMAIN nos : busy[nos[i]] \in Handlers
      BY <1>1, <2>2 DEF TablesOK
    <3> HIDE DEF nos
    <3>4. QED BY <3>1, <3>2, <3>3, IsASeq
  <2>4. CtlOK'
    BY <1>1, <1>14, <2>3 DEF StopReads, CtlOK
  <2>5. QED BY <1>3, <2>1, <2>4, <1>0
<1>15. CASE Stops
  <2>1. PipeOK' /\ RedOK'
    BY <1>1, <1>15 DEF Stops, StopAll, pipe, red, PipeOK, RedOK, Bufs
  <2>2. TablesOK'
    BY <1>1, <1>15 DEF Stops, StopAll, CtlOK, TablesOK
  <2>3. CtlOK'
    <3>1. at' \in 0..Len(setup.script)
      BY <1>1, <1>15 DEF Stops, StopAll, CtlOK, Linked, Phases, Calls
    <3>2. vals' \in Seq(Handlers)
      BY <1>15 DEF Stops, StopAll
    <3>3. stopping' \in BOOLEAN /\ ending' \in BOOLEAN /\ exit' \in BOOLEAN
      BY <1>1, <1>15, Zenon DEF Stops, StopAll, CtlOK, red
    <3>4. QED BY <3>1, <3>2, <3>3 DEF CtlOK
  <2>4. \A h : Count(h, free') \in Nat
    BY <2>2, CountNat DEF TablesOK
  <2>5. wsem' \in [Handlers -> Nat]
    BY <1>1, <1>15, <2>4 DEF Stops, StopAll, HandOK
  <2>6. active' \in [Handlers -> BOOLEAN]
    BY <1>1, <1>15 DEF Stops, StopAll, HandOK
  <2>7. HandOK'
    BY <1>1, <1>15, <2>5, <2>6 DEF Stops, StopAll, pipe, HandOK
  <2>8. QED BY <1>3, <2>1, <2>2, <2>3, <2>7, <1>0
<1>16. CASE UNCHANGED vars
  BY <1>16 DEF TypeOK, vars, ctl, pipe, hand, red, Bufs
<1>17. QED BY <1>4, <1>5, <1>6, <1>7, <1>8, <1>9, <1>10, <1>11, <1>12, <1>13, <1>14, <1>15, <1>16
           DEF Next, Fixed, Pipe, Controller

-----------------------------------------------------------------------------
(* The table and the states *)

LEMMA Unchanging ==
  ASSUME setup' = setup
  PROVE  /\ Sequential' = Sequential /\ Distinct' = Distinct
         /\ NeverStopped' = NeverStopped /\ Once' = Once
         /\ \A b : No(b)' = No(b)
BY DEF Sequential, Distinct, NeverStopped, Once, No, Bufs

\* The buffer at hand is the next one.
LEMMA AtHand ==
  ASSUME TypeOK, Linked, ppc = "take"
  PROVE  /\ buf \in 1..Len(setup.nos) /\ Handed = buf - 1
         /\ Distinct => No(buf) \notin DOMAIN busy
<1>1. buf \in 0..Len(setup.nos) /\ Len(setup.nos) \in Nat
  BY DistFacts DEF TypeOK
<1>2. Handed = buf - 1 /\ Handed \in 0..Len(setup.nos)
  BY DEF Handed, Linked, Handing
<1>3. buf \in 1..Len(setup.nos)
  BY <1>1, <1>2
<1>4. ASSUME Distinct, No(buf) \in DOMAIN busy PROVE FALSE
  <2>1. PICK b \in 1..Handed : No(buf) = No(b)
    BY <1>4 DEF Linked, Handing
  <2>2. b \in Bufs /\ buf \in Bufs /\ b # buf
    BY <1>1, <1>2, <1>3 DEF Bufs
  <2>3. QED BY <1>4, <2>1, <2>2 DEF Distinct
<1>5. QED BY <1>2, <1>3, <1>4

LEMMA HandingKept ==
  ASSUME Handing, busy' = busy, Handed' = Handed, setup' = setup
  PROVE  Handing'
BY Unchanging DEF Handing, No

LEMMA HandingGiven ==
  ASSUME TypeOK, Linked, ppc = "take", NEW h, Give1(h), setup' = setup
  PROVE  Handing' /\ Handed' = buf
<1>1. buf \in 1..Len(setup.nos) /\ Handed = buf - 1
  BY AtHand
<1>2. buf' = buf /\ Handed' = buf
  BY DEF Give1, Give, Handed
<1>3. DOMAIN busy' = DOMAIN busy \cup {No(buf)}
  BY DEF Give1, Put
<1>4. IsFiniteSet(DOMAIN busy')
  BY <1>3, FS_AddElement DEF Linked, Handing
<1>5. \A b \in 1..Handed : b \in 1..buf
  BY <1>1
<1>6. DOMAIN busy' \subseteq {No(b) : b \in 1..buf}
  BY <1>1, <1>3, <1>5 DEF Linked, Handing
<1>7. \A b : No(b)' = No(b)
  BY Unchanging
<1>8. QED BY <1>1, <1>2, <1>4, <1>6, <1>7 DEF Handing, No

LEMMA LinkedStep == TypeOK /\ Linked /\ [Next]_vars => Linked'
<1> SUFFICES ASSUME TypeOK, Linked, [Next]_vars PROVE Linked'
  OBVIOUS
<1>1. Handing /\ Phases
  BY DEF Linked
<1>2. setup' = setup
  BY DEF Next, Fixed, vars
<1>3. /\ Sequential' = Sequential /\ NeverStopped' = NeverStopped
      /\ \A op : Calls(op)' = (at' < Len(setup.script) /\ setup.script[at' + 1] = op)
  BY <1>2, Unchanging DEF Calls
<1>4. buf \in 0..Len(setup.nos) /\ Len(setup.nos) \in Nat
  BY DistFacts DEF TypeOK
<1>5. CASE Arrives
  <2>1. ppc = "idle" /\ buf' = buf + 1 /\ ppc' \in {"take", "give"} /\ busy' = busy /\ held' = held
        /\ UNCHANGED ctl /\ (ppc' = "take" <=> Sequential)
    BY <1>5 DEF Arrives
  <2>2. Handed' = Handed
    BY <1>4, <2>1 DEF Handed
  <2>3. Handing'
    BY <1>1, <1>2, <2>1, <2>2, HandingKept
  <2>4. Phases'
    BY <1>1, <1>3, <2>1 DEF Phases, ctl, Calls
  <2>5. QED BY <2>3, <2>4 DEF Linked
<1>6. CASE PipeEnds
  <2>1. Handed' = Handed
    BY <1>6 DEF PipeEnds, Handed
  <2>2. Handing'
    BY <1>1, <1>2, <1>6, <2>1, HandingKept DEF PipeEnds
  <2>3. Phases'
    BY <1>1, <1>3, <1>6 DEF PipeEnds, Phases, ctl, Calls
  <2>4. QED BY <2>2, <2>3 DEF Linked
<1>7. CASE TakeFree
  <2>1. ppc = "take" /\ held = {}
    BY <1>7 DEF TakeFree
  <2>2. CASE Give1(Head(free)) /\ UNCHANGED held
    <3>1. Handing'
      BY <1>2, <2>1, <2>2, HandingGiven
    <3>2. Phases'
      BY <1>1, <1>3, <2>1, <2>2 DEF Give1, Give, Phases, ctl, Calls
    <3>3. QED BY <3>1, <3>2 DEF Linked
  <2>3. CASE ~(Give1(Head(free)) /\ UNCHANGED held)
    <3>1. held' = {Head(free)} /\ UNCHANGED <<ctl, ppc, buf, busy>>
      BY <1>7, <2>3 DEF TakeFree
    <3>2. Handed' = Handed
      BY <3>1 DEF Handed
    <3>3. Handing'
      BY <1>1, <1>2, <3>1, <3>2, HandingKept
    <3>4. Phases'
      BY <1>1, <1>3, <2>1, <3>1 DEF Phases, ctl, Calls
    <3>5. QED BY <3>3, <3>4 DEF Linked
  <2>4. QED BY <2>2, <2>3
<1>8. CASE TakeAgain
  <2>1. PICK h \in held : Give1(h)
    BY <1>8 DEF TakeAgain
  <2>2. ppc = "take" /\ held' = {}
    BY <1>8 DEF TakeAgain
  <2>3. Handing'
    BY <1>2, <2>1, <2>2, HandingGiven
  <2>4. Phases'
    BY <1>1, <1>3, <2>1, <2>2 DEF Give1, Give, Phases, ctl, Calls
  <2>5. QED BY <2>3, <2>4 DEF Linked
<1>9. CASE GiveAll
  <2>1. ppc = "give" /\ ppc' \in {"give", "wait"} /\ UNCHANGED <<ctl, buf, busy, held>>
    BY <1>9 DEF GiveAll, Give
  <2>2. ~Sequential /\ DOMAIN busy = {} /\ Handed = buf - 1
    BY <1>1, <2>1 DEF Phases, Handed
  <2>3. Handed' \in 0..Len(setup.nos)
    BY <1>1, <1>4, <2>1, <2>2 DEF Handing, Handed
  <2>4. Handing'
    BY <1>1, <1>2, <2>1, <2>2, <2>3 DEF Handing
  <2>5. Phases'
    BY <1>1, <1>3, <2>1, <2>2 DEF Phases, ctl, Calls
  <2>6. QED BY <2>4, <2>5 DEF Linked
<1>10. CASE WaitAll
  <2>1. ppc = "wait" /\ ppc' \in {"wait", "idle"} /\ UNCHANGED <<ctl, buf, busy, held>>
    BY <1>10 DEF WaitAll
  <2>2. Handed' = Handed
    BY <2>1 DEF Handed
  <2>3. Handing'
    BY <1>1, <1>2, <2>1, <2>2, HandingKept
  <2>4. Phases'
    BY <1>1, <1>3, <2>1 DEF Phases, ctl, Calls
  <2>5. QED BY <2>3, <2>4 DEF Linked
<1>11. CASE \E h \in Handlers : Handler(h)
  <2>1. PICK h \in Handlers : Handler(h)
    BY <1>11
  <2>2. UNCHANGED <<ctl, ppc, buf, held>>
    BY <2>1 DEF Handler, Begins, Wakes, Acquire, Checks, Works, Finishes, Finished,
                Unmarks, Unmark, pipe
  <2>3. Handed' = Handed
    BY <2>2 DEF Handed
  <2>4. CASE busy' = busy
    <3>1. Handing'
      BY <1>1, <1>2, <2>3, <2>4, HandingKept
    <3>2. Phases'
      BY <1>1, <1>3, <2>2, <2>4 DEF Phases, ctl, Calls
    <3>3. QED BY <3>1, <3>2 DEF Linked
  <2>5. CASE busy' # busy
    <3>1. Sequential /\ \E n \in DOMAIN busy : busy' = Drop(busy, n)
      BY <2>1, <2>5 DEF Handler, Begins, Wakes, Acquire, Checks, Works, Finishes, Finished,
                        Unmarks, Unmark
    <3>2. PICK n \in DOMAIN busy : busy' = Drop(busy, n)
      BY <3>1
    <3>3. DOMAIN busy' = DOMAIN busy \ {n}
      BY <3>2 DEF Drop
    <3>4. IsFiniteSet(DOMAIN busy')
      BY <1>1, <3>3, FS_RemoveElement DEF Handing
    <3>5. Handing'
      BY <1>1, <1>2, <2>3, <3>3, <3>4 DEF Handing, No
    <3>6. Phases'
      BY <1>1, <1>3, <2>2, <3>1 DEF Phases, ctl, Calls
    <3>7. QED BY <3>5, <3>6 DEF Linked
  <2>6. QED BY <2>4, <2>5
<1>12. CASE ReducerBegins \/ Reduces \/ UNCHANGED vars
  <2>1. UNCHANGED <<ctl, ppc, buf, held, busy>>
    BY <1>12 DEF ReducerBegins, Reduces, pipe, vars
  <2>2. Handed' = Handed
    BY <2>1 DEF Handed
  <2>3. Handing'
    BY <1>1, <1>2, <2>1, <2>2, HandingKept
  <2>4. Phases'
    BY <1>1, <1>3, <2>1 DEF Phases, ctl, Calls
  <2>5. QED BY <2>3, <2>4 DEF Linked
<1>13. CASE Controller
  <2>1. busy' = busy /\ held' = held /\ buf' = buf
    BY <1>13 DEF Controller, Start, StopReads, Stops, StopAll, pipe
  <2>2. Handed' = Handed
    BY <1>13, <2>1 DEF Controller, Start, StopReads, Stops, StopAll, pipe, Handed
  <2>3. Handing'
    BY <1>1, <1>2, <2>1, <2>2, HandingKept
  <2>4. CASE Start
    BY <1>1, <1>3, <2>1, <2>3, <2>4 DEF Start, Phases, Linked
  <2>5. CASE StopReads
    <3>1. ~NeverStopped
      <4>1. Calls("stop") /\ at \in Nat /\ setup.script \in Seq({"start", "stop"})
        BY <2>5, DistFacts DEF StopReads, TypeOK
      <4>2. at + 1 \in DOMAIN setup.script /\ setup.script[at + 1] = "stop"
        BY <4>1 DEF Calls
      <4>3. QED BY <4>2 DEF NeverStopped
    <3>2. Phases'
      BY <1>1, <1>3, <2>1, <2>5, <3>1 DEF StopReads, Phases, pipe, Calls
    <3>3. QED BY <2>3, <3>2 DEF Linked
  <2>6. CASE Stops
    <3>1. ~NeverStopped
      BY <1>1, <2>6 DEF Stops, StopAll, Phases
    <3>2. Phases'
      BY <1>1, <1>3, <2>1, <2>6, <3>1 DEF Stops, StopAll, Phases, pipe
    <3>3. QED BY <2>3, <3>2 DEF Linked
  <2>7. QED BY <1>13, <2>4, <2>5, <2>6 DEF Controller
<1>14. QED BY <1>5, <1>6, <1>7, <1>8, <1>9, <1>10, <1>11, <1>12, <1>13 DEF Next, Fixed, Pipe

-----------------------------------------------------------------------------
(* No handler disappears *)

Values(t) == {t[x] : x \in DOMAIN t}

LEMMA TableMoves ==
  ASSUME NEW t, NEW k, NEW v
  PROVE  /\ k \notin DOMAIN t => Values(Put(t, k, v)) = Values(t) \cup {v}
         /\ k \in DOMAIN t => Values(t) = Values(Drop(t, k)) \cup {t[k]}
<1>1. ASSUME k \notin DOMAIN t
      PROVE  Values(Put(t, k, v)) = Values(t) \cup {v}
  <2>1. DOMAIN Put(t, k, v) = DOMAIN t \cup {k} /\ Put(t, k, v)[k] = v
        /\ \A x \in DOMAIN t : Put(t, k, v)[x] = t[x]
    BY <1>1 DEF Put
  <2>2. QED BY <2>1 DEF Values
<1>2. ASSUME k \in DOMAIN t
      PROVE  Values(t) = Values(Drop(t, k)) \cup {t[k]}
  <2>1. DOMAIN Drop(t, k) = DOMAIN t \ {k} /\ \A x \in DOMAIN t \ {k} : Drop(t, k)[x] = t[x]
    BY DEF Drop
  <2>2. QED BY <1>2, <2>1 DEF Values
<1>3. QED BY <1>1, <1>2

LEMMA InitCovers == Init => Linked /\ Covers
<1> SUFFICES ASSUME Init PROVE Linked /\ Covers
  OBVIOUS
<1>1. setup.nos \in Seq(Int) /\ setup.method \in {"SEQUENTIAL", "ALL"}
  BY DistFacts DEF Init
<1>2. DOMAIN busy = {} /\ Handed = 0 /\ held = {}
  BY DEF Init, Handed
<1>3. Handing
  BY <1>1, <1>2, FS_EmptySet DEF Handing
<1>4. Phases
  BY <1>2 DEF Init, Phases
<1>5. Range(free) = Handlers
  BY SetInSeq, DistFacts DEF Init
<1>6. QED BY <1>3, <1>4, <1>5 DEF Linked, Covers, Known

LEMMA CoversStep == TypeOK /\ Linked /\ Covers /\ [Next]_vars => Covers'
<1> SUFFICES ASSUME TypeOK, Linked, Covers, [Next]_vars PROVE Covers'
  OBVIOUS
<1>0. Distinct' = Distinct
  <2>1. setup' = setup
    BY DEF Next, Fixed, vars
  <2>2. QED BY <2>1, Unchanging
<1> SUFFICES ASSUME Distinct PROVE Handlers \subseteq Known'
  BY <1>0 DEF Covers
<1>1. Known = Range(free) \cup held \cup Values(busy)
  BY DEF Known, Values
<1>2. Known' = Range(free') \cup held' \cup Values(busy')
  BY DEF Known, Values
<1>3. Handlers \subseteq Known
  BY DEF Covers
<1>4. free \in Seq(Handlers) /\ \A n \in DOMAIN busy : busy[n] \in Handlers
  BY DEF TypeOK
<1>5. ASSUME UNCHANGED <<held, free, busy>> PROVE Handlers \subseteq Known'
  BY <1>1, <1>2, <1>3, <1>5
<1>6. ASSUME ppc = "take", NEW h, Give1(h)
      PROVE  Values(busy') = Values(busy) \cup {h}
  BY <1>6, AtHand, TableMoves DEF Give1
<1>7. CASE TakeFree
  <2>1. ppc = "take" /\ held = {} /\ free # <<>> /\ free' = Tail(free)
    BY <1>7 DEF TakeFree
  <2>2. Range(free) = Range(free') \cup {Head(free)}
    BY <1>4, <2>1, RangeMoves, DistFacts
  <2>3. CASE Give1(Head(free)) /\ UNCHANGED held
    <3>1. Values(busy') = Values(busy) \cup {Head(free)}
      BY <1>6, <2>1, <2>3
    <3>2. QED BY <1>1, <1>2, <1>3, <2>1, <2>2, <2>3, <3>1
  <2>4. CASE held' = {Head(free)} /\ busy' = busy
    BY <1>1, <1>2, <1>3, <2>1, <2>2, <2>4
  <2>5. QED BY <1>7, <2>3, <2>4 DEF TakeFree
<1>8. CASE TakeAgain
  <2>1. PICK h \in held : Give1(h)
    BY <1>8 DEF TakeAgain
  <2>2. ppc = "take" /\ held' = {} /\ free' = free
    BY <1>8 DEF TakeAgain
  <2>3. held = {h}
    BY <2>1 DEF Linked, Phases
  <2>4. Values(busy') = Values(busy) \cup {h}
    BY <1>6, <2>1, <2>2
  <2>5. QED BY <1>1, <1>2, <1>3, <2>2, <2>3, <2>4
<1>9. CASE \E h \in Handlers : Handler(h)
  <2>1. PICK h \in Handlers : Handler(h)
    BY <1>9
  <2>2. held' = held
    BY <2>1 DEF Handler, Begins, Wakes, Acquire, Checks, Works, Finishes, Finished,
                Unmarks, Unmark, pipe
  <2>3. ASSUME NEW n \in DOMAIN busy, free' = Freed[busy[n]], busy' = Drop(busy, n)
        PROVE  Handlers \subseteq Known'
    <3>1. free' = Append(free, busy[n])
      BY <1>4, <2>3 DEF Freed
    <3>2. Range(free') = Range(free) \cup {busy[n]}
      BY <1>4, <3>1, RangeMoves
    <3>3. Values(busy) = Values(busy') \cup {busy[n]}
      BY <2>3, TableMoves
    <3>4. QED BY <1>1, <1>2, <1>3, <2>2, <3>2, <3>3
  <2>4. CASE Finishes(h)
    BY <1>5, <2>2, <2>3, <2>4, Zenon DEF Finishes, Finished
  <2>5. CASE ~Finishes(h)
    <3>1. UNCHANGED <<free, busy>>
      BY <2>1, <2>5 DEF Handler, Begins, Wakes, Acquire, Checks, Works, Unmarks, Unmark
    <3>2. QED BY <1>5, <2>2, <3>1
  <2>6. QED BY <2>4, <2>5
<1>10. CASE Stops
  <2>1. free' = free \o vals /\ vals \in Seq(Handlers) /\ UNCHANGED <<held, busy>>
    BY <1>10 DEF Stops, StopAll, pipe, TypeOK
  <2>2. Range(free) \subseteq Range(free')
    <3>1. DOMAIN free = 1..Len(free) /\ Len(free) \in Nat /\ Len(vals) \in Nat
      BY <1>4, <2>1
    <3>2. DOMAIN free' = 1..Len(free) + Len(vals)
      BY <1>4, <2>1
    <3>3. \A i \in 1..Len(free) : free'[i] = free[i]
      BY <1>4, <2>1
    <3>4. ASSUME NEW i \in DOMAIN free PROVE free[i] \in Range(free')
      <4>1. i \in 1..Len(free) /\ i \in DOMAIN free'
        BY <3>1, <3>2
      <4>2. QED BY <3>3, <4>1 DEF Range
    <3>5. QED BY <3>4 DEF Range
  <2>3. QED BY <1>1, <1>2, <1>3, <2>1, <2>2
<1>11. CASE Arrives \/ PipeEnds \/ GiveAll \/ WaitAll \/ Start \/ StopReads \/ ReducerBegins \/ Reduces
            \/ UNCHANGED vars
  BY <1>5, <1>11 DEF Arrives, PipeEnds, GiveAll, WaitAll, Start, StopReads, ReducerBegins, Reduces,
                     pipe, vars
<1>12. QED BY <1>7, <1>8, <1>9, <1>10, <1>11 DEF Next, Fixed, Pipe, Controller

\* Every variable stays in the set of values its C++ counterpart can have, whatever
\* the number of handlers, the buffers' numbers and the calls of start() and stop().
THEOREM JobTypeCorrect == Spec => []TypeOK
<1>1. Init => TypeOK /\ Linked
  BY InitTyped, InitCovers
<1>2. TypeOK /\ Linked /\ [Next]_vars => (TypeOK /\ Linked)'
  BY TypeStep, LinkedStep
<1>3. QED BY <1>1, <1>2, PTL DEF Spec

-----------------------------------------------------------------------------
(* Every handler is in one place *)

LEMMA InitTidy == Init => Tidy
<1> SUFFICES ASSUME Init PROVE Tidy
  OBVIOUS
<1>1. IsInjective(free) /\ Range(free) = Handlers /\ held = {}
  BY SetInSeq, DistFacts DEF Init
<1>2. \A h \in Handlers : wsem[h] = 0 /\ hpc[h] = "off"
  BY DEF Init
<1>3. \A h \in Handlers : ~Pending(h)
  BY <1>2 DEF Pending
<1>4. DOMAIN busy = {}
  BY DEF Init
<1>5. FreeOnce /\ FreeIdle
  BY <1>1, <1>3 DEF FreeOnce, FreeIdle
<1>6. Tabled
  BY <1>3, <1>4 DEF Tabled
<1>7. Permits
  BY <1>2 DEF Permits
<1>8. QED BY <1>5, <1>6, <1>7 DEF Tidy

\* What a step does that gives no buffer and frees no handler.
LEMMA TidyKept ==
  ASSUME TypeOK, FreeOnce, FreeIdle, Tabled, setup' = setup,
         UNCHANGED <<held, free, busy, cur>>, Handed' = Handed,
         \A g \in Handlers : Pending(g)' = Pending(g)
  PROVE  FreeOnce' /\ FreeIdle' /\ Tabled'
<1>1. FreeOnce' /\ FreeIdle'
  BY DEF FreeOnce, FreeIdle
<1>2. \A b : No(b)' = No(b)
  BY Unchanging
<1>3. \A n \in DOMAIN busy : busy[n] \in Handlers
  BY DEF TypeOK
<1>4. Tabled'
  BY <1>2, <1>3 DEF Tabled
<1>5. QED BY <1>1, <1>4

\* Giving the buffer at hand to a handler that was free or held.
LEMMA TidyGiven ==
  ASSUME TypeOK, Linked, Once, FreeOnce, FreeIdle, Tabled, Permits, ppc = "take", setup' = setup,
         NEW h \in Handlers, h \in Range(free) \cup held, Give1(h),
         Range(free') \cup held' = (Range(free) \cup held) \ {h},
         FreeOnce'
  PROVE  FreeIdle' /\ Tabled' /\ Permits'
<1>1. /\ flag' = [flag EXCEPT ![h] = TRUE] /\ cur' = [cur EXCEPT ![h] = buf]
      /\ wsem' = [wsem EXCEPT ![h] = @ + 1] /\ hpc' = hpc /\ active' = active
      /\ busy' = Put(busy, No(buf), h)
  BY DEF Give1, Give
<1>2. wsem \in [Handlers -> Nat] /\ cur \in [Handlers -> 0..buf]
      /\ hpc \in [Handlers -> {"off", "begin", "sleep", "check", "work", "finish", "unmark"}]
      /\ \A n \in DOMAIN busy : busy[n] \in Handlers
  BY DEF TypeOK
<1>3. buf \in 1..Len(setup.nos) /\ Handed = buf - 1 /\ Handed' = buf /\ No(buf) \notin DOMAIN busy
  BY AtHand, HandingGiven DEF Once
<1>4. ~Pending(h) /\ wsem[h] \in {0, 1}
  BY DEF FreeIdle, Permits
<1>5. wsem[h] = 0 /\ hpc[h] \in {"off", "begin", "sleep", "unmark"}
  BY <1>2, <1>4 DEF Pending, Permits
<1>6. wsem'[h] = 1 /\ cur'[h] = buf
  BY <1>1, <1>2, <1>5
<1>7. Pending(h)'
  BY <1>1, <1>5, <1>6 DEF Pending
<1>8. \A g \in Handlers : g # h => wsem'[g] = wsem[g] /\ cur'[g] = cur[g]
  BY <1>1, <1>2
<1>9. \A g \in Handlers : g # h => Pending(g)' = Pending(g)
  BY <1>1, <1>8 DEF Pending
<1>10. FreeIdle'
  BY <1>7, <1>9 DEF FreeIdle
<1>11. Permits'
  BY <1>1, <1>5, <1>6, <1>8 DEF Permits
<1>12. \A b : No(b)' = No(b)
  BY Unchanging
<1>13. DOMAIN busy' = DOMAIN busy \cup {No(buf)} /\ busy'[No(buf)] = h
       /\ \A n \in DOMAIN busy : busy'[n] = busy[n]
  BY <1>1, <1>3 DEF Put
<1>14. ASSUME NEW g \in Handlers, Pending(g)'
       PROVE  /\ cur'[g] \in 1..buf /\ No(cur'[g]) \in DOMAIN busy' /\ busy'[No(cur'[g])] = g
  <2>1. CASE g = h
    BY <1>3, <1>6, <1>13, <2>1
  <2>2. CASE g # h
    <3>1. cur[g] \in 1..Handed /\ No(cur[g]) \in DOMAIN busy /\ busy[No(cur[g])] = g
      BY <1>9, <1>14, <2>2 DEF Tabled
    <3>2. cur[g] \in 1..buf
      BY <1>3, <3>1
    <3>3. QED BY <1>8, <1>13, <2>2, <3>1, <3>2
  <2>3. QED BY <2>1, <2>2
<1>15. ASSUME NEW n \in DOMAIN busy'
       PROVE  Pending(busy[n])' /\ n = No(cur'[busy'[n]])
  <2>1. CASE n = No(buf)
    <3>1. busy'[n] = h /\ No(cur'[h]) = n
      BY <1>6, <1>13, <2>1
    <3>2. Pending(busy[n])'
      BY <1>7, <3>1 DEF Pending
    <3>3. QED BY <3>1, <3>2
  <2>2. CASE n # No(buf)
    <3>1. n \in DOMAIN busy /\ busy'[n] = busy[n] /\ busy[n] \in Handlers
      BY <1>2, <1>13, <1>15, <2>2
    <3>2. Pending(busy[n]) /\ n = No(cur[busy[n]])
      BY <3>1 DEF Tabled
    <3>3. busy[n] # h
      BY <1>4, <3>2
    <3>4. PICK g \in Handlers : g = busy[n] /\ g # h
      BY <3>1, <3>3
    <3>5. Pending(g)' /\ n = No(cur'[g]) /\ busy'[n] = g
      BY <1>8, <1>9, <3>1, <3>2, <3>4
    <3>6. Pending(busy[n])'
      BY <3>5 DEF Pending
    <3>7. QED BY <3>5, <3>6
  <2>3. QED BY <2>1, <2>2
<1>16. Tabled'
  BY <1>3, <1>12, <1>14, <1>15 DEF Tabled
<1>17. QED BY <1>10, <1>11, <1>16

\* finishBuffer() of a handler that has worked.
LEMMA TidyFreed ==
  ASSUME TypeOK, Linked, Once, FreeOnce, FreeIdle, Tabled, Permits, setup' = setup,
         NEW h \in Handlers, Finishes(h)
  PROVE  /\ FreeOnce' /\ FreeIdle' /\ Tabled' /\ Permits' /\ Handed' = Handed /\ ~Pending(h)'
         /\ \A g \in Handlers : g # h => Pending(g)' = Pending(g)
<1>1. /\ hpc[h] = "finish" /\ hpc' = [hpc EXCEPT ![h] = "unmark"] /\ Sequential
      /\ UNCHANGED <<ppc, buf, held, active, wsem, cur>>
  BY DEF Finishes, Finished, HandlerGoes, pipe, Once
<1>2. wsem \in [Handlers -> Nat] /\ cur \in [Handlers -> 0..buf] /\ buf \in Nat
      /\ hpc \in [Handlers -> {"off", "begin", "sleep", "check", "work", "finish", "unmark"}]
      /\ free \in Seq(Handlers) /\ \A n \in DOMAIN busy : busy[n] \in Handlers
  BY DistFacts DEF TypeOK
<1>3. wsem[h] = 0 /\ Pending(h)
  BY <1>1 DEF Permits, Pending
<1>4. /\ cur[h] \in 1..Handed /\ No(cur[h]) \in DOMAIN busy /\ busy[No(cur[h])] = h
  BY <1>3 DEF Tabled
<1>5. Handed' = Handed
  BY <1>1 DEF Handed
<1>6. Numbers(h) = {No(cur[h])}
  <2>1. Handed \in 0..Len(setup.nos)
    BY DEF Linked, Handing
  <2>2. cur[h] # 0
    BY <1>4, <2>1
  <2>3. QED BY <2>2 DEF Numbers
<1>7. free' = Append(free, h) /\ busy' = Drop(busy, No(cur[h]))
  BY <1>1, <1>4, <1>6 DEF Finishes, Finished, Freed
<1>8. h \notin Range(free) /\ h \notin held
  BY <1>3 DEF FreeIdle
<1>9. Range(free') = Range(free) \cup {h} /\ IsInjective(free')
  BY <1>2, <1>7, <1>8, RangeMoves, OnceMoves DEF FreeOnce
<1>10. FreeOnce'
  BY <1>1, <1>8, <1>9 DEF FreeOnce
<1>11. hpc'[h] = "unmark" /\ \A g \in Handlers : g # h => hpc'[g] = hpc[g]
  BY <1>1, <1>2
<1>12. ~Pending(h)'
  BY <1>1, <1>3, <1>11 DEF Pending
<1>13. \A g \in Handlers : g # h => Pending(g)' = Pending(g)
  BY <1>1, <1>11 DEF Pending
<1>14. FreeIdle'
  BY <1>1, <1>9, <1>12, <1>13 DEF FreeIdle
<1>15. Permits'
  BY <1>1, <1>3, <1>11 DEF Permits
<1>16. DOMAIN busy' = DOMAIN busy \ {No(cur[h])} /\ \A n \in DOMAIN busy' : busy'[n] = busy[n]
  BY <1>7 DEF Drop
<1>17. \A b : No(b)' = No(b)
  BY Unchanging
<1>18. ASSUME NEW g \in Handlers, Pending(g)'
       PROVE  /\ cur'[g] \in 1..Handed /\ No(cur'[g]) \in DOMAIN busy' /\ busy'[No(cur'[g])] = g
  <2>1. g # h /\ Pending(g)
    BY <1>12, <1>13, <1>18
  <2>2. cur[g] \in 1..Handed /\ No(cur[g]) \in DOMAIN busy /\ busy[No(cur[g])] = g
    BY <2>1 DEF Tabled
  <2>3. No(cur[g]) # No(cur[h])
    BY <1>4, <2>1, <2>2
  <2>4. QED BY <1>1, <1>16, <2>2, <2>3
<1>19. ASSUME NEW n \in DOMAIN busy'
       PROVE  Pending(busy[n])' /\ n = No(cur'[busy'[n]])
  <2>1. n \in DOMAIN busy /\ n # No(cur[h]) /\ busy'[n] = busy[n] /\ busy[n] \in Handlers
    BY <1>2, <1>16, <1>19
  <2>2. Pending(busy[n]) /\ n = No(cur[busy[n]])
    BY <2>1 DEF Tabled
  <2>3. busy[n] # h
    BY <2>1, <2>2
  <2>4. PICK g \in Handlers : g = busy[n] /\ g # h
    BY <2>1, <2>3
  <2>5. Pending(g)' /\ n = No(cur'[g]) /\ busy'[n] = g
    BY <1>1, <1>13, <2>1, <2>2, <2>4
  <2>6. Pending(busy[n])'
    BY <2>5 DEF Pending
  <2>7. QED BY <2>5, <2>6
<1>20. Tabled'
  BY <1>5, <1>17, <1>18, <1>19 DEF Tabled
<1>21. QED BY <1>5, <1>10, <1>12, <1>13, <1>14, <1>15, <1>20

LEMMA LoggedStep == TypeOK /\ Logged /\ [Next]_vars => Logged'
<1> SUFFICES ASSUME TypeOK, Logged, [Next]_vars PROVE Logged'
  OBVIOUS
<1>1. Entry' = Entry /\ setup' = setup
  BY DEF Next, Fixed, vars, Entry, Bufs
<1>2. CASE done' = done
  BY <1>1, <1>2 DEF Logged
<1>3. CASE done' # done
  <2>1. PICK h \in Handlers : Works(h)
    BY <1>3 DEF Next, Fixed, vars, Pipe, Controller, Handler, Arrives, PipeEnds, TakeFree, TakeAgain,
       GiveAll, WaitAll, Give1, Give, Start, StopReads, Stops, StopAll, ReducerBegins, Reduces,
       Begins, Wakes, Acquire, Checks, Finishes, Finished, Unmarks, Unmark
  <2>2. done' = Append(done, [by |-> h, buf |-> cur[h]]) /\ cur[h] # 0
    BY <1>3, <2>1 DEF Works
  <2>3. cur[h] \in Bufs
    <3>1. cur[h] \in 0..buf /\ buf \in 0..Len(setup.nos) /\ Len(setup.nos) \in Nat
      BY DistFacts DEF TypeOK
    <3>2. QED BY <2>2, <3>1 DEF Bufs
  <2>4. [by |-> h, buf |-> cur[h]] \in Entry
    BY <2>3 DEF Entry
  <2>5. QED BY <1>1, <2>2, <2>4 DEF Logged
<1>4. QED BY <1>2, <1>3

\* Without a stop() nothing tells a thread to end.
LEMMA NoStop ==
  ASSUME TypeOK, Linked, NeverStopped
  PROVE  ~PipeEnds /\ ~StopReads /\ ~Stops
<1>1. ~stopping /\ ~ending
  BY DEF Linked, Phases
<1>2. ~StopReads
  <2>1. at \in Nat /\ setup.script \in Seq({"start", "stop"})
    BY DistFacts DEF TypeOK
  <2>2. Calls("stop") => at + 1 \in DOMAIN setup.script
    BY <2>1 DEF Calls
  <2>3. QED BY <2>2 DEF StopReads, Calls, NeverStopped
<1>3. QED BY <1>1, <1>2 DEF PipeEnds, Stops, StopAll

\* The steps there are with Once.
LEMMA OnceSteps ==
  ASSUME TypeOK, Linked, Once, [Next]_vars
  PROVE  \/ Arrives \/ TakeFree \/ TakeAgain \/ \E h \in Handlers : Handler(h)
         \/ ReducerBegins \/ Reduces \/ Start \/ UNCHANGED vars
<1>1. ppc \in {"off", "idle", "take"} /\ NeverStopped
  BY DEF Once, Linked, Phases
<1>2. ~GiveAll /\ ~WaitAll
  BY <1>1 DEF GiveAll, WaitAll
<1>3. QED BY <1>1, <1>2, NoStop DEF Next, Fixed, Pipe, Controller

\* How the handlers' duties change: not, or by a buffer that is given, worked on or
\* finished with.
Still == /\ \A g \in Handlers : Pending(g)' = Pending(g) /\ Undone(g)' = Undone(g)
         /\ UNCHANGED <<busy, cur, done>> /\ Handed' = Handed
         /\ Range(free') \cup held' = Range(free) \cup held
GivenTo(h) == /\ h \in Range(free) \cup held /\ Give1(h) /\ done' = done
              /\ Range(free') \cup held' = (Range(free) \cup held) \ {h}
WorkedBy(h) == /\ \A g \in Handlers : Pending(g)' = Pending(g)
               /\ UNCHANGED <<free, held, busy, cur>> /\ Handed' = Handed
               /\ hpc[h] = "work" /\ hpc' = [hpc EXCEPT ![h] = "finish"] /\ wsem' = wsem
               /\ done' = Append(done, [by |-> h, buf |-> cur[h]])

LEMMA Changes ==
  ASSUME TypeOK, Linked, Once, FreeOnce, FreeIdle, Tabled, Permits, [Next]_vars
  PROVE  /\ FreeOnce' /\ Permits'
         /\ \/ Still
            \/ ppc = "take" /\ \E h \in Handlers : GivenTo(h)
            \/ \E h \in Handlers : WorkedBy(h)
            \/ \E h \in Handlers : Finishes(h)
<1> DEFINE Goal == /\ FreeOnce' /\ Permits'
                   /\ \/ Still
                      \/ ppc = "take" /\ \E h \in Handlers : GivenTo(h)
                      \/ \E h \in Handlers : WorkedBy(h)
                      \/ \E h \in Handlers : Finishes(h)
<1>1. setup' = setup
  BY DEF Next, Fixed, vars
<1>2. /\ free \in Seq(Handlers) /\ wsem \in [Handlers -> Nat] /\ buf \in Nat
      /\ hpc \in [Handlers -> {"off", "begin", "sleep", "check", "work", "finish", "unmark"}]
      /\ active \in [Handlers -> BOOLEAN]
  BY DistFacts DEF TypeOK
<1>3. ASSUME UNCHANGED <<free, held, busy, cur, done>>, Handed' = Handed, UNCHANGED <<hpc, wsem, active>>
      PROVE  Goal
  <2>1. \A g \in Handlers : Pending(g)' = Pending(g) /\ Undone(g)' = Undone(g)
    BY <1>3 DEF Pending, Undone
  <2>2. Still
    BY <1>3, <2>1 DEF Still
  <2>3. FreeOnce' /\ Permits'
    BY <1>3 DEF FreeOnce, Permits
  <2>4. QED BY <2>2, <2>3
<1>4. CASE Arrives
  <2>1. UNCHANGED <<free, held, busy, cur, done, hpc, wsem, active>> /\ Handed' = Handed
    BY <1>2, <1>4 DEF Arrives, hand, Handed
  <2>2. QED BY <1>3, <2>1
<1>5. CASE TakeFree
  <2>1. ppc = "take" /\ held = {} /\ free # <<>> /\ free' = Tail(free)
    BY <1>5 DEF TakeFree
  <2>2. /\ Head(free) \in Handlers /\ Range(free) = Range(free') \cup {Head(free)}
        /\ IsInjective(free') /\ Head(free) \notin Range(free')
    BY <1>2, <2>1, DistFacts, RangeMoves, OnceMoves DEF FreeOnce
  <2>3. CASE Give1(Head(free)) /\ UNCHANGED held
    <3>1. FreeOnce'
      BY <2>1, <2>2, <2>3 DEF FreeOnce
    <3>2. done' = done
      BY <2>3 DEF Give1, Give
    <3>3. GivenTo(Head(free))
      BY <2>1, <2>2, <2>3, <3>2 DEF GivenTo
    <3>4. Permits'
      BY <1>1, <2>1, <2>2, <2>3, <3>1, <3>3, TidyGiven DEF GivenTo
    <3>5. QED BY <2>1, <2>2, <3>1, <3>3, <3>4
  <2>4. CASE held' = {Head(free)} /\ UNCHANGED <<ctl, ppc, buf, index, busy, hand, red, rq, done, early>>
    <3>1. FreeOnce' /\ Range(free') \cup held' = Range(free) \cup held
      BY <2>1, <2>2, <2>4 DEF FreeOnce
    <3>2. UNCHANGED <<busy, cur, done, hpc, wsem, active>> /\ Handed' = Handed
      BY <2>4 DEF hand, Handed
    <3>3. \A g \in Handlers : Pending(g)' = Pending(g) /\ Undone(g)' = Undone(g)
      BY <3>2 DEF Pending, Undone
    <3>4. Permits'
      BY <3>2 DEF Permits
    <3>5. QED BY <3>1, <3>2, <3>3, <3>4 DEF Still
  <2>5. QED BY <1>5, <2>3, <2>4 DEF TakeFree
<1>6. CASE TakeAgain
  <2>1. PICK h \in held : Give1(h)
    BY <1>6 DEF TakeAgain
  <2>2. ppc = "take" /\ held' = {} /\ free' = free
    BY <1>6 DEF TakeAgain
  <2>3. held = {h} /\ h \in Handlers
    BY <2>1 DEF Linked, Phases, TypeOK
  <2>4. FreeOnce' /\ done' = done
    BY <2>1, <2>2 DEF FreeOnce, Give1, Give
  <2>5. GivenTo(h)
    BY <2>1, <2>2, <2>3, <2>4 DEF GivenTo, FreeOnce
  <2>6. Permits'
    BY <1>1, <2>1, <2>2, <2>3, <2>4, <2>5, TidyGiven DEF GivenTo
  <2>7. QED BY <2>2, <2>3, <2>4, <2>5, <2>6
<1>7. CASE \E h \in Handlers : Handler(h)
  <2>1. PICK h \in Handlers : Handler(h)
    BY <1>7
  <2>2. CASE Finishes(h)
    <3>1. FreeOnce' /\ Permits'
      BY <1>1, <2>2, TidyFreed
    <3>2. QED BY <2>2, <3>1
  <2>3. CASE ~Finishes(h)
    <3>1. UNCHANGED <<ppc, buf, free, held, busy, cur>>
      BY <2>1, <2>3 DEF Handler, Begins, Wakes, Acquire, Checks, Works, Unmarks, Unmark, pipe
    <3>2. Handed' = Handed /\ FreeOnce'
      BY <3>1 DEF Handed, FreeOnce
    <3>3. /\ wsem[h] \in {0, 1} /\ (hpc[h] \in {"check", "work", "finish"} => wsem[h] = 0)
          /\ hpc[h] \notin {"off", "begin"} => active[h]
      BY DEF Permits
    <3>4. /\ \A g \in Handlers : g # h => hpc'[g] = hpc[g] /\ wsem'[g] = wsem[g] /\ active'[g] = active[g]
      BY <1>2, <2>1, <2>3 DEF Handler, Begins, Wakes, Acquire, Checks, Works, Unmarks, Unmark, HandlerGoes
    <3>5. /\ \A g \in Handlers : g # h => Pending(g)' = Pending(g) /\ Undone(g)' = Undone(g)
      BY <3>4 DEF Pending, Undone
    <3> DEFINE Kept == /\ wsem'[h] \in {0, 1} /\ (hpc'[h] \in {"check", "work", "finish"} => wsem'[h] = 0)
                       /\ hpc'[h] \notin {"off", "begin"} => active'[h]
    <3>6. Kept => Permits'
      BY <3>4 DEF Permits
    <3> DEFINE Same == Pending(h)' = Pending(h) /\ Undone(h)' = Undone(h) /\ done' = done
    <3>7. Same => Still
      BY <3>1, <3>2, <3>5 DEF Still
    <3>8. CASE Begins(h)
      <4>1. /\ hpc[h] = "begin" /\ hpc'[h] = "sleep" /\ wsem'[h] = wsem[h] /\ active'[h] = TRUE
            /\ done' = done
        BY <1>2, <3>8 DEF Begins, HandlerGoes
      <4>2. Kept /\ Same
        BY <3>3, <4>1 DEF Pending, Undone
      <4>3. QED BY <3>2, <3>6, <3>7, <4>2
    <3>9. CASE Wakes(h)
      <4>1. /\ hpc[h] = "sleep" /\ hpc'[h] = "check" /\ wsem[h] = 1 /\ wsem'[h] = 0
            /\ active'[h] = active[h] /\ done' = done
        BY <1>2, <3>3, <3>9 DEF Wakes, Acquire, HandlerGoes
      <4>2. Kept /\ Same
        BY <3>3, <4>1 DEF Pending, Undone
      <4>3. QED BY <3>2, <3>6, <3>7, <4>2
    <3>10. CASE Checks(h)
      <4>1. /\ hpc[h] = "check" /\ hpc'[h] = "work" /\ wsem'[h] = wsem[h]
            /\ active'[h] = active[h] /\ done' = done
        BY <1>2, <3>3, <3>10 DEF Checks, HandlerGoes
      <4>2. Kept /\ Same
        BY <3>3, <4>1 DEF Pending, Undone
      <4>3. QED BY <3>2, <3>6, <3>7, <4>2
    <3>11. CASE Works(h)
      <4>1. /\ hpc[h] = "work" /\ hpc'[h] = "finish" /\ wsem' = wsem
            /\ active'[h] = active[h] /\ hpc' = [hpc EXCEPT ![h] = "finish"]
        BY <1>2, <3>11 DEF Works, HandlerGoes
      <4>2. Pending(h) /\ Pending(h)' /\ Kept
        BY <3>3, <4>1 DEF Pending
      <4>3. cur[h] \in 1..Handed /\ Handed \in Nat
        BY <4>2, DistFacts DEF Tabled, Linked, Handing, TypeOK
      <4>4. cur[h] # 0
        BY <4>3
      <4>5. done' = Append(done, [by |-> h, buf |-> cur[h]])
        BY <3>11, <4>4 DEF Works
      <4>6. WorkedBy(h)
        <5>1. \A g \in Handlers : Pending(g)' = Pending(g)
          <6>1. Pending(h)' = Pending(h)
            BY <4>2 DEF Pending
          <6>2. QED BY <3>5, <6>1
        <5>2. QED BY <3>1, <3>2, <4>1, <4>5, <5>1, Zenon DEF WorkedBy
      <4>7. QED BY <3>2, <3>6, <4>2, <4>6
    <3>12. CASE Unmarks(h)
      <4>1. /\ hpc[h] = "unmark" /\ hpc'[h] = "sleep" /\ wsem'[h] = wsem[h]
            /\ active'[h] = active[h] /\ done' = done
        BY <1>2, <3>3, <3>12 DEF Unmarks, Unmark, HandlerGoes
      <4>2. Kept /\ Same
        BY <3>3, <4>1 DEF Pending, Undone
      <4>3. QED BY <3>2, <3>6, <3>7, <4>2
    <3>13. QED BY <2>1, <2>3, <3>8, <3>9, <3>10, <3>11, <3>12 DEF Handler
  <2>4. QED BY <2>2, <2>3
<1>8. CASE ReducerBegins \/ Reduces \/ UNCHANGED vars
  <2>1. UNCHANGED <<free, held, busy, cur, done, hpc, wsem, active>> /\ Handed' = Handed
    BY <1>8 DEF ReducerBegins, Reduces, vars, pipe, hand, Handed
  <2>2. QED BY <1>3, <2>1
<1>9. CASE Start
  <2>1. UNCHANGED <<free, held, busy, cur, done, wsem, active, buf>> /\ Handed' = Handed
    <3>1. UNCHANGED <<free, held, busy, cur, done, wsem, active, buf>> /\ ppc = "off" /\ ppc' = "idle"
      BY <1>9 DEF Start
    <3>2. QED BY <3>1 DEF Handed
  <2>2. \A g \in Handlers : hpc'[g] = hpc[g] \/ (hpc[g] = "off" /\ hpc'[g] = "begin")
    BY <1>9 DEF Start
  <2>3. \A g \in Handlers : Pending(g)' = Pending(g) /\ Undone(g)' = Undone(g)
    BY <2>1, <2>2 DEF Pending, Undone
  <2>4. FreeOnce' /\ Permits'
    BY <2>1, <2>2 DEF FreeOnce, Permits
  <2>5. QED BY <2>1, <2>3, <2>4 DEF Still
<1>10. QED BY <1>4, <1>5, <1>6, <1>7, <1>8, <1>9, OnceSteps

LEMMA TidyStep == TypeOK /\ Linked /\ Tidy /\ [Next]_vars => Tidy'
<1> SUFFICES ASSUME TypeOK, Linked, Tidy, [Next]_vars PROVE Tidy'
  OBVIOUS
<1>1. setup' = setup
  BY DEF Next, Fixed, vars
<1>2. Once' = Once
  BY <1>1, Unchanging
<1> SUFFICES ASSUME Once PROVE FreeOnce' /\ FreeIdle' /\ Tabled' /\ Permits'
  BY <1>2 DEF Tidy
<1>3. FreeOnce /\ FreeIdle /\ Tabled /\ Permits
  BY DEF Tidy
<1>4. FreeOnce' /\ Permits'
  BY <1>3, Changes
<1>5. \A b : No(b)' = No(b)
  BY <1>1, Unchanging
<1>6. CASE Still
  <2>1. FreeIdle'
    BY <1>3, <1>6 DEF Still, FreeIdle
  <2>2. \A n \in DOMAIN busy : busy[n] \in Handlers
    BY DEF TypeOK
  <2>3. Tabled'
    BY <1>3, <1>5, <1>6, <2>2 DEF Still, Tabled
  <2>4. QED BY <1>4, <2>1, <2>3
<1>7. CASE ppc = "take" /\ \E h \in Handlers : GivenTo(h)
  BY <1>1, <1>3, <1>4, <1>7, TidyGiven DEF GivenTo
<1>8. CASE \E h \in Handlers : WorkedBy(h)
  BY <1>1, <1>3, <1>4, <1>8, TidyKept DEF WorkedBy
<1>9. CASE \E h \in Handlers : Finishes(h)
  BY <1>1, <1>3, <1>9, TidyFreed
<1>10. QED BY <1>3, <1>6, <1>7, <1>8, <1>9, Changes

LEMMA UnworkedFinite ==
  /\ IsFiniteSet(Unworked) /\ Cardinality(Unworked) \in Nat
  /\ \A h \in Handlers : h \notin Unworked => Cardinality(Unworked) < Cardinality(Handlers)
<1>1. IsFiniteSet(Handlers) /\ Unworked \in SUBSET Handlers
  BY DistFacts DEF Unworked
<1>2. IsFiniteSet(Unworked) /\ Cardinality(Unworked) \in Nat /\ Cardinality(Handlers) \in Nat
      /\ Cardinality(Unworked) <= Cardinality(Handlers)
      /\ (Cardinality(Handlers) = Cardinality(Unworked) => Handlers = Unworked)
  BY <1>1, FS_Subset, FS_CardinalityType
<1>3. QED BY <1>2

\* What the three changes do to the buffers not worked on.
LEMMA UnworkedChanges ==
  ASSUME TypeOK, Linked, Once, FreeOnce, FreeIdle, Tabled, Permits, Logged, Worked, setup' = setup
  PROVE  /\ Still => Unworked' = Unworked
         /\ \A h \in Handlers : ppc = "take" /\ GivenTo(h) =>
              /\ h \notin Unworked /\ Unworked' = Unworked \cup {h}
              /\ Handed' = Handed + 1 /\ Handed' = buf /\ cur'[h] = buf
              /\ \A g \in Unworked : cur'[g] = cur[g]
         /\ \A h \in Handlers : WorkedBy(h) =>
              /\ h \in Unworked /\ Unworked' = Unworked \ {h} /\ cur[h] \in 1..Handed
              /\ \A g \in Unworked : g # h => cur[g] # cur[h]
         /\ \A h \in Handlers : Finishes(h) =>
              Unworked' = Unworked /\ Handed' = Handed /\ UNCHANGED <<cur, done>>
<1>1. /\ wsem \in [Handlers -> Nat] /\ cur \in [Handlers -> 0..buf]
      /\ hpc \in [Handlers -> {"off", "begin", "sleep", "check", "work", "finish", "unmark"}]
  BY DEF TypeOK
<1>2. Still => Unworked' = Unworked
  BY DEF Still, Unworked
<1>3. ASSUME NEW h \in Handlers, ppc = "take", GivenTo(h)
      PROVE  /\ h \notin Unworked /\ Unworked' = Unworked \cup {h}
             /\ Handed' = Handed + 1 /\ Handed' = buf /\ cur'[h] = buf
             /\ \A g \in Unworked : cur'[g] = cur[g]
  <2>1. cur' = [cur EXCEPT ![h] = buf] /\ wsem' = [wsem EXCEPT ![h] = @ + 1] /\ hpc' = hpc
    BY <1>3 DEF GivenTo, Give1, Give
  <2>2. ~Pending(h) /\ wsem[h] \in {0, 1}
    BY <1>3 DEF GivenTo, FreeIdle, Permits
  <2>3. wsem[h] = 0 /\ hpc[h] \in {"off", "begin", "sleep", "unmark"}
    BY <1>1, <2>2 DEF Pending, Permits
  <2>4. wsem'[h] = 1 /\ cur'[h] = buf /\ \A g \in Handlers : g # h => wsem'[g] = wsem[g] /\ cur'[g] = cur[g]
    BY <1>1, <2>1, <2>3
  <2>5. ~Undone(h) /\ Undone(h)'
    BY <2>1, <2>3, <2>4 DEF Undone
  <2>6. \A g \in Handlers : g # h => Undone(g)' = Undone(g)
    BY <2>1, <2>4 DEF Undone
  <2>7. h \notin Unworked /\ Unworked' = Unworked \cup {h}
    BY <2>5, <2>6 DEF Unworked
  <2>8. buf \in Nat /\ Handed = buf - 1 /\ Handed' = buf
    BY <1>3, AtHand, HandingGiven DEF GivenTo, TypeOK
  <2>9. \A g \in Unworked : g \in Handlers /\ g # h
    BY <2>7 DEF Unworked
  <2>10. QED BY <2>4, <2>7, <2>8, <2>9
<1>4. ASSUME NEW h \in Handlers, WorkedBy(h)
      PROVE  /\ h \in Unworked /\ Unworked' = Unworked \ {h} /\ cur[h] \in 1..Handed
             /\ \A g \in Unworked : g # h => cur[g] # cur[h]
  <2>1. hpc[h] = "work" /\ hpc' = [hpc EXCEPT ![h] = "finish"] /\ wsem' = wsem
    BY <1>4 DEF WorkedBy
  <2>2. wsem[h] = 0
    BY <2>1 DEF Permits
  <2>3. hpc'[h] = "finish" /\ \A g \in Handlers : g # h => hpc'[g] = hpc[g]
    BY <1>1, <2>1
  <2>4. Undone(h) /\ ~Undone(h)' /\ Pending(h)
    BY <2>1, <2>2, <2>3 DEF Undone, Pending
  <2>5. \A g \in Handlers : g # h => Undone(g)' = Undone(g)
    BY <2>1, <2>3 DEF Undone
  <2>6. h \in Unworked /\ Unworked' = Unworked \ {h}
    BY <2>4, <2>5 DEF Unworked
  <2>7. cur[h] \in 1..Handed /\ busy[No(cur[h])] = h
    BY <2>4 DEF Tabled
  <2>8. \A g \in Unworked : g \in Handlers /\ Pending(g)
    BY DEF Unworked, Undone, Pending
  <2>9. \A g \in Unworked : busy[No(cur[g])] = g
    BY <2>8 DEF Tabled
  <2>10. QED BY <2>6, <2>7, <2>9
<1>5. ASSUME NEW h \in Handlers, Finishes(h)
      PROVE  Unworked' = Unworked /\ Handed' = Handed /\ UNCHANGED <<cur, done>>
  <2>1. /\ hpc[h] = "finish" /\ hpc' = [hpc EXCEPT ![h] = "unmark"]
        /\ UNCHANGED <<ppc, buf, wsem, cur, done>>
    BY <1>5 DEF Finishes, Finished, HandlerGoes, pipe
  <2>2. wsem[h] = 0
    BY <2>1 DEF Permits
  <2>3. hpc'[h] = "unmark" /\ \A g \in Handlers : g # h => hpc'[g] = hpc[g]
    BY <1>1, <2>1
  <2>4. \A g \in Handlers : Undone(g)' = Undone(g)
    <3>1. ~Undone(h) /\ ~Undone(h)'
      BY <2>1, <2>2, <2>3 DEF Undone
    <3>2. \A g \in Handlers : g # h => Undone(g)' = Undone(g)
      BY <2>1, <2>3 DEF Undone
    <3>3. Undone(h)' = Undone(h)
      BY <3>1 DEF Undone
    <3>4. QED BY <3>2, <3>3
  <2>5. Handed' = Handed
    BY <2>1 DEF Handed
  <2>6. QED BY <2>1, <2>4, <2>5 DEF Unworked
<1>6. QED BY <1>2, <1>3, <1>4, <1>5

LEMMA WorkedStep ==
  TypeOK /\ Linked /\ Tidy /\ Logged /\ Worked /\ [Next]_vars => Worked'
<1> SUFFICES ASSUME TypeOK, Linked, Tidy, Logged, Worked, [Next]_vars PROVE Worked'
  OBVIOUS
<1>1. setup' = setup
  BY DEF Next, Fixed, vars
<1>2. Once' = Once
  BY <1>1, Unchanging
<1> DEFINE Fits(d, n) == \A i \in DOMAIN d : d[i].buf \in 1..n
<1> DEFINE Unmet(d, U, c) == \A h \in U : \A i \in DOMAIN d : d[i].buf # c[h]
<1> DEFINE Counts(d, n, U) == n - Len(d) = Cardinality(U)
<1> SUFFICES ASSUME Once
             PROVE  Fits(done', Handed') /\ Unmet(done', Unworked', cur') /\ Counts(done', Handed', Unworked')
  BY <1>2 DEF Worked, Unworked
<1>3. Fits(done, Handed) /\ Unmet(done, Unworked, cur) /\ Counts(done, Handed, Unworked)
  BY DEF Worked, Unworked
<1>4. FreeOnce /\ FreeIdle /\ Tabled /\ Permits
  BY DEF Tidy
<1>5. done \in Seq(Entry) /\ Handed \in Nat /\ IsFiniteSet(Unworked) /\ Cardinality(Unworked) \in Nat
  BY DistFacts, UnworkedFinite DEF Logged, Linked, Handing, TypeOK
<1>6. ASSUME Unworked' = Unworked, Handed' = Handed, UNCHANGED <<cur, done>>
      PROVE  Fits(done', Handed') /\ Unmet(done', Unworked', cur') /\ Counts(done', Handed', Unworked')
  BY <1>3, <1>6
<1>7. CASE Still
  BY <1>1, <1>4, <1>6, <1>7, UnworkedChanges DEF Still
<1>8. ASSUME NEW h \in Handlers, Finishes(h)
      PROVE  Fits(done', Handed') /\ Unmet(done', Unworked', cur') /\ Counts(done', Handed', Unworked')
  BY <1>1, <1>4, <1>6, <1>8, UnworkedChanges
<1>9. ASSUME NEW h \in Handlers, ppc = "take", GivenTo(h)
      PROVE  Fits(done', Handed') /\ Unmet(done', Unworked', cur') /\ Counts(done', Handed', Unworked')
  <2>1. /\ h \notin Unworked /\ Unworked' = Unworked \cup {h} /\ Handed' = Handed + 1
        /\ cur'[h] = Handed + 1 /\ done' = done
        /\ \A g \in Unworked : cur'[g] = cur[g]
    BY <1>1, <1>4, <1>9, UnworkedChanges DEF GivenTo
  <2>2. Fits(done', Handed')
    BY <1>3, <1>5, <2>1
  <2>3. Unmet(done', Unworked', cur')
    BY <1>3, <1>5, <2>1
  <2>4. Cardinality(Unworked') = Cardinality(Unworked) + 1
    BY <1>5, <2>1, FS_AddElement
  <2>5. Len(done) \in Nat
    BY <1>5
  <2>6. Counts(done', Handed', Unworked')
    <3>1. PICK c \in Nat, n \in Nat, l \in Nat : c = Cardinality(Unworked) /\ n = Handed /\ l = Len(done)
      BY <1>5, <2>5
    <3>2. n - l = c
      BY <1>3, <3>1
    <3>3. (n + 1) - l = c + 1
      BY <3>1, <3>2
    <3>4. QED BY <2>1, <2>4, <3>1, <3>3, Zenon
  <2>7. QED BY <2>2, <2>3, <2>6
<1>10. ASSUME NEW h \in Handlers, WorkedBy(h)
       PROVE  Fits(done', Handed') /\ Unmet(done', Unworked', cur') /\ Counts(done', Handed', Unworked')
  <2>1. /\ h \in Unworked /\ Unworked' = Unworked \ {h} /\ cur[h] \in 1..Handed
        /\ \A g \in Unworked : g # h => cur[g] # cur[h]
        /\ Handed' = Handed /\ cur' = cur
        /\ done' = Append(done, [by |-> h, buf |-> cur[h]])
    BY <1>1, <1>4, <1>10, UnworkedChanges DEF WorkedBy
  <2>2. Len(done) \in Nat /\ DOMAIN done = 1..Len(done)
    BY <1>5
  <2>3. /\ DOMAIN done' = 1..Len(done) + 1 /\ Len(done') = Len(done) + 1
        /\ done'[Len(done) + 1] = [by |-> h, buf |-> cur[h]]
        /\ \A i \in 1..Len(done) : done'[i] = done[i]
    BY <1>5, <2>1, <2>2, AppendProperties
  <2>4. ASSUME NEW i \in DOMAIN done'
        PROVE  \/ i \in DOMAIN done /\ done'[i] = done[i]
               \/ done'[i].buf = cur[h]
    BY <2>2, <2>3
  <2>5. Fits(done', Handed')
    BY <1>3, <2>1, <2>4
  <2>6. Unmet(done', Unworked', cur')
    BY <1>3, <2>1, <2>4
  <2>7. Cardinality(Unworked') = Cardinality(Unworked) - 1
    BY <1>5, <2>1, FS_RemoveElement
  <2>8. Counts(done', Handed', Unworked')
    <3>1. PICK c \in Nat, n \in Nat, l \in Nat : c = Cardinality(Unworked) /\ n = Handed /\ l = Len(done)
      BY <1>5, <2>2
    <3>2. n - l = c
      BY <1>3, <3>1
    <3>3. n - (l + 1) = c - 1
      BY <3>1, <3>2
    <3>4. QED BY <2>1, <2>3, <2>7, <3>1, <3>3, Zenon
  <2>9. QED BY <2>5, <2>6, <2>8
<1>11. QED BY <1>4, <1>7, <1>8, <1>9, <1>10, Changes

\* The inductive invariant.
DistInv == TypeOK /\ Linked /\ Covers /\ Tidy /\ Logged /\ Worked

LEMMA DistInvInit == Init => DistInv
<1> SUFFICES ASSUME Init PROVE DistInv
  OBVIOUS
<1>1. done = <<>> /\ Handed = 0 /\ \A h \in Handlers : wsem[h] = 0 /\ hpc[h] = "off"
  BY DEF Init, Handed
<1>2. Logged
  BY <1>1 DEF Logged
<1>3. Unworked = {}
  BY <1>1 DEF Unworked, Undone
<1>4. Len(done) = 0 /\ DOMAIN done = {} /\ Cardinality(Unworked) = 0
  BY <1>1, <1>3, FS_EmptySet
<1>5. Worked
  <2>1. \A h \in Handlers : \A i \in DOMAIN done : done[i].buf # cur[h]
    BY <1>4
  <2>2. Handed - Len(done) = 0
    <3>1. 0 - 0 = 0
      OBVIOUS
    <3>2. QED BY <1>1, <1>4, <3>1, Zenon
  <2>3. QED BY <1>4, <2>1, <2>2 DEF Worked
<1>6. QED BY <1>2, <1>5, InitTyped, InitCovers, InitTidy DEF DistInv

LEMMA DistInvStep == DistInv /\ [Next]_vars => DistInv'
BY TypeStep, LinkedStep, CoversStep, TidyStep, LoggedStep, WorkedStep DEF DistInv

LEMMA DistInvHolds == Spec => []DistInv
BY DistInvInit, DistInvStep, PTL DEF Spec

\* Where a handler is, in numbers.
LEMMA OnePlace ==
  ASSUME DistInv, Once, NEW h \in Handlers
  PROVE  Count(h, free) + Cardinality({n \in DOMAIN busy : busy[n] = h})
           + Cardinality(held \cap {h}) = 1
<1> DEFINE F == {i \in DOMAIN free : free[i] = h}
<1> DEFINE B == {n \in DOMAIN busy : busy[n] = h}
<1> DEFINE H == held \cap {h}
<1>1. FreeOnce /\ FreeIdle /\ Tabled
  BY DEF DistInv, Tidy
<1>2. Count(h, free) = Cardinality(F)
  BY DEF Count
<1>3. h \in Range(free) => \E i : F = {i}
  <2> SUFFICES ASSUME h \in Range(free) PROVE \E i : F = {i}
    OBVIOUS
  <2>1. PICK i \in DOMAIN free : free[i] = h
    BY DEF Range
  <2>2. \A j \in F : j = i
    BY <1>1, <2>1 DEF FreeOnce, IsInjective
  <2>3. QED BY <2>1, <2>2
<1>4. h \notin Range(free) => F = {}
  BY DEF Range
<1>5. ~Pending(h) => B = {}
  BY <1>1 DEF Tabled
<1>6. Pending(h) => B = {No(cur[h])}
  BY <1>1 DEF Tabled
<1>7. h \in held => H = {h}
  OBVIOUS
<1>8. h \notin held => H = {}
  OBVIOUS
<1>9. /\ \A x : Cardinality({x}) = 1
      /\ Cardinality({}) = 0
  BY FS_Singleton, FS_EmptySet
<1> HIDE DEF F, B, H
<1>10. CASE Pending(h)
  <2>1. h \notin Range(free) /\ h \notin held
    BY <1>1, <1>10 DEF FreeIdle
  <2>2. Cardinality(F) = 0 /\ Cardinality(B) = 1 /\ Cardinality(H) = 0
    BY <1>4, <1>6, <1>8, <1>9, <1>10, <2>1
  <2>3. QED BY <1>2, <2>2 DEF B, H
<1>11. CASE ~Pending(h) /\ h \in Range(free)
  <2>1. h \notin held
    BY <1>1, <1>11 DEF FreeOnce
  <2>2. Cardinality(F) = 1 /\ Cardinality(B) = 0 /\ Cardinality(H) = 0
    BY <1>3, <1>5, <1>8, <1>9, <1>11, <2>1
  <2>3. QED BY <1>2, <2>2 DEF B, H
<1>12. CASE ~Pending(h) /\ h \notin Range(free)
  <2>1. h \in held
    BY <1>1, <1>12 DEF FreeIdle
  <2>2. Cardinality(F) = 0 /\ Cardinality(B) = 0 /\ Cardinality(H) = 1
    BY <1>4, <1>5, <1>7, <1>9, <1>12, <2>1
  <2>3. QED BY <1>2, <2>2 DEF B, H
<1>13. QED BY <1>10, <1>11, <1>12

\* The list of free handlers never runs dry, and no handler has two buffers, because
\* a handler was counted twice or not at all: buffers with numbers of their own keep
\* each handler in the list, in the pipeline's hand or in the table, across any calls
\* of stop() and start(), and in exactly one of these places as long as none stops.
THEOREM HandlersKept == Spec => []NoHandlerLost
<1>1. DistInv => NoHandlerLost
  <2> SUFFICES ASSUME DistInv, Distinct, NEW h \in Handlers
               PROVE  /\ h \in Range(free) \cup held \cup {busy[n] : n \in DOMAIN busy}
                      /\ Sequential /\ NeverStopped =>
                           Count(h, free) + Cardinality({n \in DOMAIN busy : busy[n] = h})
                             + Cardinality(held \cap {h}) = 1
    BY DEF NoHandlerLost
  <2>1. h \in Known
    BY DEF DistInv, Covers
  <2>2. QED BY <2>1, OnePlace DEF Known, Once
<1>2. QED BY <1>1, DistInvHolds, PTL

-----------------------------------------------------------------------------
(* The elements are a pool of workers *)

\* The state of the pool.
Given == IF Once THEN 1..Handed ELSE {}
Ready == IF Once THEN [i \in DOMAIN done |-> done[i].buf] ELSE <<>>

LEMMA PoolInit == DistInv /\ Init => Pool!Init
<1> SUFFICES ASSUME Init PROVE Given = {} /\ Ready = <<>>
  BY DEF Pool!Init, Given, Ready
<1>1. Handed = 0 /\ done = <<>>
  BY DEF Init, Handed
<1>2. QED BY <1>1 DEF Given, Ready

LEMMA PoolOperators ==
  /\ \A S : Pool!Cardinality(S) = Cardinality(S)
  /\ \A f : Pool!Range(f) = Range(f)
BY DEF Pool!Cardinality, Cardinality, Pool!Range, Range

LEMMA PoolStep ==
  DistInv /\ DistInv' /\ [Next]_vars => [Pool!Give \/ Pool!Finish]_<<Given, Ready>>
<1> SUFFICES ASSUME DistInv, DistInv', [Next]_vars
             PROVE  Pool!Give \/ Pool!Finish \/ (Given' = Given /\ Ready' = Ready)
  OBVIOUS
<1>1. setup' = setup
  BY DEF Next, Fixed, vars
<1>2. Once' = Once
  BY <1>1, Unchanging
<1>3. CASE ~Once
  BY <1>2, <1>3 DEF Given, Ready
<1> SUFFICES ASSUME Once PROVE Pool!Give \/ Pool!Finish \/ (Given' = Given /\ Ready' = Ready)
  BY <1>3
<1>4. /\ Given = 1..Handed /\ Ready = [i \in DOMAIN done |-> done[i].buf]
      /\ Given' = 1..Handed' /\ Ready' = [i \in DOMAIN done' |-> done'[i].buf]
  BY <1>2 DEF Given, Ready
<1>5. TypeOK /\ Linked /\ Logged /\ Worked /\ FreeOnce /\ FreeIdle /\ Tabled /\ Permits
  BY DEF DistInv, Tidy
<1>6. done \in Seq(Entry) /\ Handed \in Nat /\ Len(done) \in Nat /\ DOMAIN done = 1..Len(done)
  <2>1. done \in Seq(Entry)
    BY <1>5 DEF Logged
  <2>2. Handed \in Nat
    BY <1>5, DistFacts DEF Linked, Handing, TypeOK
  <2>3. QED BY <2>1, <2>2
<1>7. Len(Ready) = Len(done) /\ Ready \in Seq(Bufs)
  <2>1. \A i \in 1..Len(done) : done[i].buf \in Bufs
    <3>1. \A i \in 1..Len(done) : done[i] \in Entry
      BY <1>6
    <3>2. QED BY <3>1 DEF Entry
  <2>2. QED BY <1>4, <1>6, <2>1
<1>8. Cardinality(Given) = Handed
  BY <1>4, <1>6, FS_Interval
<1>9. CASE Still
  BY <1>4, <1>9 DEF Still
<1>10. ASSUME NEW h \in Handlers, Finishes(h)
       PROVE  Given' = Given /\ Ready' = Ready
  BY <1>1, <1>4, <1>5, <1>10, UnworkedChanges
<1>11. ASSUME NEW h \in Handlers, ppc = "take", GivenTo(h)
       PROVE  Pool!Give
  <2>1. h \notin Unworked /\ Handed' = Handed + 1 /\ Handed' = buf /\ done' = done
    BY <1>1, <1>5, <1>11, UnworkedChanges DEF GivenTo
  <2>2. Handed - Len(done) = Cardinality(Unworked)
    BY <1>5 DEF Worked
  <2>3. Cardinality(Unworked) < Cardinality(Handlers)
    BY <2>1, UnworkedFinite
  <2>4. Cardinality(Given) - Len(Ready) < Cardinality(Handlers)
    BY <1>7, <1>8, <2>2, <2>3
  <2>5. buf \in 1..MaxBuffers
    <3>1. buf \in 1..Len(setup.nos) /\ Len(setup.nos) \in 0..MaxBuffers /\ MaxBuffers \in Nat
      BY <1>5, <1>11, AtHand, DistFacts DEF TypeOK
    <3>2. QED BY <3>1
  <2>6. buf \notin Given /\ Given' = Given \cup {buf}
    BY <1>4, <1>6, <2>1
  <2>7. Ready' = Ready
    BY <1>4, <2>1
  <2>8. QED BY <2>4, <2>5, <2>6, <2>7, PoolOperators, Zenon DEF Pool!Give, Given, Ready
<1>12. ASSUME NEW h \in Handlers, WorkedBy(h)
       PROVE  Pool!Finish
  <2>1. /\ h \in Unworked /\ cur[h] \in 1..Handed /\ Handed' = Handed
        /\ done' = Append(done, [by |-> h, buf |-> cur[h]])
    BY <1>1, <1>5, <1>12, UnworkedChanges DEF WorkedBy
  <2>2. \A i \in DOMAIN done : done[i].buf # cur[h]
    BY <1>5, <2>1 DEF Worked, Unworked
  <2>3. cur[h] \in Given /\ cur[h] \notin Range(Ready) /\ Given' = Given
    BY <1>4, <2>1, <2>2 DEF Range
  <2>4. /\ DOMAIN done' = 1..Len(done) + 1 /\ done'[Len(done) + 1] = [by |-> h, buf |-> cur[h]]
        /\ \A i \in 1..Len(done) : done'[i] = done[i]
    BY <1>6, <2>1, AppendProperties
  <2>5. Ready' = Append(Ready, cur[h])
    <3>1. DOMAIN Append(Ready, cur[h]) = 1..Len(done) + 1 /\ Append(Ready, cur[h])[Len(done) + 1] = cur[h]
          /\ \A i \in 1..Len(done) : Append(Ready, cur[h])[i] = done[i].buf
      BY <1>4, <1>6, <1>7
    <3>2. DOMAIN Ready' = 1..Len(done) + 1
          /\ \A i \in 1..Len(done) + 1 : Ready'[i] = Append(Ready, cur[h])[i]
      BY <1>4, <1>6, <2>4, <3>1
    <3>3. QED BY <1>4, <3>1, <3>2
  <2>6. QED BY <2>3, <2>5, PoolOperators, Zenon DEF Pool!Finish, Given, Ready
<1>13. QED BY <1>5, <1>9, <1>10, <1>11, <1>12, Changes

\* Spread over the elements, each buffer is worked on once, by one of them, and never
\* are more under way than there are elements, whatever the order in which handlers
\* become free, are marked busy and take their buffers.
THEOREM ImplementsPool == Spec => PoolSpec
<1>1. DistInv /\ Init => Pool!Init
  BY PoolInit
<1>2. DistInv /\ DistInv' /\ [Next]_vars => [Pool!Give \/ Pool!Finish]_<<Given, Ready>>
  BY PoolStep
<1>3. QED BY <1>1, <1>2, DistInvHolds, PTL DEF Spec, PoolSpec, Pool!Spec, Given, Ready

-----------------------------------------------------------------------------
(* DIST_ALL *)

\* Its runs without a stop(), in which the handlers had begun.
Broad == ~Sequential /\ NeverStopped /\ ~early

\* A handler with nothing to do, and what its state says of its flag and its buffer.
Rested(h) == wsem[h] = 0 /\ hpc[h] \in {"off", "begin", "sleep"}
Duty(h) ==
  /\ wsem[h] \in {0, 1}
  /\ hpc[h] \in {"off", "begin"} => wsem[h] = 0 /\ cur[h] = 0
  /\ hpc[h] \notin {"off", "begin"} => active[h]
  /\ hpc[h] \in {"check", "work", "finish", "unmark"} => wsem[h] = 0 /\ flag[h] /\ cur[h] # 0
  /\ hpc[h] = "sleep" => (flag[h] <=> wsem[h] = 1) /\ (wsem[h] = 1 => cur[h] # 0)

\* Where the loops over the handlers are: who has the buffer at hand, and who has
\* finished with the one before it or with this one.
GivenAt(i) == ppc # "give" \/ i < index
IdleAt(i) == /\ ppc = "give" => i >= index
             /\ ppc = "wait" => i < index
Order == IsInjective(free) /\ Range(free) = Handlers
Turn == ppc \in {"give", "wait"} => index \in DOMAIN free /\ buf > 0
Duties == \A h \in Handlers : Duty(h)
Latest == \A i \in DOMAIN free : cur[free[i]] = IF GivenAt(i) THEN buf ELSE buf - 1
Resting == \A i \in DOMAIN free : IdleAt(i) => Rested(free[i])
Rounds == Broad => Order /\ Turn /\ Duties /\ Latest /\ Resting

\* What a handler has worked on: all it was given but for the last it has not done.
Wrote(h, d, n) ==
  LET mine == {i \in DOMAIN d : d[i].by = h}
  IN  /\ {d[i].buf : i \in mine} = 1..n
      /\ \A i, j \in mine : i < j => d[i].buf < d[j].buf
Got(h) == IF Undone(h) THEN cur[h] - 1 ELSE cur[h]
Histories == Broad => \A h \in Handlers : Wrote(h, done, Got(h))

LEMMA Writes ==
  ASSUME NEW S, NEW d \in Seq([by : Handlers, buf : S]), NEW g \in Handlers, NEW h \in Handlers,
         NEW n, NEW b \in S, Wrote(g, d, n)
  PROVE  LET e == Append(d, [by |-> h, buf |-> b])
         IN  /\ g = h /\ n \in Nat /\ b = n + 1 => Wrote(g, e, b)
             /\ g # h => Wrote(g, e, n)
<1> DEFINE r == [by |-> h, buf |-> b]
           e == Append(d, r)
           L == Len(d)
           md == {i \in DOMAIN d : d[i].by = g}
           me == {i \in DOMAIN e : e[i].by = g}
<1>1. r \in [by : Handlers, buf : S]
  OBVIOUS
<1>2. L \in Nat /\ DOMAIN d = 1..L /\ DOMAIN e = 1..L + 1 /\ e[L + 1] = r
      /\ \A i \in 1..L : e[i] = d[i]
  BY <1>1, AppendProperties
<1>3. r.by = h /\ r.buf = b
  OBVIOUS
<1>4. {d[i].buf : i \in md} = 1..n /\ \A i, j \in md : i < j => d[i].buf < d[j].buf
  BY DEF Wrote
<1> SUFFICES (g = h /\ n \in Nat /\ b = n + 1 => Wrote(g, e, b)) /\ (g # h => Wrote(g, e, n))
  OBVIOUS
<1> HIDE DEF r, e, L
<1>5. \A i \in md : i \in 1..L /\ e[i] = d[i] /\ d[i].buf \in 1..n
  BY <1>2, <1>4
<1>6. ASSUME g = h, n \in Nat, b = n + 1 PROVE Wrote(g, e, b)
  <2>1. me = md \cup {L + 1}
    BY <1>2, <1>3, <1>6
  <2>2. {e[i].buf : i \in me} = {d[i].buf : i \in md} \cup {b}
    <3>1. e[L + 1].buf = b
      BY <1>2, <1>3
    <3> HIDE DEF me, md
    <3>2. QED BY <1>5, <2>1, <3>1
  <2>3. {e[i].buf : i \in me} = 1..b
    <3>1. (1..n) \cup {b} = 1..b
      BY <1>6
    <3> HIDE DEF me, md
    <3>2. QED BY <1>4, <2>2, <3>1
  <2>4. ASSUME NEW i \in me, NEW j \in me, i < j PROVE e[i].buf < e[j].buf
    <3>1. i \in md
      BY <1>2, <1>5, <2>1, <2>4
    <3>2. CASE j \in md
      <4>1. d[i].buf < d[j].buf
        BY <1>4, <2>4, <3>1, <3>2
      <4>2. QED BY <1>5, <3>1, <3>2, <4>1
    <3>3. CASE j = L + 1
      <4>1. e[i].buf \in 1..n /\ e[j].buf = b
        BY <1>2, <1>3, <1>5, <3>1, <3>3
      <4>2. QED BY <1>6, <4>1
    <3>4. QED BY <2>1, <3>2, <3>3
  <2>5. QED BY <1>6, <2>3, <2>4 DEF Wrote
<1>7. ASSUME g # h PROVE Wrote(g, e, n)
  <2>1. me = md
    BY <1>2, <1>3, <1>7
  <2>2. {e[i].buf : i \in me} = {d[i].buf : i \in md}
    <3> HIDE DEF me, md
    <3>1. QED BY <1>5, <2>1
  <2>3. ASSUME NEW i \in me, NEW j \in me, i < j PROVE e[i].buf < e[j].buf
    <3>1. i \in md /\ j \in md
      BY <2>1
    <3>2. d[i].buf < d[j].buf
      BY <1>4, <2>3, <3>1
    <3>3. QED BY <1>5, <3>1, <3>2
  <2>4. QED BY <1>4, <1>7, <2>2, <2>3 DEF Wrote
<1>8. QED BY <1>6, <1>7

\* A step of a handler.
LEMMA DutyKept ==
  ASSUME TypeOK, ~Sequential, NEW h \in Handlers, Duty(h), Handler(h)
  PROVE  /\ Duty(h)' /\ (Rested(h) => Rested(h)')
         /\ UNCHANGED <<ppc, buf, index, free, cur>>
         /\ \A g \in Handlers : g # h =>
              hpc'[g] = hpc[g] /\ wsem'[g] = wsem[g] /\ active'[g] = active[g] /\ flag'[g] = flag[g]
         /\ \/ done' = done /\ Undone(h)' = Undone(h)
            \/ /\ Undone(h) /\ ~Undone(h)' /\ cur[h] # 0
               /\ done' = Append(done, [by |-> h, buf |-> cur[h]])
<1>1. /\ hpc \in [Handlers -> {"off", "begin", "sleep", "check", "work", "finish", "unmark"}]
      /\ flag \in [Handlers -> BOOLEAN] /\ active \in [Handlers -> BOOLEAN]
      /\ wsem \in [Handlers -> Nat]
  BY DEF TypeOK
<1>2. UNCHANGED <<ppc, buf, index, free, cur>>
  BY DEF Handler, Begins, Wakes, Acquire, Checks, Works, Finishes, Finished, Unmarks, Unmark, pipe
<1>3. \A g \in Handlers : g # h =>
        hpc'[g] = hpc[g] /\ wsem'[g] = wsem[g] /\ active'[g] = active[g] /\ flag'[g] = flag[g]
  BY <1>1 DEF Handler, Begins, Wakes, Acquire, Checks, Works, Finishes, Finished, Unmarks, Unmark,
              HandlerGoes
<1> DEFINE Kept == Duty(h)' /\ (Rested(h) => Rested(h)')
<1> DEFINE Same == done' = done /\ Undone(h)' = Undone(h)
<1> DEFINE New == /\ Undone(h) /\ ~Undone(h)' /\ cur[h] # 0
                  /\ done' = Append(done, [by |-> h, buf |-> cur[h]])
<1>4. CASE Begins(h)
  <2>1. /\ hpc[h] = "begin" /\ hpc'[h] = "sleep" /\ wsem' = wsem /\ active'[h] = TRUE
        /\ flag'[h] = FALSE /\ done' = done
    BY <1>1, <1>4 DEF Begins, HandlerGoes
  <2>2. Kept /\ Same
    BY <1>2, <2>1 DEF Duty, Rested, Undone
  <2>3. QED BY <1>2, <1>3, <2>2
<1>5. CASE Wakes(h)
  <2>1. /\ hpc[h] = "sleep" /\ hpc'[h] = "check" /\ wsem[h] = 1 /\ wsem'[h] = 0
        /\ active'[h] = active[h] /\ flag'[h] = flag[h] /\ done' = done
    BY <1>1, <1>5 DEF Wakes, Acquire, HandlerGoes, Duty
  <2>2. Kept /\ Same
    BY <1>2, <2>1 DEF Duty, Rested, Undone
  <2>3. QED BY <1>2, <1>3, <2>2
<1>6. CASE Checks(h)
  <2>1. /\ hpc[h] = "check" /\ hpc'[h] = "work" /\ wsem'[h] = wsem[h]
        /\ active'[h] = active[h] /\ flag'[h] = flag[h] /\ done' = done
    BY <1>1, <1>6 DEF Checks, HandlerGoes, Duty
  <2>2. Kept /\ Same
    BY <1>2, <2>1 DEF Duty, Rested, Undone
  <2>3. QED BY <1>2, <1>3, <2>2
<1>7. CASE Works(h)
  <2>1. /\ hpc[h] = "work" /\ hpc'[h] = "finish" /\ wsem'[h] = wsem[h]
        /\ active'[h] = active[h] /\ flag'[h] = flag[h]
    BY <1>1, <1>7 DEF Works, HandlerGoes
  <2>2. cur[h] # 0
    BY <2>1 DEF Duty
  <2>3. done' = Append(done, [by |-> h, buf |-> cur[h]])
    BY <1>7, <2>2 DEF Works
  <2>4. Kept /\ Undone(h) /\ ~Undone(h)'
    BY <1>2, <2>1 DEF Duty, Rested, Undone
  <2>5. QED BY <1>2, <1>3, <2>2, <2>3, <2>4
<1>8. CASE Finishes(h)
  <2>1. /\ hpc[h] = "finish" /\ hpc'[h] = "unmark" /\ wsem'[h] = wsem[h]
        /\ active'[h] = active[h] /\ flag'[h] = flag[h] /\ done' = done
    BY <1>1, <1>8 DEF Finishes, Finished, HandlerGoes
  <2>2. Kept /\ Same
    BY <1>2, <2>1 DEF Duty, Rested, Undone
  <2>3. QED BY <1>2, <1>3, <2>2
<1>9. CASE Unmarks(h)
  <2>1. /\ hpc[h] = "unmark" /\ hpc'[h] = "sleep" /\ wsem'[h] = wsem[h]
        /\ active'[h] = active[h] /\ flag'[h] = FALSE /\ done' = done
    BY <1>1, <1>9 DEF Unmarks, Unmark, HandlerGoes, Duty
  <2>2. Kept /\ Same
    BY <1>2, <2>1 DEF Duty, Rested, Undone
  <2>3. QED BY <1>2, <1>3, <2>2
<1>10. QED BY <1>4, <1>5, <1>6, <1>7, <1>8, <1>9 DEF Handler

LEMMA BroadSteps ==
  ASSUME TypeOK, Linked, Broad, [Next]_vars
  PROVE  \/ Arrives \/ GiveAll \/ WaitAll \/ \E h \in Handlers : Handler(h)
         \/ ReducerBegins \/ Reduces \/ Start \/ UNCHANGED vars
<1>1. ppc # "take" /\ NeverStopped
  BY DEF Broad, Linked, Phases
<1>2. ~TakeFree /\ ~TakeAgain
  BY <1>1 DEF TakeFree, TakeAgain
<1>3. QED BY <1>1, <1>2, NoStop DEF Next, Fixed, Pipe, Controller

LEMMA BroadBefore == [Next]_vars /\ Broad' => Broad
<1> SUFFICES ASSUME [Next]_vars, Broad' PROVE Broad
  OBVIOUS
<1>1. setup' = setup
  BY DEF Next, Fixed, vars
<1>2. Sequential' = Sequential /\ NeverStopped' = NeverStopped
  BY <1>1, Unchanging
<1>3. ~early'
  BY DEF Broad
<1>4. ~early
  BY <1>3, Zenon DEF Next, Fixed, vars, Pipe, Controller, Handler, Arrives, PipeEnds, TakeFree, TakeAgain,
     GiveAll, WaitAll, Give1, Give, Start, StopReads, Stops, StopAll, ReducerBegins, Reduces,
     Begins, Wakes, Acquire, Checks, Works, Finishes, Finished, Unmarks, Unmark
<1>5. QED BY <1>2, <1>4 DEF Broad

\* What a step does that touches no handler.
LEMMA RoundKept ==
  ASSUME Order, Duties, Histories, Broad, UNCHANGED <<free, hpc, flag, active, wsem, cur, done>>
  PROVE  /\ Order' /\ Duties' /\ (\A h \in Handlers : Wrote(h, done', Got(h)'))
         /\ \A h \in Handlers : Rested(h)' = Rested(h)
<1>1. Order'
  BY DEF Order
<1>2. Duties' /\ \A h \in Handlers : Rested(h)' = Rested(h)
  BY DEF Duties, Duty, Rested
<1>3. \A h \in Handlers : Got(h)' = Got(h)
  BY DEF Got, Undone
<1>4. \A h \in Handlers : Wrote(h, done', Got(h)')
  BY <1>3 DEF Histories
<1>5. QED BY <1>1, <1>2, <1>4

LEMMA RoundsStep ==
  TypeOK /\ Linked /\ Logged /\ Rounds /\ Histories /\ [Next]_vars => Rounds' /\ Histories'
<1> SUFFICES ASSUME TypeOK, Linked, Logged, Rounds, Histories, [Next]_vars, Broad'
             PROVE  /\ Order' /\ Turn' /\ Duties' /\ Latest' /\ Resting'
                    /\ \A h \in Handlers : Wrote(h, done', Got(h)')
  BY DEF Rounds, Histories
<1>1. Broad /\ ~early' /\ ~Sequential
  BY BroadBefore DEF Broad
<1>2. Order /\ Turn /\ Duties /\ Latest /\ Resting /\ \A h \in Handlers : Wrote(h, done, Got(h))
  BY <1>1 DEF Rounds, Histories
<1>3. /\ free \in Seq(Handlers) /\ DOMAIN free = 1..Len(free) /\ Len(free) \in Nat
      /\ \A i \in DOMAIN free : free[i] \in Handlers
      /\ buf \in 0..Len(setup.nos) /\ buf \in Nat /\ index \in Nat \ {0}
      /\ hpc \in [Handlers -> {"off", "begin", "sleep", "check", "work", "finish", "unmark"}]
      /\ flag \in [Handlers -> BOOLEAN] /\ active \in [Handlers -> BOOLEAN]
      /\ wsem \in [Handlers -> Nat] /\ cur \in [Handlers -> 0..buf]
  <2>1. free \in Seq(Handlers) /\ buf \in 0..Len(setup.nos) /\ Len(setup.nos) \in Nat
    BY DistFacts DEF TypeOK
  <2>2. buf \in Nat
    BY <2>1
  <2>3. QED BY <2>1, <2>2 DEF TypeOK
<1>len. PICK len \in Nat : len = Len(free) /\ DOMAIN free = 1..len
  BY <1>3
<1>int. buf \in Nat /\ index \in Nat \ {0} /\ \A i \in DOMAIN free : i \in 1..len
  BY <1>3, <1>len
<1>4. CASE Arrives
  <2>1. /\ ppc = "idle" /\ ppc' = "give" /\ buf' = buf + 1 /\ index' = 1
        /\ UNCHANGED <<free, hpc, flag, active, wsem, cur, done>>
    BY <1>1, <1>4 DEF Arrives, hand
  <2>2. /\ Order' /\ Duties' /\ (\A h \in Handlers : Wrote(h, done', Got(h)'))
        /\ \A h \in Handlers : Rested(h)' = Rested(h)
    BY <1>1, <1>2, <2>1, RoundKept
  <2>3. Turn'
    <3>1. \E i \in DOMAIN free : TRUE
      BY <1>2, DistFacts DEF Order, Range
    <3>2. 1 \in DOMAIN free
      BY <1>3, <3>1
    <3>3. QED BY <1>3, <2>1, <3>2 DEF Turn
  <2>4. Latest'
    <3>1. \A i \in DOMAIN free : cur[free[i]] = buf
      BY <1>2, <2>1 DEF Latest, GivenAt
    <3>2. \A i \in DOMAIN free : ~GivenAt(i)'
      BY <1>3, <2>1 DEF GivenAt
    <3>3. buf' - 1 = buf
      BY <1>3, <2>1
    <3>4. QED BY <2>1, <3>1, <3>2, <3>3 DEF Latest
  <2>5. Resting'
    <3>1. \A i \in DOMAIN free : Rested(free[i])
      BY <1>2, <2>1 DEF Resting, IdleAt
    <3>2. \A i \in DOMAIN free : Rested(free[i])'
      BY <2>1, <3>1 DEF Rested
    <3>3. QED BY <2>1, <3>2 DEF Resting, Rested
  <2>6. QED BY <2>2, <2>3, <2>4, <2>5
<1>5. CASE GiveAll
  <2>0. ppc = "give" /\ index \in DOMAIN free /\ buf > 0
    BY <1>2, <1>5 DEF GiveAll, Turn
  <2>h. PICK h \in Handlers : h = free[index]
    BY <1>3, <2>0
  <2>1. ppc = "give" /\ Give(h) /\ free' = free
    BY <1>5, <2>h DEF GiveAll
  <2>2. index \in DOMAIN free /\ buf > 0 /\ h \in Handlers
    BY <2>0
  <2>3. \/ index < len /\ index' = index + 1 /\ ppc' = "give"
        \/ index = len /\ index' = 1 /\ ppc' = "wait"
    <3>1. IF index < len THEN index' = index + 1 /\ UNCHANGED ppc ELSE index' = 1 /\ ppc' = "wait"
      BY <1>5, <1>len DEF GiveAll
    <3>2. index \in 1..len
      BY <1>int, <2>2
    <3>3. QED BY <2>1, <3>1, <3>2
  <2>4. \A i \in DOMAIN free : free[i] = h => i = index
    BY <1>2, <2>2, <2>h DEF Order, IsInjective
  <2>5. Rested(h)
    <3>1. IdleAt(index)
      BY <1>int, <2>1 DEF IdleAt
    <3>2. QED BY <1>2, <2>2, <2>h, <3>1 DEF Resting
  <2>6. /\ ~flag[h] /\ flag' = [flag EXCEPT ![h] = TRUE] /\ cur' = [cur EXCEPT ![h] = buf]
        /\ wsem' = [wsem EXCEPT ![h] = @ + 1]
        /\ UNCHANGED <<buf, done, hpc, active>>
    BY <2>1 DEF Give
  <2>7. hpc[h] \notin {"off", "begin"}
    BY <1>1, <2>1, Zenon DEF Give
  <2>8. hpc[h] = "sleep" /\ wsem[h] = 0
    BY <2>5, <2>7 DEF Rested
  <2>9. flag'[h] /\ cur'[h] = buf /\ wsem'[h] = 1
        /\ \A g \in Handlers : g # h => flag'[g] = flag[g] /\ cur'[g] = cur[g] /\ wsem'[g] = wsem[g]
    BY <1>3, <2>2, <2>6, <2>8
  <2>10. Order'
    BY <1>2, <2>1 DEF Order
  <2>11. Turn'
    <3>1. index' \in 1..len
      BY <1>int, <2>2, <2>3
    <3>2. QED BY <1>len, <2>1, <2>2, <2>6, <3>1 DEF Turn
  <2>12. Duty(h)'
    <3>1. active[h]
      BY <1>2, <2>2, <2>8 DEF Duties, Duty
    <3>2. buf # 0
      BY <2>2, <1>int
    <3>3. hpc'[h] = "sleep" /\ active'[h]
      BY <2>6, <2>8, <3>1
    <3>4. QED BY <2>9, <3>2, <3>3 DEF Duty
  <2>13. \A g \in Handlers : g # h => Duty(g)'
    <3>1. \A g \in Handlers : Duty(g)
      BY <1>2 DEF Duties
    <3>2. QED BY <2>6, <2>9, <3>1 DEF Duty
  <2>14. Latest'
    <3>1. ASSUME NEW i \in DOMAIN free
          PROVE  cur'[free[i]] = IF GivenAt(i)' THEN buf ELSE buf - 1
      <4>1. CASE i = index
        <5>1. GivenAt(i)'
          BY <1>int, <2>3, <4>1 DEF GivenAt
        <5>2. QED BY <2>9, <2>h, <4>1, <5>1
      <4>2. CASE i # index
        <5>1. free[i] # h /\ free[i] \in Handlers
          BY <1>3, <2>4, <4>2
        <5>2. cur'[free[i]] = IF GivenAt(i) THEN buf ELSE buf - 1
          BY <1>2, <2>9, <5>1 DEF Latest
        <5>3. GivenAt(i)' <=> GivenAt(i)
          <6>1. i \in 1..len
            BY <1>int, <3>1
          <6>2. QED BY <1>int, <2>1, <2>3, <4>2, <6>1 DEF GivenAt
        <5>4. QED BY <5>2, <5>3
      <4>3. QED BY <4>1, <4>2
    <3>2. QED BY <2>1, <2>6, <3>1 DEF Latest
  <2>15. Resting'
    <3>1. ASSUME NEW i \in DOMAIN free, IdleAt(i)' PROVE Rested(free[i])'
      <4>1. IdleAt(i) /\ i # index
        <5>1. i \in 1..len
          BY <1>int, <3>1
        <5>2. QED BY <1>int, <2>1, <2>3, <3>1, <5>1 DEF IdleAt
      <4>2. free[i] # h /\ free[i] \in Handlers /\ Rested(free[i])
        BY <1>2, <1>3, <2>4, <4>1 DEF Resting
      <4>3. QED BY <2>1, <2>6, <2>9, <4>2 DEF Rested
    <3>2. QED BY <2>1, <3>1 DEF Resting
  <2>16. \A g \in Handlers : Got(g)' = Got(g)
    <3>1. \A g \in Handlers : g # h => Got(g)' = Got(g)
      BY <2>6, <2>9 DEF Got, Undone
    <3>2. Got(h)' = buf - 1
      <4>1. Undone(h)'
        BY <2>6, <2>8, <2>9 DEF Undone
      <4>2. QED BY <2>9, <4>1 DEF Got
    <3>3. cur[h] = buf - 1
      <4>1. ~GivenAt(index)
        BY <1>3, <2>1 DEF GivenAt
      <4>2. QED BY <1>2, <2>2, <2>h, <4>1 DEF Latest
    <3>4. Got(h) = buf - 1
      <4>1. ~Undone(h)
        BY <2>8 DEF Undone
      <4>2. QED BY <3>3, <4>1 DEF Got
    <3>5. QED BY <3>1, <3>2, <3>4
  <2>17. \A g \in Handlers : Wrote(g, done', Got(g)')
    BY <1>2, <2>6, <2>16
  <2>18. Duties'
    BY <2>12, <2>13 DEF Duties
  <2>19. QED BY <2>10, <2>11, <2>14, <2>15, <2>17, <2>18
<1>6. CASE WaitAll
  <2>0. ppc = "wait" /\ index \in DOMAIN free /\ buf > 0
    BY <1>2, <1>6 DEF WaitAll, Turn
  <2>h. PICK h \in Handlers : h = free[index]
    BY <1>3, <2>0
  <2>1. ppc = "wait" /\ ~flag[h] /\ UNCHANGED <<buf, free, hpc, flag, active, wsem, cur, done>>
    BY <1>6, <2>h DEF WaitAll, hand
  <2>2. index \in DOMAIN free /\ buf > 0 /\ h \in Handlers
    BY <2>0
  <2>3. \/ index < len /\ index' = index + 1 /\ ppc' = "wait"
        \/ index = len /\ index' = 1 /\ ppc' = "idle"
    <3>1. IF index < len THEN index' = index + 1 /\ UNCHANGED ppc ELSE index' = 1 /\ ppc' = "idle"
      BY <1>6, <1>len DEF WaitAll
    <3>2. index \in 1..len
      BY <1>int, <2>2
    <3>3. QED BY <2>1, <3>1, <3>2
  <2>4. /\ Order' /\ Duties' /\ (\A g \in Handlers : Wrote(g, done', Got(g)'))
        /\ \A g \in Handlers : Rested(g)' = Rested(g)
    BY <1>1, <1>2, <2>1, RoundKept
  <2>5. Rested(h)
    <3>1. cur[h] = buf
      BY <1>2, <2>1, <2>2, <2>h DEF Latest, GivenAt
    <3>2. Duty(h)
      BY <1>2, <2>2 DEF Duties
    <3>3. hpc[h] = "sleep" /\ wsem[h] = 0
      BY <1>3, <2>1, <2>2, <3>1, <3>2 DEF Duty
    <3>4. QED BY <3>3 DEF Rested
  <2>6. Turn'
    <3>1. index' \in 1..len
      BY <1>int, <2>2, <2>3
    <3>2. QED BY <1>len, <2>1, <2>2, <3>1 DEF Turn
  <2>7. Latest'
    BY <1>2, <2>1, <2>3 DEF Latest, GivenAt
  <2>8. Resting'
    <3>1. ASSUME NEW i \in DOMAIN free, IdleAt(i)' PROVE Rested(free[i])
      <4>1. IdleAt(i) \/ i = index
        <5>1. i \in 1..len
          BY <1>int, <3>1
        <5>2. QED BY <1>int, <2>1, <2>3, <3>1, <5>1 DEF IdleAt
      <4>2. QED BY <1>2, <2>5, <2>h, <4>1 DEF Resting
    <3>2. ASSUME NEW i \in DOMAIN free, IdleAt(i)' PROVE Rested(free[i])'
      BY <2>1, <3>1, <3>2 DEF Rested
    <3>3. QED BY <2>1, <3>2 DEF Resting
  <2>9. QED BY <2>4, <2>6, <2>7, <2>8
<1>7. CASE \E h \in Handlers : Handler(h)
  <2>1. PICK h \in Handlers : Handler(h)
    BY <1>7
  <2>2. Duty(h)
    BY <1>2 DEF Duties
  <2>3. /\ Duty(h)' /\ (Rested(h) => Rested(h)')
        /\ UNCHANGED <<ppc, buf, index, free, cur>>
        /\ \A g \in Handlers : g # h =>
             hpc'[g] = hpc[g] /\ wsem'[g] = wsem[g] /\ active'[g] = active[g] /\ flag'[g] = flag[g]
        /\ \/ done' = done /\ Undone(h)' = Undone(h)
           \/ /\ Undone(h) /\ ~Undone(h)' /\ cur[h] # 0
              /\ done' = Append(done, [by |-> h, buf |-> cur[h]])
    BY <1>1, <2>1, <2>2, DutyKept
  <2>4. Order' /\ Turn' /\ Latest'
    BY <1>2, <2>3 DEF Order, Turn, Latest, GivenAt
  <2>5. Duties'
    <3>1. \A g \in Handlers : g # h => Duty(g)'
      BY <1>2, <2>3 DEF Duties, Duty
    <3>2. QED BY <2>3, <3>1 DEF Duties
  <2>6. Resting'
    <3>1. \A g \in Handlers : Rested(g) => Rested(g)'
      BY <2>3 DEF Rested
    <3>2. ASSUME NEW i \in DOMAIN free, IdleAt(i)' PROVE Rested(free[i])'
      <4>1. PICK g \in Handlers : g = free[i] /\ Rested(g)
        BY <1>2, <1>3, <2>3, <3>2 DEF Resting, IdleAt
      <4>2. Rested(g)' /\ free'[i] = g
        BY <2>3, <3>1, <4>1
      <4>3. QED BY <4>2, <2>3 DEF Rested
    <3>3. QED BY <2>3, <3>2 DEF Resting
  <2>7. \A g \in Handlers : g # h => Got(g)' = Got(g)
    BY <2>3 DEF Got, Undone
  <2>8. CASE done' = done /\ Undone(h)' = Undone(h)
    <3>1. Got(h)' = Got(h)
      BY <2>3, <2>8 DEF Got
    <3>2. \A g \in Handlers : Wrote(g, done', Got(g)')
      BY <1>2, <2>7, <2>8, <3>1
    <3>3. QED BY <2>4, <2>5, <2>6, <3>2
  <2>9. CASE /\ Undone(h) /\ ~Undone(h)' /\ cur[h] # 0
             /\ done' = Append(done, [by |-> h, buf |-> cur[h]])
    <3>1. PICK c \in 0..buf : c = cur[h]
      BY <1>3
    <3>2. c # 0 /\ c - 1 \in Nat /\ (c - 1) + 1 = c
      BY <1>int, <2>9, <3>1
    <3>3. c \in Bufs
      <4>1. buf \in 0..Len(setup.nos) /\ Len(setup.nos) \in Nat
        BY DistFacts DEF TypeOK
      <4>2. QED BY <3>2, <4>1 DEF Bufs
    <3>4. done \in Seq([by : Handlers, buf : Bufs])
      BY DEF Logged, Entry
    <3>5. Got(h) = c - 1 /\ Got(h)' = c
      BY <2>3, <2>9, <3>1 DEF Got
    <3>6. Wrote(h, done, c - 1)
      BY <1>2, <3>5
    <3>7. Wrote(h, done', Got(h)')
      BY <2>9, <3>1, <3>2, <3>3, <3>4, <3>5, <3>6, Writes
    <3>8. ASSUME NEW g \in Handlers, g # h PROVE Wrote(g, done', Got(g)')
      <4>1. Wrote(g, done, Got(g)) /\ Got(g)' = Got(g)
        BY <1>2, <2>7, <3>8
      <4>2. Wrote(g, done', Got(g))
        BY <2>9, <3>1, <3>3, <3>4, <3>8, <4>1, Writes
      <4>3. QED BY <4>1, <4>2
    <3>9. QED BY <2>4, <2>5, <2>6, <3>7, <3>8
  <2>10. QED BY <2>3, <2>8, <2>9
<1>8. CASE ReducerBegins \/ Reduces \/ UNCHANGED vars
  <2>1. UNCHANGED <<ppc, buf, index, free, hpc, flag, active, wsem, cur, done>>
    BY <1>8 DEF ReducerBegins, Reduces, vars, pipe, hand
  <2>2. /\ Order' /\ Duties' /\ (\A h \in Handlers : Wrote(h, done', Got(h)'))
        /\ \A h \in Handlers : Rested(h)' = Rested(h)
    BY <1>1, <1>2, <2>1, RoundKept
  <2>3. Turn' /\ Latest' /\ Resting'
    BY <1>2, <2>1 DEF Turn, Latest, Resting, GivenAt, IdleAt, Rested
  <2>4. QED BY <2>2, <2>3
<1>9. CASE Start
  <2>1. /\ ppc = "off" /\ ppc' = "idle" /\ UNCHANGED <<buf, index, free, flag, active, wsem, cur, done>>
    BY <1>9 DEF Start
  <2>2. \A g \in Handlers : hpc'[g] = hpc[g] \/ (hpc[g] = "off" /\ hpc'[g] = "begin")
    BY <1>9 DEF Start
  <2>3. Order' /\ Turn' /\ Latest'
    BY <1>2, <2>1 DEF Order, Turn, Latest, GivenAt
  <2>4. \A g \in Handlers : Duty(g)' /\ (Rested(g) => Rested(g)') /\ Got(g)' = Got(g)
    <3>1. \A g \in Handlers : Duty(g)'
      BY <1>2, <2>1, <2>2 DEF Duties, Duty
    <3>2. \A g \in Handlers : (Rested(g) => Rested(g)') /\ Got(g)' = Got(g)
      BY <2>1, <2>2 DEF Rested, Got, Undone
    <3>3. QED BY <3>1, <3>2
  <2>5. Resting'
    <3>1. ASSUME NEW i \in DOMAIN free PROVE Rested(free[i])'
      <4>1. PICK g \in Handlers : g = free[i] /\ Rested(g)
        BY <1>2, <1>3, <2>1 DEF Resting, IdleAt
      <4>2. Rested(g)' /\ free'[i] = g
        BY <2>1, <2>4, <4>1
      <4>3. QED BY <4>2, <2>1 DEF Rested
    <3>2. QED BY <2>1, <3>1 DEF Resting
  <2>6. \A g \in Handlers : Wrote(g, done', Got(g)')
    BY <1>2, <2>1, <2>4
  <2>7. QED BY <2>3, <2>4, <2>5, <2>6 DEF Duties
<1>10. QED BY <1>1, <1>4, <1>5, <1>6, <1>7, <1>8, <1>9, BroadSteps

LEMMA RoundsInit == Init => Rounds /\ Histories
<1> SUFFICES ASSUME Init PROVE Rounds /\ Histories
  OBVIOUS
<1>1. /\ ppc = "off" /\ buf = 0 /\ done = <<>> /\ free = SetToSeq(Handlers)
      /\ \A h \in Handlers : hpc[h] = "off" /\ wsem[h] = 0 /\ cur[h] = 0
  BY DEF Init
<1>2. Order /\ \A i \in DOMAIN free : free[i] \in Handlers
  BY <1>1, SetInSeq, DistFacts DEF Order
<1>3. Turn /\ Duties
  BY <1>1 DEF Turn, Duties, Duty
<1>4. Latest /\ Resting
  BY <1>1, <1>2 DEF Latest, Resting, GivenAt, Rested
<1>5. ASSUME NEW h \in Handlers PROVE Wrote(h, done, Got(h))
  <2>1. Got(h) = 0
    BY <1>1 DEF Got, Undone
  <2>2. DOMAIN done = {} /\ 1..0 = {}
    BY <1>1
  <2>3. QED BY <2>1, <2>2 DEF Wrote
<1>6. QED BY <1>2, <1>3, <1>4, <1>5 DEF Rounds, Histories

LEMMA RoundsHold == Spec => [](DistInv /\ Rounds /\ Histories)
<1>1. Init => DistInv /\ Rounds /\ Histories
  BY DistInvInit, RoundsInit
<1>2. DistInv /\ Rounds /\ Histories /\ [Next]_vars => (DistInv /\ Rounds /\ Histories)'
  BY DistInvStep, RoundsStep DEF DistInv
<1>3. QED BY <1>1, <1>2, PTL DEF Spec

\* With DIST_ALL processBuffer() returns when every element has worked on the
\* buffer, once and after the buffers before it, however many handlers there are,
\* provided that their threads had begun.
THEOREM AllWorked == Spec => []AllDone
<1>1. DistInv /\ Rounds /\ Histories => AllDone
  <2> SUFFICES ASSUME DistInv, Rounds, Histories, Broad, ppc = "idle", NEW h \in Handlers
               PROVE  Wrote(h, done, buf)
    BY DEF AllDone, Broad, Wrote
  <2>1. PICK i \in DOMAIN free : free[i] = h
    BY DEF Rounds, Order, Range
  <2>2. cur[h] = buf /\ Rested(h)
    BY <2>1 DEF Rounds, Latest, Resting, GivenAt, IdleAt
  <2>3. Got(h) = buf
    BY <2>2 DEF Got, Undone, Rested
  <2>4. QED BY <2>3 DEF Histories
<1>2. QED BY <1>1, RoundsHold, PTL
=============================================================================
