----------------------- MODULE BaseLmmPipeline_proofs -----------------------
(* Theorems about BaseLmmPipeline, for every value of its constants. *)
EXTENDS BaseLmmPipeline, FiniteSetTheorems, SequenceTheorems, TLAPS

Live == {"created", "loop", "op", "got", "ending", "counted"}

\* The threads of this session that have counted themselves.
Counted == {i \in threads : th[i] \in {"counted", "done"}}

\* A call under way is one of Script; start() goes through the elements in order
\* and makes each thread once; and only threads of the list run.
Calling ==
  /\ cpc # "next" => at <= Len(Script)
  /\ cpc \in {"flush", "start", "thread", "started"} => session = at /\ Script[at] = "start"
  /\ cpc \in {"flush", "start", "thread"} => \A i \in threads : i < ci
  /\ session = 0 => \A i \in Elements : th[i] = "none"
  /\ \A i \in Elements : th[i] = "got" => hand[i] # 0
  /\ Alive => /\ \A i \in Elements : th[i] \in Live => i \in threads
              /\ finished = Cardinality(Counted)

-----------------------------------------------------------------------------
(* Types *)

LEMMA Constants ==
  /\ N \in Nat \ {0} /\ MaxQueue \in Nat \ {0} /\ Len(Script) \in Nat
  /\ MayFail \subseteq Elements /\ 1 \in Elements /\ N \in Elements
  /\ \A i \in Elements : i \in Nat \ {0} /\ i <= N /\ i \in Queues /\ i - 1 \in Queues
  /\ \A k \in Sessions : k \in Nat \ {0}
BY PipelineAssumption DEF PipelineAssumption, Elements, Queues, Sessions

LEMMA CountedFinite ==
  ASSUME threads \subseteq Elements
  PROVE  /\ IsFiniteSet(Elements) /\ Cardinality(Elements) = N
         /\ IsFiniteSet(threads) /\ Cardinality(threads) \in Nat
         /\ IsFiniteSet(Counted) /\ Cardinality(Counted) \in Nat
         /\ Cardinality(Counted) <= N
<1>1. IsFiniteSet(Elements) /\ Cardinality(Elements) = N
  BY Constants, FS_Interval DEF Elements
<1>2. Counted \in SUBSET Elements /\ threads \in SUBSET Elements
  BY DEF Counted
<1>3. QED BY <1>1, <1>2, FS_Subset, FS_CardinalityType

LEMMA InitTyped == Init => TypeOK /\ Calling
<1> SUFFICES ASSUME Init PROVE TypeOK /\ Calling
  OBVIOUS
<1>1. TypeOK
  <2>1. /\ el \in [Elements -> States] /\ qstate \in [Queues -> States] /\ state \in States
        /\ threads \subseteq Elements
        /\ th \in [Elements -> {"none", "created", "loop", "op", "got", "ending", "counted", "done"}]
        /\ exit \in [Elements -> BOOLEAN] /\ hand \in [Elements -> Sessions \cup {0}]
        /\ emitted \in BOOLEAN /\ session \in Sessions \cup {0}
        /\ dead \in {"no", "quit", "crash"} /\ quitting \in BOOLEAN
        /\ reader \in [Sessions -> {"none", "loop", "done"}]
        /\ cpc \in {"next", "flush", "start", "thread", "started", "stop", "exit", "wait"}
    BY DEF Init, States
  <2>2. finished \in 0..N /\ at \in 1..Len(Script) + 1 /\ ci \in Elements
    BY Constants DEF Init
  <2>3. <<>> \in Seq(Sessions) /\ Len(<<>>) <= MaxQueue
    BY Constants
  <2>4. queue \in [Queues -> Seq(Sessions)] /\ \A q \in Queues : Len(queue[q]) <= MaxQueue
    BY <2>3 DEF Init
  <2>5. QED BY <2>1, <2>2, <2>4 DEF TypeOK
<1>2. Calling
  <2>1. Counted = {} /\ Cardinality({}) = 0
    BY FS_EmptySet DEF Init, Counted
  <2>2. QED BY <2>1 DEF Init, Calling, Live
<1>3. QED BY <1>1, <1>2

LEMMA NextTypeOK == TypeOK /\ Calling /\ [Next]_vars => TypeOK'
<1> SUFFICES ASSUME TypeOK, Calling, [Next]_vars PROVE TypeOK'
  OBVIOUS
<1> DEFINE Labels == {"none", "created", "loop", "op", "got", "ending", "counted", "done"}
<1>c. /\ N \in Nat \ {0} /\ MaxQueue \in Nat \ {0} /\ Len(Script) \in Nat
      /\ 1 \in Elements /\ N \in Elements
      /\ \A i \in Elements : i \in Nat \ {0} /\ i <= N /\ i \in Queues /\ i - 1 \in Queues
      /\ \A i \in Elements : i # N => i + 1 \in Elements
  BY Constants DEF Elements
<1>t. /\ el \in [Elements -> States] /\ qstate \in [Queues -> States] /\ state \in States
      /\ queue \in [Queues -> Seq(Sessions)]
      /\ threads \subseteq Elements /\ th \in [Elements -> Labels]
      /\ exit \in [Elements -> BOOLEAN] /\ hand \in [Elements -> Sessions \cup {0}]
      /\ finished \in 0..N /\ emitted \in BOOLEAN /\ session \in Sessions \cup {0}
      /\ dead \in {"no", "quit", "crash"} /\ quitting \in BOOLEAN
      /\ reader \in [Sessions -> {"none", "loop", "done"}]
      /\ at \in 1..Len(Script) + 1 /\ ci \in Elements
      /\ cpc \in {"next", "flush", "start", "thread", "started", "stop", "exit", "wait"}
  BY DEF TypeOK
<1>l. \A q \in Queues : Len(queue[q]) \in Nat /\ Len(queue[q]) <= MaxQueue
  BY <1>t DEF TypeOK
<1>e. <<>> \in Seq(Sessions) /\ Len(<<>>) <= MaxQueue
  BY <1>c
<1>s. "STARTED" \in States /\ "STOPPED" \in States
  BY DEF States
<1> DEFINE Queued == /\ queue' \in [Queues -> Seq(Sessions)]
                     /\ \A q \in Queues : Len(queue'[q]) <= MaxQueue
<1>q. UNCHANGED queue => Queued
  BY <1>t, <1>l
<1>f. ASSUME NEW q \in Queues, NEW s \in Seq(Sessions), Len(s) <= MaxQueue,
             queue' = [queue EXCEPT ![q] = s]
      PROVE  Queued
  BY <1>f, <1>t, <1>l
<1>g. ASSUME NEW q \in Queues, NEW r \in Queues,
             queue' = [queue EXCEPT ![q] = <<>>, ![r] = <<>>]
      PROVE  Queued
  BY <1>g, <1>e, <1>t, <1>l
<1>h. \A q \in Queues : queue[q] # <<>> =>
        /\ Head(queue[q]) \in Sessions /\ Tail(queue[q]) \in Seq(Sessions)
        /\ Len(Tail(queue[q])) <= MaxQueue
  BY <1>c, <1>t, <1>l
<1> HIDE DEF Queued
<1> DEFINE Typed == /\ el' \in [Elements -> States] /\ qstate' \in [Queues -> States]
                    /\ state' \in States /\ Queued
                    /\ threads' \subseteq Elements /\ th' \in [Elements -> Labels]
                    /\ exit' \in [Elements -> BOOLEAN]
                    /\ hand' \in [Elements -> Sessions \cup {0}]
                    /\ finished' \in 0..N /\ emitted' \in BOOLEAN
                    /\ session' \in Sessions \cup {0}
                    /\ dead' \in {"no", "quit", "crash"} /\ quitting' \in BOOLEAN
                    /\ reader' \in [Sessions -> {"none", "loop", "done"}]
                    /\ at' \in 1..Len(Script) + 1 /\ ci' \in Elements
                    /\ cpc' \in {"next", "flush", "start", "thread", "started", "stop",
                                 "exit", "wait"}
<1> SUFFICES Typed
  BY Zenon DEF TypeOK, Queued
<1> USE DEF thVars, ctl, GoTo, ThreadOnly
<1>1. CASE CallStart
  <2>1. at \in Sessions
    BY <1>1, <1>t, <1>c DEF CallStart, Calls, Sessions
  <2>2. dead' \in {"no", "crash"} /\ finished' = 0
    BY <1>1 DEF CallStart, CountReset
  <2>3. Queued
    BY <1>1, <1>q DEF CallStart
  <2>4. /\ el' = el /\ qstate' = qstate /\ state' = state /\ th' = th /\ exit' = exit
        /\ hand' = hand /\ reader' = reader /\ at' = at /\ threads' = {} /\ emitted' = FALSE
        /\ quitting' = FALSE /\ cpc' = "flush" /\ ci' = 1 /\ session' = at
    BY <1>1 DEF CallStart
  <2>5. 0 \in 0..N
    BY <1>c
  <2> HIDE DEF Labels
  <2>6. QED BY <1>t, <1>c, <2>1, <2>2, <2>3, <2>4, <2>5, Zenon
<1>2. CASE StartFlush
  <2>1. Queued
    BY <1>2, <1>t, <1>c, <1>g DEF StartFlush
  <2>2. QED BY <1>2, <1>t, <2>1 DEF StartFlush
<1>3. CASE StartElement
  <2>1. at' \in 1..Len(Script) + 1
    BY <1>3, <1>t, <1>c DEF StartElement, Calling
  <2>2. el' \in [Elements -> States] /\ qstate' \in [Queues -> States]
    <3>1. CASE UNCHANGED <<el, qstate>>
      BY <1>t, <3>1
    <3>2. CASE ~UNCHANGED <<el, qstate>>
      <4>1. /\ el' = [el EXCEPT ![ci] = "STARTED"]
            /\ qstate' = [qstate EXCEPT ![ci - 1] = "STARTED", ![ci] = "STARTED"]
        BY <1>3, <3>2 DEF StartElement
      <4>2. QED BY <1>s, <1>t, <4>1
    <3>3. QED BY <3>1, <3>2
  <2>3. QED BY <1>3, <1>t, <1>q, <2>1, <2>2 DEF StartElement
<1>4. CASE StartThread
  BY <1>4, <1>t, <1>c, <1>q DEF StartThread
<1>5. CASE StartReader
  <2>1. at' \in 1..Len(Script) + 1
    BY <1>5, <1>t, <1>c DEF StartReader, Calling
  <2>2. QED BY <1>5, <1>t, <1>c, <1>s, <1>q, <2>1 DEF StartReader
<1>6. CASE CallStop
  BY <1>6, <1>t, <1>c, <1>q DEF CallStop
<1>7. CASE StopElement
  <2>1. Queued /\ qstate' \in [Queues -> States]
    <3>1. CASE el[ci] = "STOPPED"
      BY <1>7, <1>t, <1>q, <3>1 DEF StopElement
    <3>2. CASE el[ci] # "STOPPED"
      <4>1. ci \in Queues /\ ci - 1 \in Queues
        BY <1>c, <1>t
      <4>2. /\ queue' = [queue EXCEPT ![ci - 1] = <<>>, ![ci] = <<>>]
            /\ qstate' = [qstate EXCEPT ![ci - 1] = "STOPPED", ![ci] = "STOPPED"]
        BY <1>7, <3>2 DEF StopElement, StopQueues
      <4>3. Queued
        BY <1>g, <4>1, <4>2
      <4>4. QED BY <1>s, <1>t, <4>1, <4>2, <4>3
    <3>3. QED BY <3>1, <3>2
  <2>2. QED BY <1>7, <1>t, <1>c, <1>s, <2>1 DEF StopElement
<1>8. CASE StopThreads
  <2>1. Queued /\ qstate' \in [Queues -> States]
    <3>1. CASE state = "STOPPED"
      BY <1>8, <1>t, <1>q, <3>1 DEF StopThreads
    <3>2. CASE state # "STOPPED"
      <4>1. N \in Queues
        BY <1>c
      <4>2. /\ queue' = [queue EXCEPT ![N] = <<>>]
            /\ qstate' = [qstate EXCEPT ![N] = "STOPPED"]
        BY <1>8, <3>2 DEF StopThreads
      <4>3. Queued
        BY <1>e, <1>f, <4>1, <4>2
      <4>4. QED BY <1>s, <1>t, <4>1, <4>2, <4>3
    <3>3. QED BY <3>1, <3>2
  <2>2. QED BY <1>8, <1>t, <1>c, <1>s, <2>1 DEF StopThreads
<1>9. CASE StopWait
  <2>1. at' \in 1..Len(Script) + 1
    BY <1>9, <1>t, <1>c DEF StopWait, Calling
  <2>2. QED BY <1>9, <1>t, <1>q, <2>1 DEF StopWait
<1>10. ASSUME NEW i \in Elements, Begin(i) PROVE Typed
  BY <1>10, <1>t, <1>q DEF Begin
<1>11. ASSUME NEW i \in Elements, Loop(i) PROVE Typed
  BY <1>11, <1>t, <1>q DEF Loop
<1>12. ASSUME NEW i \in Elements, Take(i) PROVE Typed
  <2>1. CASE Stopped(i)
    BY <1>12, <1>t, <1>q, <2>1 DEF Take
  <2>2. CASE ~Stopped(i) /\ i = 1
    BY <1>12, <1>t, <1>q, <2>2 DEF Take
  <2>3. CASE ~Stopped(i) /\ i # 1
    <3>1. queue[i - 1] # <<>> /\ i - 1 \in Queues
      BY <1>12, <1>c, <2>3 DEF Take, Ready
    <3>2. queue' = [queue EXCEPT ![i - 1] = Tail(queue[i - 1])]
      BY <1>12, <2>3 DEF Take
    <3>3. Queued
      BY <1>f, <1>h, <3>1, <3>2
    <3>4. QED BY <1>12, <1>h, <1>t, <2>3, <3>1, <3>3, ZenonT(60) DEF Take
  <2>4. QED BY <2>1, <2>2, <2>3
<1>13. ASSUME NEW i \in Elements, Put(i) PROVE Typed
  <2>1. Queued
    <3>1. CASE /\ Len(queue[i]) < MaxQueue
               /\ queue' = [queue EXCEPT ![i] = Append(queue[i], hand[i])]
      <4>1. hand[i] \in Sessions
        BY <1>13, <1>t DEF Put, Calling
      <4>2. Append(queue[i], hand[i]) \in Seq(Sessions)
            /\ Len(Append(queue[i], hand[i])) <= MaxQueue
        BY <1>c, <1>l, <1>t, <3>1, <4>1
      <4>3. QED BY <1>c, <1>f, <3>1, <4>2
    <3>2. QED BY <1>13, <1>q, <3>1 DEF Put
  <2>2. QED BY <1>13, <1>t, <2>1 DEF Put
<1>14. ASSUME NEW i \in Elements, Count(i) PROVE Typed
  <2>1. finished + 1 \in 0..N
    <3>1. Counted \cup {i} \in SUBSET Elements /\ i \notin Counted
      BY <1>14, <1>t DEF Count, Counted
    <3>2. Cardinality(Counted \cup {i}) = Cardinality(Counted) + 1
      BY <1>t, <3>1, CountedFinite, FS_AddElement
    <3>3. Cardinality(Counted \cup {i}) <= N
      BY <1>t, <3>1, CountedFinite, FS_Subset
    <3>4. finished = Cardinality(Counted)
      BY <1>14 DEF Count, Calling
    <3>5. Cardinality(Counted) \in Nat
      BY <1>t, CountedFinite
    <3>6. QED BY <1>c, <3>2, <3>3, <3>4, <3>5
  <2>2. QED BY <1>14, <1>t, <1>q, <2>1 DEF Count
<1>15. ASSUME NEW i \in Elements, Finish(i) PROVE Typed
  BY <1>15, <1>t, <1>q DEF Finish, AllCounted
<1>16. ASSUME NEW s \in Sessions, Read(s) PROVE Typed
  <2>1. Queued
    BY <1>16, <1>c, <1>f, <1>h, <1>q DEF Read
  <2>2. QED BY <1>16, <1>t, <2>1 DEF Read
<1>17. CASE UNCHANGED vars
  BY <1>17, <1>t, <1>q DEF vars
<1>18. QED
  BY <1>1, <1>2, <1>3, <1>4, <1>5, <1>6, <1>7, <1>8, <1>9, <1>10, <1>11, <1>12, <1>13,
     <1>14, <1>15, <1>16, <1>17
     DEF Next, Start, Stop, Thread

-----------------------------------------------------------------------------
(* Calls and threads *)

\* A step of a thread of this session that is not counted before or after it.
LEMMA CountedSame ==
  ASSUME UNCHANGED threads, NEW i, NEW l, th' = [th EXCEPT ![i] = l],
         th \in [Elements -> {"none", "created", "loop", "op", "got", "ending", "counted", "done"}],
         threads \subseteq Elements,
         l \in {"counted", "done"} <=> th[i] \in {"counted", "done"}
  PROVE  Counted' = Counted
BY DEF Counted

LEMMA NextCalling == TypeOK /\ Calling /\ [Next]_vars => Calling'
<1> SUFFICES ASSUME TypeOK, Calling, [Next]_vars PROVE Calling'
  OBVIOUS
<1> DEFINE Labels == {"none", "created", "loop", "op", "got", "ending", "counted", "done"}
<1>t. /\ threads \subseteq Elements /\ th \in [Elements -> Labels]
      /\ hand \in [Elements -> Sessions \cup {0}]
      /\ queue \in [Queues -> Seq(Sessions)] /\ session \in Sessions \cup {0}
      /\ at \in 1..Len(Script) + 1 /\ ci \in Elements /\ Len(Script) \in Nat
      /\ \A i \in Elements : i \in Nat \ {0} /\ i - 1 \in Queues
      /\ \A k \in Sessions : k # 0
  BY Constants DEF TypeOK
<1>c. /\ cpc # "next" => at <= Len(Script)
      /\ cpc \in {"flush", "start", "thread", "started"} => session = at /\ Script[at] = "start"
      /\ cpc \in {"flush", "start", "thread"} => \A i \in threads : i < ci
      /\ session = 0 => \A i \in Elements : th[i] = "none"
      /\ \A i \in Elements : th[i] = "got" => hand[i] # 0
      /\ Alive => /\ \A i \in Elements : th[i] \in Live => i \in threads
                  /\ finished = Cardinality(Counted)
  BY DEF Calling
\* Steps of the caller that leave the threads alone.
<1>k. ASSUME UNCHANGED <<threads, thVars, finished, session, dead>>,
             cpc' # "next" => at' <= Len(Script),
             cpc' \in {"flush", "start", "thread", "started"}
               => at' = at /\ cpc \in {"flush", "start", "thread", "started"},
             cpc' \in {"flush", "start", "thread"}
               => ci' = ci /\ cpc \in {"flush", "start", "thread"}
      PROVE  Calling'
  <2>1. Counted' = Counted
    BY <1>k DEF Counted, thVars
  <2>2. /\ cpc' \in {"flush", "start", "thread", "started"} => session' = at' /\ Script[at'] = "start"
        /\ cpc' \in {"flush", "start", "thread"} => \A i \in threads' : i < ci'
    BY <1>c, <1>k
  <2>3. QED BY <1>c, <1>k, <2>1, <2>2 DEF Calling, thVars, Alive
\* Steps of one thread that leave the caller alone.
<1>m. ASSUME UNCHANGED <<threads, session, ctl>>, NEW i \in Elements, NEW l \in Labels \ {"none"},
             Alive, th[i] \in Live, th' = [th EXCEPT ![i] = l],
             l = "got" => hand'[i] # 0,
             \A j \in Elements : j # i => hand'[j] = hand[j],
             Alive' => finished' = Cardinality(Counted')
      PROVE  Calling'
  <2>1. session # 0
    BY <1>c, <1>m DEF Live
  <2>2. /\ \A j \in Elements : th'[j] = "got" => hand'[j] # 0
        /\ \A j \in Elements : th'[j] \in Live => j \in threads
    BY <1>c, <1>m, <1>t
  <2>3. QED BY <1>c, <1>m, <2>1, <2>2 DEF Calling, ctl
<1> USE DEF thVars, ctl, GoTo, ThreadOnly
<1>1. CASE CallStart
  <2>1. /\ at <= Len(Script) /\ Script[at] = "start" /\ Alive
        /\ dead' = (IF \A i \in threads : Ended(i) THEN "no" ELSE "crash")
        /\ threads' = {} /\ finished' = 0 /\ session' = at /\ UNCHANGED <<th, hand, at>>
    BY <1>1 DEF CallStart, Calls, CountReset
  <2>2. session' # 0 /\ session' = at'
    BY <1>t, <2>1
  <2>3. Counted' = {} /\ Cardinality({}) = 0
    BY <2>1, FS_EmptySet DEF Counted
  <2>4. Alive' => \A i \in Elements : th[i] \notin Live
    BY <1>c, <2>1 DEF Alive, Ended, Live
  <2>5. QED BY <1>c, <2>1, <2>2, <2>3, <2>4 DEF Calling
<1>2. CASE StartFlush
  BY <1>2, <1>c, <1>k DEF StartFlush
<1>3. CASE StartElement
  BY <1>3, <1>c, <1>k DEF StartElement
<1>4. CASE StartThread
  <2>1. /\ threads' = threads \cup {ci} /\ th' = [th EXCEPT ![ci] = "created"]
        /\ UNCHANGED <<hand, finished, session, at, dead>> /\ Alive /\ cpc = "thread"
        /\ cpc' = (IF ci = N THEN "started" ELSE "flush")
        /\ ci' = (IF ci = N THEN 1 ELSE ci + 1)
    BY <1>4 DEF StartThread
  <2>2. ci \notin threads
    BY <1>c, <1>t, <2>1
  <2>3. Counted' = Counted
    BY <1>t, <2>1, <2>2 DEF Counted
  <2>4. cpc' \in {"flush", "start", "thread"} => \A i \in threads' : i < ci'
    BY <1>c, <1>t, <2>1
  <2>5. session # 0
    BY <1>c, <1>t, <2>1
  <2>6. /\ \A j \in Elements : th'[j] = "got" => hand'[j] # 0
        /\ \A j \in Elements : th'[j] \in Live => j \in threads'
    BY <1>c, <1>t, <2>1
  <2>7. QED BY <1>c, <2>1, <2>3, <2>4, <2>5, <2>6 DEF Calling
<1>5. CASE StartReader
  BY <1>5, <1>c, <1>k DEF StartReader
<1>6. CASE CallStop
  BY <1>6, <1>c, <1>k DEF CallStop
<1>7. CASE StopElement
  BY <1>7, <1>c, <1>k DEF StopElement
<1>8. CASE StopThreads
  <2>1. UNCHANGED <<threads, th, hand, finished, session, dead, at>> /\ cpc' = "wait" /\ cpc = "exit"
    BY <1>8 DEF StopThreads
  <2>2. Counted' = Counted
    BY <2>1 DEF Counted
  <2>3. QED BY <1>c, <2>1, <2>2 DEF Calling, Alive
<1>9. CASE StopWait
  BY <1>9, <1>c, <1>k DEF StopWait
<1>10. ASSUME NEW i \in Elements, Begin(i) PROVE Calling'
  <2>1. Counted' = Counted
    BY <1>10, <1>t, CountedSame DEF Begin
  <2>2. QED BY <1>10, <1>c, <1>m, <2>1 DEF Begin, Live
<1>11. ASSUME NEW i \in Elements, Loop(i) PROVE Calling'
  <2>1. Counted' = Counted
    BY <1>11, <1>t, CountedSame DEF Loop
  <2>2. QED BY <1>11, <1>c, <1>m, <2>1 DEF Loop, Live
<1>12. ASSUME NEW i \in Elements, Take(i) PROVE Calling'
  <2>1. Counted' = Counted
    BY <1>12, <1>t, CountedSame DEF Take
  <2>2. session # 0
    BY <1>12, <1>c DEF Take
  <2>3. CASE Stopped(i)
    BY <1>12, <1>c, <1>m, <2>1, <2>3 DEF Take, Live
  <2>4. CASE ~Stopped(i)
    <3>1. /\ hand' = [hand EXCEPT ![i] = IF i = 1 THEN session ELSE Head(queue[i - 1])]
          /\ th' = [th EXCEPT ![i] = "got"] /\ Ready(i)
      BY <1>12, <2>4 DEF Take
    <3>2. hand'[i] # 0
      <4>1. CASE i = 1
        BY <1>t, <2>2, <3>1, <4>1
      <4>2. CASE i # 1
        <5>1. queue[i - 1] # <<>> /\ queue[i - 1] \in Seq(Sessions)
          BY <1>t, <3>1, <4>2 DEF Ready
        <5>2. Head(queue[i - 1]) \in Sessions
          BY <5>1
        <5>3. QED BY <1>t, <3>1, <4>2, <5>2
      <4>3. QED BY <4>1, <4>2
    <3>3. QED BY <1>12, <1>c, <1>m, <1>t, <2>1, <3>1, <3>2 DEF Take, Live
  <2>5. QED BY <2>3, <2>4
<1>13. ASSUME NEW i \in Elements, Put(i) PROVE Calling'
  <2>1. Counted' = Counted
    BY <1>13, <1>t, CountedSame DEF Put
  <2>2. PICK l \in {"loop", "ending"} : th' = [th EXCEPT ![i] = l]
    BY <1>13 DEF Put
  <2>3. QED BY <1>13, <1>c, <1>m, <1>t, <2>1, <2>2 DEF Put, Live
<1>14. ASSUME NEW i \in Elements, Count(i) PROVE Calling'
  <2>1. i \in threads /\ i \notin Counted /\ finished = Cardinality(Counted)
    BY <1>14, <1>c DEF Count, Live, Counted
  <2>2. Counted' = Counted \cup {i}
    BY <1>14, <1>t, <2>1 DEF Count, Counted
  <2>3. finished' = Cardinality(Counted')
    BY <1>14, <1>t, <2>1, <2>2, CountedFinite, FS_AddElement DEF Count
  <2>4. QED BY <1>14, <1>m, <2>3 DEF Count, Live
<1>15. ASSUME NEW i \in Elements, Finish(i) PROVE Calling'
  <2>1. Counted' = Counted
    BY <1>15, <1>t, CountedSame DEF Finish
  <2>2. QED BY <1>15, <1>c, <1>m, <2>1 DEF Finish, Live
<1>16. ASSUME NEW s \in Sessions, Read(s) PROVE Calling'
  BY <1>16, <1>c, <1>k DEF Read
<1>17. CASE UNCHANGED vars
  BY <1>17, <1>c, <1>k DEF vars
<1>18. QED
  BY <1>1, <1>2, <1>3, <1>4, <1>5, <1>6, <1>7, <1>8, <1>9, <1>10, <1>11, <1>12, <1>13,
     <1>14, <1>15, <1>16, <1>17
     DEF Next, Start, Stop, Thread

LEMMA TypedHolds == Spec => [](TypeOK /\ Calling)
BY InitTyped, NextTypeOK, NextCalling, PTL DEF Spec

\* For every pipeline and every sequence of calls, the states, the queues and the
\* count of finished threads stay in their types; the count never passes the number
\* of elements, also when a start() fails half way.
THEOREM PipelineTypeCorrect == Spec => []TypeOK
BY TypedHolds, PTL

-----------------------------------------------------------------------------
(* stop() *)

\* A queue runs only beside an element that was not stopped, and stop() leaves
\* none of those behind it.
Running ==
  /\ \A q \in Queues :
       \/ qstate[q] = "STOPPED"
       \/ qstate[q] = "STARTED" /\ \E i \in Elements : i \in {q, q + 1} /\ el[i] # "STOPPED"
  /\ cpc = "stop" => \A i \in Elements : i < ci => el[i] = "STOPPED"
  /\ cpc \in {"exit", "wait"} => \A i \in Elements : el[i] = "STOPPED"
  /\ cpc = "thread" => el[ci] = "STARTED" /\ qstate[ci] = "STARTED"
  /\ cpc = "started" => el[N] = "STARTED" /\ qstate[N] = "STARTED"

LEMMA InitRunning == Init => Running
<1> SUFFICES ASSUME Init PROVE Running
  OBVIOUS
<1>1. \A q \in Queues : \E i \in Elements : i \in {q, q + 1}
  <2>1. ASSUME NEW q \in Queues PROVE \E i \in Elements : i \in {q, q + 1}
    <3>1. q = 0 => q + 1 \in Elements
      BY Constants
    <3>2. q # 0 => q \in Elements
      BY Constants DEF Queues, Elements
    <3>3. QED BY <3>1, <3>2
  <2>2. QED BY <2>1
<1>2. QED BY <1>1 DEF Init, Running

LEMMA NextRunning == TypeOK /\ Running /\ [Next]_vars => Running'
<1> SUFFICES ASSUME TypeOK, Running, [Next]_vars PROVE Running'
  OBVIOUS
<1>t. /\ el \in [Elements -> States] /\ qstate \in [Queues -> States] /\ ci \in Elements
      /\ N \in Nat \ {0} /\ 1 \in Elements /\ N \in Elements
      /\ \A i \in Elements : i \in Nat \ {0} /\ i <= N /\ i \in Queues /\ i - 1 \in Queues
  BY Constants DEF TypeOK
<1>q. \A q \in Queues : q \in Nat
  BY DEF Queues
<1>r. /\ \A q \in Queues :
           \/ qstate[q] = "STOPPED"
           \/ qstate[q] = "STARTED" /\ \E i \in Elements : i \in {q, q + 1} /\ el[i] # "STOPPED"
      /\ cpc = "stop" => \A i \in Elements : i < ci => el[i] = "STOPPED"
      /\ cpc \in {"exit", "wait"} => \A i \in Elements : el[i] = "STOPPED"
      /\ cpc = "thread" => el[ci] = "STARTED" /\ qstate[ci] = "STARTED"
      /\ cpc = "started" => el[N] = "STARTED" /\ qstate[N] = "STARTED"
  BY DEF Running
<1>k. ASSUME UNCHANGED <<el, qstate>>,
             \/ UNCHANGED <<cpc, ci>>
             \/ cpc' \in {"next", "flush", "start"}
             \/ cpc = "exit" /\ cpc' = "wait"
             \/ cpc' = "stop" /\ ci' = 1
      PROVE  Running'
  BY <1>k, <1>r, <1>t DEF Running
<1> USE DEF thVars, ctl, ThreadOnly
<1>1. CASE CallStart
  BY <1>1, <1>k DEF CallStart
<1>2. CASE StartFlush
  BY <1>2, <1>k DEF StartFlush
<1>3. CASE StartElement
  <2>1. CASE UNCHANGED <<el, qstate>> /\ cpc' = "next"
    BY <2>1, <1>k
  <2>2. CASE ~(UNCHANGED <<el, qstate>> /\ cpc' = "next")
    <3>1. /\ el' = [el EXCEPT ![ci] = "STARTED"] /\ cpc' = "thread" /\ ci' = ci
          /\ qstate' = [qstate EXCEPT ![ci - 1] = "STARTED", ![ci] = "STARTED"]
      BY <1>3, <2>2 DEF StartElement
    <3>2. \A i \in Elements : el[i] # "STOPPED" => el'[i] # "STOPPED"
      BY <1>t, <3>1
    <3>3. el'[ci] # "STOPPED" /\ ci \in {ci - 1, (ci - 1) + 1} /\ ci \in {ci, ci + 1}
      BY <1>t, <3>1
    <3>4. ASSUME NEW q \in Queues
          PROVE  \/ qstate'[q] = "STOPPED"
                 \/ qstate'[q] = "STARTED" /\ \E i \in Elements : i \in {q, q + 1} /\ el'[i] # "STOPPED"
      <4>1. CASE q \in {ci - 1, ci}
        BY <1>t, <3>1, <3>3, <4>1
      <4>2. CASE q \notin {ci - 1, ci}
        BY <1>r, <1>t, <3>1, <3>2, <4>2
      <4>3. QED BY <4>1, <4>2
    <3>5. QED BY <1>t, <3>1, <3>4 DEF Running
  <2>3. QED BY <2>1, <2>2
<1>4. CASE StartThread
  <2>1. UNCHANGED <<el, qstate>> /\ cpc = "thread"
        /\ cpc' = (IF ci = N THEN "started" ELSE "flush")
    BY <1>4 DEF StartThread
  <2>2. QED BY <1>r, <2>1 DEF Running
<1>5. CASE StartReader
  <2>1. el' = el /\ cpc = "started" /\ cpc' = "next" /\ qstate' = [qstate EXCEPT ![N] = "STARTED"]
    BY <1>5 DEF StartReader
  <2>2. qstate' = qstate
    BY <1>r, <1>t, <2>1
  <2>3. QED BY <1>k, <2>1, <2>2
<1>6. CASE CallStop
  BY <1>6, <1>k DEF CallStop
<1>7. CASE StopElement
  <2>1. /\ cpc = "stop" /\ el' = [el EXCEPT ![ci] = "STOPPED"]
        /\ cpc' = (IF ci = N THEN "exit" ELSE "stop")
        /\ ci' = (IF ci = N THEN 1 ELSE ci + 1)
    BY <1>7 DEF StopElement
  <2>2. \A i \in Elements : i <= ci => el'[i] = "STOPPED"
    BY <1>r, <1>t, <2>1
  <2>3. ASSUME NEW q \in Queues
        PROVE  \/ qstate'[q] = "STOPPED"
               \/ qstate'[q] = "STARTED" /\ \E i \in Elements : i \in {q, q + 1} /\ el'[i] # "STOPPED"
    <3>1. CASE el[ci] = "STOPPED"
      <4>1. UNCHANGED <<el, qstate>>
        BY <1>7, <1>t, <2>1, <3>1 DEF StopElement
      <4>2. QED BY <1>r, <4>1
    <3>2. CASE el[ci] # "STOPPED"
      <4>1. qstate' = [qstate EXCEPT ![ci - 1] = "STOPPED", ![ci] = "STOPPED"]
        BY <1>7, <3>2 DEF StopElement, StopQueues
      <4>2. CASE q \in {ci - 1, ci}
        BY <1>t, <4>1, <4>2
      <4>3. CASE q \notin {ci - 1, ci}
        <5>1. qstate'[q] = qstate[q]
          BY <1>t, <4>1, <4>3
        <5>2. \A i \in Elements : i \in {q, q + 1} => i # ci
          BY <1>t, <1>q, <4>3
        <5>3. QED BY <1>r, <1>t, <2>1, <5>1, <5>2
      <4>4. QED BY <4>2, <4>3
    <3>3. QED BY <3>1, <3>2
  <2>4. QED BY <1>t, <2>1, <2>2, <2>3 DEF Running
<1>8. CASE StopThreads
  <2>1. el' = el /\ cpc = "exit" /\ cpc' = "wait"
    BY <1>8 DEF StopThreads
  <2>2. \A q \in Queues : qstate[q] = "STOPPED"
    BY <1>r, <2>1
  <2>3. qstate' = qstate
    BY <1>8, <1>t, <2>2 DEF StopThreads
  <2>4. QED BY <1>k, <2>1, <2>3
<1>9. CASE StopWait
  BY <1>9, <1>k DEF StopWait
<1>10. ASSUME NEW i \in Elements, Thread(i) PROVE Running'
  BY <1>10, <1>k DEF Thread, Begin, Loop, Take, Put, Count, Finish
<1>11. ASSUME NEW s \in Sessions, Read(s) PROVE Running'
  BY <1>11, <1>k DEF Read
<1>12. CASE UNCHANGED vars
  BY <1>12, <1>k DEF vars
<1>13. QED
  BY <1>1, <1>2, <1>3, <1>4, <1>5, <1>6, <1>7, <1>8, <1>9, <1>10, <1>11, <1>12
     DEF Next, Start, Stop

\* After stop() no element and no queue runs, however the start() before it ended.
THEOREM StopAlwaysSettles == Spec => []StopSettles
<1>1. Spec => []Running
  BY InitRunning, NextRunning, PipelineTypeCorrect, PTL DEF Spec
<1>2. Running => StopSettles
  BY DEF Running, StopSettles
<1>3. QED BY <1>1, <1>2, PTL

-----------------------------------------------------------------------------
(* start() *)

\* Two starts follow one another only with a stop between them: the manager's
\* callers stop what they started.
Alternates == \A k \in Sessions : Script[k] = "start" /\ k + 1 \in Sessions
                                    => Script[k + 1] = "stop"

\* Before the first call nothing has run; before a later one the call before it was
\* a start or all is stopped.  A thread works on a buffer of this session, and a
\* queue is clean from its flush on.
IsFresh(q) == \A k \in 1..Len(queue[q]) : queue[q][k] = session
Fresh ==
  /\ cpc = "next" => \/ session = 0 /\ \A q \in Queues : queue[q] = <<>>
                     \/ at > 1 /\ Script[at - 1] = "start"
                     \/ \A i \in Elements : el[i] = "STOPPED"
  /\ Alive => \A i \in Elements : th[i] = "got" => hand[i] = session
  /\ cpc = "start" => IsFresh(ci - 1) /\ IsFresh(ci)
  /\ \A q \in Queues : qstate[q] = "STARTED" => IsFresh(q)

LEMMA InitFresh == Init => Fresh
BY DEF Init, Fresh, IsFresh, Queues

\* What a queue holds after one of its operations.
LEMMA QueueOps ==
  ASSUME TypeOK, NEW q \in Queues
  PROVE  /\ queue[q] \in Seq(Sessions)
         /\ queue[q] # <<>> /\ IsFresh(q) =>
              /\ Head(queue[q]) = session
              /\ \A k \in 1..Len(Tail(queue[q])) : Tail(queue[q])[k] = session
         /\ IsFresh(q) => \A k \in 1..Len(Append(queue[q], session)) :
                            Append(queue[q], session)[k] = session
<1>1. queue[q] \in Seq(Sessions)
  BY DEF TypeOK
<1>2. ASSUME queue[q] # <<>>, IsFresh(q)
      PROVE  /\ Head(queue[q]) = session
             /\ \A k \in 1..Len(Tail(queue[q])) : Tail(queue[q])[k] = session
  <2>1. Len(queue[q]) \in Nat \ {0} /\ Head(queue[q]) = queue[q][1]
    BY <1>1, <1>2
  <2>2. \A k \in 1..Len(Tail(queue[q])) :
          Tail(queue[q])[k] = queue[q][k + 1] /\ k + 1 \in 1..Len(queue[q])
    BY <1>1, <1>2
  <2>3. QED BY <1>2, <2>1, <2>2 DEF IsFresh
<1>3. ASSUME IsFresh(q)
      PROVE  \A k \in 1..Len(Append(queue[q], session)) : Append(queue[q], session)[k] = session
  BY <1>1, <1>3 DEF IsFresh
<1>4. QED BY <1>1, <1>2, <1>3

LEMMA NextFresh ==
  ASSUME Alternates, TypeOK, Calling, Running, Fresh, [Next]_vars
  PROVE  Fresh'
<1>t. /\ th \in [Elements -> {"none", "created", "loop", "op", "got", "ending", "counted", "done"}]
      /\ hand \in [Elements -> Sessions \cup {0}] /\ queue \in [Queues -> Seq(Sessions)]
      /\ el \in [Elements -> States] /\ qstate \in [Queues -> States] /\ ci \in Elements
      /\ at \in 1..Len(Script) + 1 /\ Len(Script) \in Nat /\ 0 \notin Sessions
      /\ N \in Nat \ {0} /\ 1 \in Elements /\ N \in Elements
      /\ \A i \in Elements : i \in Nat \ {0} /\ i <= N /\ i \in Queues /\ i - 1 \in Queues
  BY Constants DEF TypeOK
<1>f. /\ cpc = "next" => \/ session = 0 /\ \A q \in Queues : queue[q] = <<>>
                         \/ at > 1 /\ Script[at - 1] = "start"
                         \/ \A i \in Elements : el[i] = "STOPPED"
      /\ Alive => \A i \in Elements : th[i] = "got" => hand[i] = session
      /\ cpc = "start" => IsFresh(ci - 1) /\ IsFresh(ci)
      /\ \A q \in Queues : qstate[q] = "STARTED" => IsFresh(q)
  BY DEF Fresh
\* Steps of the caller that start no queue.
<1>k. ASSUME UNCHANGED <<th, hand, session, dead>>,
             \A q \in Queues : queue'[q] = <<>> \/ queue'[q] = queue[q],
             \A q \in Queues : qstate'[q] = "STARTED" => qstate[q] = "STARTED",
             cpc' # "start",
             cpc' = "next" => \/ \A i \in Elements : el'[i] = "STOPPED"
                              \/ at' > 1 /\ Script[at' - 1] = "start"
      PROVE  Fresh'
  <2>1. \A q \in Queues : IsFresh(q) => IsFresh(q)'
    BY <1>k DEF IsFresh
  <2>2. QED BY <1>f, <1>k, <2>1 DEF Fresh, Alive
\* Steps of a thread, and of the manager's.
<1>m. ASSUME UNCHANGED <<session, cpc, ci, at, el, qstate>>, Alive,
             \A q \in Queues : queue[q] = <<>> /\ session = 0 => queue'[q] = <<>>,
             \A q \in Queues : IsFresh(q) => IsFresh(q)',
             \A j \in Elements : th'[j] = "got" => hand'[j] = session
      PROVE  Fresh'
  <2>1. cpc = "start" => IsFresh(ci - 1)' /\ IsFresh(ci)'
    BY <1>f, <1>m, <1>t
  <2>2. QED BY <1>f, <1>m, <2>1 DEF Fresh, IsFresh
<1>n. ASSUME UNCHANGED queue PROVE \A q \in Queues : UNCHANGED session /\ IsFresh(q) => IsFresh(q)'
  BY <1>n DEF IsFresh
<1> USE DEF thVars, ctl, GoTo, ThreadOnly
<1>1. CASE CallStart
  <2>1. /\ at <= Len(Script) /\ Script[at] = "start" /\ cpc = "next" /\ cpc' = "flush"
        /\ dead' = (IF \A i \in threads : Ended(i) THEN "no" ELSE "crash") /\ Alive
        /\ UNCHANGED <<el, qstate, queue, th, hand>>
    BY <1>1 DEF CallStart, Calls
  <2>2. ~(at > 1 /\ Script[at - 1] = "start")
    <3>1. ASSUME at > 1, Script[at - 1] = "start" PROVE FALSE
      <4>1. at - 1 \in Sessions /\ (at - 1) + 1 \in Sessions /\ (at - 1) + 1 = at
        BY <1>t, <2>1, <3>1 DEF Sessions
      <4>2. Script[(at - 1) + 1] = "stop"
        BY <3>1, <4>1 DEF Alternates
      <4>3. QED BY <2>1, <4>1, <4>2
    <3>2. QED BY <3>1
  <2>3. \A q \in Queues : qstate[q] = "STARTED" => queue[q] = <<>>
    BY <1>f, <2>1, <2>2 DEF Running
  <2>4. \A q \in Queues : qstate'[q] = "STARTED" => IsFresh(q)'
    BY <2>1, <2>3 DEF IsFresh
  <2>5. Alive' => \A i \in Elements : th[i] # "got"
    BY <2>1 DEF Alive, Ended, Calling, Live
  <2>6. QED BY <2>1, <2>4, <2>5 DEF Fresh
<1>2. CASE StartFlush
  <2>1. /\ queue' = [queue EXCEPT ![ci - 1] = <<>>, ![ci] = <<>>]
        /\ UNCHANGED <<el, qstate, th, hand, session, dead, at, ci>> /\ cpc' = "start"
    BY <1>2 DEF StartFlush
  <2>2. \A q \in Queues : queue'[q] = <<>> \/ queue'[q] = queue[q]
    BY <1>t, <2>1
  <2>0. \A k \in 1..Len(<<>>) : FALSE
    OBVIOUS
  <2>3. ASSUME NEW q \in Queues, IsFresh(q) PROVE IsFresh(q)'
    <3>1. \A k \in 1..Len(queue'[q]) : queue'[q][k] = session
      <4>1. CASE queue'[q] = <<>>
        BY <2>0, <4>1, Zenon
      <4>2. CASE queue'[q] = queue[q]
        BY <2>3, <4>2 DEF IsFresh
      <4>3. QED BY <2>2, <4>1, <4>2
    <3>2. QED BY <2>1, <3>1 DEF IsFresh
  <2>4. queue'[ci - 1] = <<>> /\ queue'[ci] = <<>>
    BY <1>t, <2>1
  <2>5. IsFresh(ci - 1)' /\ IsFresh(ci)'
    <3>1. ci' = ci
      BY <2>1
    <3>2. /\ \A k \in 1..Len(queue'[ci - 1]) : FALSE
          /\ \A k \in 1..Len(queue'[ci]) : FALSE
      BY <2>0, <2>4, Zenon
    <3>3. QED BY <3>1, <3>2 DEF IsFresh
  <2>6. QED BY <1>f, <2>1, <2>3, <2>5 DEF Fresh, Alive
<1>3. CASE StartElement
  <2>1. /\ cpc = "start" /\ UNCHANGED <<queue, th, hand, session, dead, ci>>
        /\ Script[at] = "start"
    BY <1>3 DEF StartElement, Calling
  <2>2. CASE UNCHANGED <<el, qstate>> /\ cpc' = "next" /\ at' = at + 1
    <3>1. at' > 1 /\ at' - 1 = at
      BY <1>t, <2>2
    <3>2. QED BY <1>k, <2>1, <2>2, <3>1
  <2>3. CASE /\ qstate' = [qstate EXCEPT ![ci - 1] = "STARTED", ![ci] = "STARTED"]
             /\ cpc' = "thread"
    <3>1. \A q \in Queues : IsFresh(q) => IsFresh(q)'
      BY <1>n, <2>1
    <3>2. \A q \in Queues : qstate'[q] = "STARTED" => qstate[q] = "STARTED" \/ q \in {ci - 1, ci}
      BY <1>t, <2>3
    <3>3. QED BY <1>f, <2>1, <2>3, <3>1, <3>2 DEF Fresh, Alive
  <2>4. QED BY <1>3, <2>2, <2>3 DEF StartElement
<1>4. CASE StartThread
  <2>1. /\ UNCHANGED <<el, qstate, queue, hand, session, dead>> /\ cpc' \in {"started", "flush"}
        /\ th' = [th EXCEPT ![ci] = "created"]
    BY <1>4 DEF StartThread
  <2>2. \A q \in Queues : IsFresh(q) => IsFresh(q)'
    BY <1>n, <2>1
  <2>3. \A i \in Elements : th'[i] = "got" => th[i] = "got"
    BY <1>t, <2>1
  <2>4. QED BY <1>f, <2>1, <2>2, <2>3 DEF Fresh, Alive
<1>5. CASE StartReader
  <2>1. /\ UNCHANGED <<queue, th, hand, session, dead>> /\ cpc' = "next" /\ at' = at + 1
        /\ cpc = "started" /\ qstate' = [qstate EXCEPT ![N] = "STARTED"]
    BY <1>5 DEF StartReader
  <2>2. qstate[N] = "STARTED" /\ Script[at] = "start"
    BY <2>1 DEF Running, Calling
  <2>3. qstate' = qstate
    BY <1>t, <2>1, <2>2
  <2>4. at' > 1 /\ at' - 1 = at
    BY <1>t, <2>1
  <2>5. QED BY <1>k, <2>1, <2>2, <2>3, <2>4
<1>6. CASE CallStop
  BY <1>6, <1>k DEF CallStop
<1>7. CASE StopElement
  <2>1. /\ UNCHANGED <<th, hand, session, dead>> /\ cpc' \in {"exit", "stop"}
    BY <1>7 DEF StopElement
  <2>2. \A q \in Queues : /\ queue'[q] = <<>> \/ queue'[q] = queue[q]
                          /\ qstate'[q] = "STARTED" => qstate[q] = "STARTED"
    <3>1. CASE UNCHANGED <<qstate, queue>>
      BY <3>1
    <3>2. CASE StopQueues
      BY <1>t, <3>2 DEF StopQueues
    <3>3. QED BY <1>7, <3>1, <3>2 DEF StopElement
  <2>3. QED BY <1>k, <2>1, <2>2
<1>8. CASE StopThreads
  <2>1. /\ UNCHANGED <<th, hand, session, dead>> /\ cpc' = "wait"
    BY <1>8 DEF StopThreads
  <2>2. \A q \in Queues : /\ queue'[q] = <<>> \/ queue'[q] = queue[q]
                          /\ qstate'[q] = "STARTED" => qstate[q] = "STARTED"
    BY <1>8, <1>t DEF StopThreads
  <2>3. QED BY <1>k, <2>1, <2>2
<1>9. CASE StopWait
  <2>1. \A i \in Elements : el[i] = "STOPPED"
    BY <1>9 DEF StopWait, Running
  <2>2. QED BY <1>9, <1>k, <2>1 DEF StopWait
<1>10. ASSUME NEW i \in Elements, Begin(i) \/ Loop(i) \/ Count(i) \/ Finish(i) PROVE Fresh'
  <2>1. UNCHANGED <<session, cpc, ci, at, el, qstate, queue, hand>> /\ Alive
    BY <1>10 DEF Begin, Loop, Count, Finish
  <2>2. \A j \in Elements : th'[j] = "got" => th[j] = "got"
    BY <1>10, <1>t DEF Begin, Loop, Count, Finish
  <2>3. \A q \in Queues : IsFresh(q) => IsFresh(q)'
    BY <1>n, <2>1
  <2>4. QED BY <1>f, <1>m, <2>1, <2>2, <2>3
<1>11. ASSUME NEW i \in Elements, Take(i) PROVE Fresh'
  <2>1. UNCHANGED <<session, cpc, ci, at, el, qstate>> /\ Alive
    BY <1>11 DEF Take
  <2>2. CASE Stopped(i)
    <3>1. UNCHANGED <<queue, hand>> /\ \A j \in Elements : th'[j] = "got" => th[j] = "got"
      BY <1>11, <1>t, <2>2 DEF Take
    <3>2. \A q \in Queues : IsFresh(q) => IsFresh(q)'
      BY <1>n, <2>1, <3>1
    <3>3. QED BY <1>f, <1>m, <2>1, <3>1, <3>2
  <2>3. CASE ~Stopped(i) /\ i = 1
    <3>1. /\ UNCHANGED queue /\ hand' = [hand EXCEPT ![i] = session]
          /\ th' = [th EXCEPT ![i] = "got"]
      BY <1>11, <2>3 DEF Take
    <3>2. \A j \in Elements : th'[j] = "got" => hand'[j] = session
      BY <1>f, <1>t, <2>1, <3>1
    <3>3. \A q \in Queues : IsFresh(q) => IsFresh(q)'
      BY <1>n, <2>1, <3>1
    <3>4. QED BY <1>m, <2>1, <3>1, <3>2, <3>3
  <2>4. CASE ~Stopped(i) /\ i # 1
    <3> DEFINE p == i - 1
    <3>0. p \in Queues
      BY <1>t
    <3>1. /\ queue' = [queue EXCEPT ![p] = Tail(queue[p])]
          /\ hand' = [hand EXCEPT ![i] = Head(queue[p])]
          /\ th' = [th EXCEPT ![i] = "got"] /\ queue[p] # <<>> /\ qstate[p] # "STOPPED"
      BY <1>11, <2>4 DEF Take, Ready, Stopped
    <3>2. IsFresh(p)
      BY <1>f, <3>0, <3>1 DEF Running
    <3> HIDE DEF p
    <3>3. /\ Head(queue[p]) = session
          /\ \A k \in 1..Len(Tail(queue[p])) : Tail(queue[p])[k] = session
      BY <3>0, <3>1, <3>2, QueueOps
    <3>4. \A j \in Elements : th'[j] = "got" => hand'[j] = session
      BY <1>f, <1>t, <2>1, <3>1, <3>3
    <3>5. \A q \in Queues : IsFresh(q) => IsFresh(q)'
      BY <1>t, <2>1, <3>1, <3>3 DEF IsFresh
    <3>6. \A q \in Queues : queue[q] = <<>> => queue'[q] = <<>>
      BY <1>t, <3>1
    <3>7. QED BY <1>m, <2>1, <3>4, <3>5, <3>6
  <2>5. QED BY <2>2, <2>3, <2>4
<1>12. ASSUME NEW i \in Elements, Put(i) PROVE Fresh'
  <2>1. /\ UNCHANGED <<session, cpc, ci, at, el, qstate>> /\ Alive /\ th[i] = "got"
        /\ hand' = [hand EXCEPT ![i] = 0] /\ hand[i] = session /\ session # 0
        /\ queue' = queue \/ queue' = [queue EXCEPT ![i] = Append(queue[i], session)]
    BY <1>12, <1>f DEF Put, Calling
  <2>2. \A j \in Elements : th'[j] = "got" => j # i /\ th[j] = "got"
    BY <1>12, <1>t DEF Put
  <2>3. \A j \in Elements : th'[j] = "got" => hand'[j] = session
    BY <1>f, <1>t, <2>1, <2>2
  <2>4. \A q \in Queues : IsFresh(q) => IsFresh(q)'
    <3>1. CASE queue' = queue
      BY <1>n, <2>1, <3>1
    <3>2. CASE queue' = [queue EXCEPT ![i] = Append(queue[i], session)]
      <4>1. IsFresh(i) => \A k \in 1..Len(Append(queue[i], session)) :
                            Append(queue[i], session)[k] = session
        BY <1>t, QueueOps
      <4>2. QED BY <1>t, <2>1, <3>2, <4>1 DEF IsFresh
    <3>3. QED BY <2>1, <3>1, <3>2
  <2>5. QED BY <1>m, <2>1, <2>3, <2>4
<1>13. ASSUME NEW s \in Sessions, Read(s) PROVE Fresh'
  <2>1. UNCHANGED <<session, cpc, ci, at, el, qstate, hand, th>> /\ Alive
    BY <1>13 DEF Read
  <2>2. \/ queue' = queue
        \/ queue[N] # <<>> /\ queue' = [queue EXCEPT ![N] = Tail(queue[N])]
    BY <1>13 DEF Read
  <2>3. \A q \in Queues : IsFresh(q) => IsFresh(q)'
    <3>1. CASE queue' = queue
      BY <1>n, <2>1, <3>1
    <3>2. CASE queue[N] # <<>> /\ queue' = [queue EXCEPT ![N] = Tail(queue[N])]
      <4>1. IsFresh(N) => \A k \in 1..Len(Tail(queue[N])) : Tail(queue[N])[k] = session
        BY <1>t, <3>2, QueueOps
      <4>2. queue'[N] = Tail(queue[N]) /\ \A q \in Queues : q # N => queue'[q] = queue[q]
        BY <1>t, <3>2
      <4>3. ASSUME NEW q \in Queues, IsFresh(q) PROVE IsFresh(q)'
        <5>1. CASE q = N
          BY <2>1, <4>1, <4>2, <4>3, <5>1 DEF IsFresh
        <5>2. CASE q # N
          BY <2>1, <4>2, <4>3, <5>2 DEF IsFresh
        <5>3. QED BY <5>1, <5>2
      <4>4. QED BY <4>3
    <3>3. QED BY <2>2, <3>1, <3>2
  <2>4. \A q \in Queues : queue[q] = <<>> => queue'[q] = <<>>
    BY <1>t, <2>2
  <2>5. QED BY <1>f, <1>m, <2>1, <2>3, <2>4
<1>14. CASE UNCHANGED vars
  <2>1. \A q \in Queues : IsFresh(q) => IsFresh(q)'
    BY <1>14 DEF vars, IsFresh
  <2>2. UNCHANGED <<session, cpc, ci, at, el, qstate, queue, th, hand, dead>>
    BY <1>14 DEF vars
  <2>3. cpc = "start" => IsFresh(ci - 1)' /\ IsFresh(ci)'
    BY <1>f, <2>2 DEF IsFresh
  <2>4. QED BY <1>f, <2>1, <2>2, <2>3 DEF Fresh, Alive
<1>15. QED
  BY <1>1, <1>2, <1>3, <1>4, <1>5, <1>6, <1>7, <1>8, <1>9, <1>10, <1>11, <1>12, <1>13, <1>14
     DEF Next, Start, Stop, Thread

\* When no start follows a start, a queue that runs holds buffers of this start only,
\* although threads put buffers in queues that stop() has cleared.
THEOREM QueuesAlwaysFresh == ASSUME Alternates PROVE Spec => []FreshQueues
<1>1. TypeOK /\ Calling /\ Running /\ Fresh /\ [Next]_vars => Fresh'
  BY NextFresh
<1>2. Spec => []Running
  BY InitRunning, NextRunning, PipelineTypeCorrect, PTL DEF Spec
<1>3. Fresh => FreshQueues
  BY DEF Fresh, IsFresh, FreshQueues
<1>4. QED BY <1>1, <1>2, <1>3, InitFresh, TypedHolds, PTL DEF Spec

-----------------------------------------------------------------------------
(* playbackFinished *)

AllDone == threads # {} /\ \A i \in threads : th[i] = "done"

\* The last thread to count itself compares after it has counted, and the count is
\* then that of all threads.
LEMMA NextEmitted ==
  ASSUME TypeOK, Calling, AllDone => emitted, [Next]_vars
  PROVE  AllDone' => emitted'
<1>t. /\ th \in [Elements -> {"none", "created", "loop", "op", "got", "ending", "counted", "done"}]
      /\ threads \subseteq Elements /\ ci \in Elements
  BY DEF TypeOK
<1>k. ASSUME UNCHANGED <<threads, th, emitted>> PROVE AllDone' => emitted'
  BY <1>k DEF AllDone
\* A step after which a thread of this session is not done.
<1>m. ASSUME NEW i \in threads', th'[i] # "done" PROVE AllDone' => emitted'
  BY <1>m DEF AllDone
<1> USE DEF thVars, ctl, GoTo, ThreadOnly
<1>1. CASE CallStart
  <2>1. threads' = {}
    BY <1>1 DEF CallStart
  <2>2. QED BY <2>1 DEF AllDone
<1>2. CASE StartFlush
  BY <1>2, <1>k DEF StartFlush
<1>3. CASE StartElement
  BY <1>3, <1>k DEF StartElement
<1>4. CASE StartThread
  <2>1. ci \in threads' /\ th'[ci] = "created"
    BY <1>4, <1>t DEF StartThread
  <2>2. QED BY <2>1 DEF AllDone
<1>5. CASE StartReader
  BY <1>5, <1>k DEF StartReader
<1>6. CASE CallStop
  BY <1>6, <1>k DEF CallStop
<1>7. CASE StopElement
  BY <1>7, <1>k DEF StopElement
<1>8. CASE StopThreads
  BY <1>8, <1>k DEF StopThreads
<1>9. CASE StopWait
  BY <1>9, <1>k DEF StopWait
<1>10. ASSUME NEW i \in Elements, Begin(i) \/ Loop(i) \/ Take(i) \/ Put(i) \/ Count(i)
       PROVE  AllDone' => emitted'
  <2>1. th[i] \in Live /\ Alive /\ threads' = threads
    BY <1>10 DEF Begin, Loop, Take, Put, Count, Live
  <2>2. i \in threads
    BY <2>1 DEF Calling
  <2>3. th'[i] # "done"
    BY <1>10, <1>t DEF Begin, Loop, Take, Put, Count
  <2>4. QED BY <2>1, <2>2, <2>3 DEF AllDone
<1>11. ASSUME NEW i \in Elements, Finish(i) PROVE AllDone' => emitted'
  <2>1. /\ th[i] = "counted" /\ Alive /\ th' = [th EXCEPT ![i] = "done"] /\ threads' = threads
        /\ emitted' = (emitted \/ AllCounted)
    BY <1>11 DEF Finish
  <2>2. ASSUME AllDone' PROVE AllCounted
    <3>1. threads \subseteq Counted
      BY <1>t, <2>1, <2>2 DEF AllDone, Counted
    <3>2. Counted = threads
      BY <3>1 DEF Counted
    <3>3. QED BY <2>1, <3>2 DEF Calling, AllCounted
  <2>3. QED BY <2>1, <2>2
<1>12. ASSUME NEW s \in Sessions, Read(s) PROVE AllDone' => emitted'
  BY <1>12, <1>k DEF Read
<1>13. CASE UNCHANGED vars
  BY <1>13, <1>k DEF vars
<1>14. QED
  BY <1>1, <1>2, <1>3, <1>4, <1>5, <1>6, <1>7, <1>8, <1>9, <1>10, <1>11, <1>12, <1>13
     DEF Next, Start, Stop, Thread

\* When the counts are equal every thread has counted itself, however late the
\* comparison is made.
LEMMA EmitsAtEnd ==
  ASSUME TypeOK, Calling, [Next]_vars, ~emitted, emitted'
  PROVE  \A i \in threads : th[i] \in {"counted", "done"}
<1>1. PICK i \in Elements : Finish(i)
  BY DEF Next, Start, Stop, CallStart, StartFlush, StartElement, StartThread, StartReader,
         CallStop, StopElement, StopThreads, StopWait, Thread, Begin, Loop, Take, Put, Count,
         Read, vars
<1>2. Alive /\ AllCounted
  BY <1>1 DEF Finish
<1>3. Cardinality(Counted) = Cardinality(threads)
  BY <1>2 DEF AllCounted, Calling
<1>4. IsFiniteSet(threads) /\ Counted \in SUBSET threads
  BY CountedFinite DEF TypeOK, Counted
<1>5. Counted = threads
  BY <1>3, <1>4, FS_Subset
<1>6. QED BY <1>5 DEF Counted

\* For every number of threads: when all are done playbackFinished was emitted, and it
\* was not before every thread had counted itself.
THEOREM PlaybackFinishes == Spec => EmittedAtEnd
<1>1. Init => (AllDone => emitted)
  BY DEF Init, AllDone
<1>2. TypeOK /\ Calling /\ (AllDone => emitted) /\ [Next]_vars => (AllDone => emitted)'
  BY NextEmitted
<1>3. (AllDone => emitted)
        <=> (threads # {} /\ (\A i \in threads : th[i] = "done") => emitted)
  BY DEF AllDone
<1>4. TypeOK /\ Calling /\ [Next]_vars
        => [~emitted /\ emitted' => \A i \in threads : th[i] \in {"counted", "done"}]_vars
  BY EmitsAtEnd
<1>5. Spec => [](threads # {} /\ (\A i \in threads : th[i] = "done") => emitted)
  BY <1>1, <1>2, <1>3, TypedHolds, PTL DEF Spec
<1>6. Spec => [][~emitted /\ emitted' => \A i \in threads : th[i] \in {"counted", "done"}]_vars
  BY <1>4, TypedHolds, PTL DEF Spec
<1>7. QED BY <1>5, <1>6 DEF EmittedAtEnd
=============================================================================
