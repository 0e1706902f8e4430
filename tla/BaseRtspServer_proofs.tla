------------------------ MODULE BaseRtspServer_proofs ------------------------
(* Theorems about BaseRtspServer, for every value of its constants. *)
EXTENDS BaseRtspServer, FiniteSetTheorems, TLAPS

States == {"none", "SETUP", "PLAY"}

\* A session and its channel agree, and what the file holds are sessions.
StreamInv == /\ state \in [Ids -> States] /\ channel \in [Ids -> 0..2]
             /\ saved.state \in [Ids -> States]
             /\ StreamsMatch

\* The next step leaves the sessions, or the file, alone.
LEMMA StreamInvStays ==
  ASSUME StreamInv, UNCHANGED <<state, channel, saved>>
  PROVE  StreamInv'
BY DEF StreamInv, StreamsMatch

\* closeSession() frees the channel of what played, whichever sessions it ends.
LEMMA CloseStreams ==
  ASSUME StreamInv, NEW n, Close(n), UNCHANGED saved
  PROVE  StreamInv'
<1> DEFINE ended == {i \in Ids : Ends(i, n[i])}
<1>1. /\ state' = [i \in Ids |-> IF i \in ended THEN "none" ELSE state[i]]
      /\ channel' = [i \in Ids |-> IF i \in ended THEN AfterTeardown(i) ELSE channel[i]]
  BY Zenon DEF Close
<1>2. ASSUME NEW i \in Ids
      PROVE  /\ AfterTeardown(i) \in {0, channel[i]}
             /\ AfterTeardown(i) # 2
  BY DEF AfterTeardown, StreamInv, StreamsMatch, States
<1> HIDE DEF ended
<1>3. state' \in [Ids -> States] /\ channel' \in [Ids -> 0..2]
  BY <1>1, <1>2 DEF StreamInv, States
<1>4. StreamsMatch'
  BY <1>1, <1>2 DEF StreamInv, StreamsMatch, States
<1>5. QED BY <1>3, <1>4 DEF StreamInv

LEMMA InitStreams == Init => StreamInv
BY DEF Init, Each, StreamInv, StreamsMatch, States

LEMMA SetUpStreams ==
  ASSUME StreamInv, NEW c \in Clients, NEW m \in Media, SetUp(c, m)
  PROVE  StreamInv'
<1>1. PICK i : /\ state' = [state EXCEPT ![i] = "SETUP"]
               /\ channel' = [channel EXCEPT ![i] = 1] /\ UNCHANGED saved
  BY Zenon DEF SetUp
<1>2. /\ state' = [j \in Ids |-> IF j = i THEN "SETUP" ELSE state[j]]
      /\ channel' = [j \in Ids |-> IF j = i THEN 1 ELSE channel[j]]
  BY <1>1, Zenon DEF StreamInv
<1>3. StreamsMatch' /\ state' \in [Ids -> States] /\ channel' \in [Ids -> 0..2]
  BY <1>2 DEF StreamInv, StreamsMatch, States
<1>4. QED BY <1>1, <1>3 DEF StreamInv

LEMMA PlayStreams ==
  ASSUME StreamInv, NEW c \in Clients, NEW i \in Ids, Play(c, i)
  PROVE  StreamInv'
<1>1. PICK started \in SUBSET Ids :
        /\ state' = [j \in Ids |-> IF j \in started THEN "PLAY" ELSE state[j]]
        /\ channel' = [j \in Ids |-> IF j \in started THEN 2 ELSE channel[j]]
  <2> DEFINE started == {j \in Others(i) \cup {i} : count[j] = 1}
  <2>1. started \in SUBSET Ids
    BY DEF Others, Live
  <2>2. QED BY <2>1, Zenon DEF Play
<1>2. UNCHANGED saved
  BY DEF Play
<1>3. QED BY <1>1, <1>2 DEF StreamInv, StreamsMatch, States

\* The death of the process forgets all, and the restart plays what the file says.
LEMMA ProcessStreams ==
  ASSUME StreamInv, Process
  PROVE  StreamInv'
<1>1. CASE Die
  BY <1>1 DEF Die, Each, StreamInv, StreamsMatch, States
<1>2. CASE Save
  <2>1. UNCHANGED <<state, channel>> /\ saved'.state = state
    BY <1>2 DEF Save, sesVars
  <2>2. QED BY <2>1 DEF StreamInv, StreamsMatch
<1>3. CASE Load
  <2>1. /\ state' = saved.state /\ UNCHANGED saved
        /\ channel' = [i \in Ids |-> Restored(saved.state[i])]
    BY <1>3 DEF Load
  <2>2. QED BY <2>1 DEF Restored, StreamInv, StreamsMatch, States
<1>4. QED BY <1>1, <1>2, <1>3 DEF Process

LEMMA NextStreams == StreamInv /\ [Next]_vars => StreamInv'
<1> SUFFICES ASSUME StreamInv, [Next]_vars PROVE StreamInv'
  OBVIOUS
<1>1. ASSUME Requests PROVE StreamInv'
  <2>1. ASSUME NEW c \in Clients, NEW m \in Media, Join(c, m) PROVE StreamInv'
    BY <2>1, StreamInvStays DEF Join
  <2>2. ASSUME NEW c \in Clients, NEW i \in Ids, Teardown(c, i) PROVE StreamInv'
    BY <2>2, CloseStreams DEF Teardown
  <2>3. ASSUME NEW c \in Clients, NEW i \in Ids, Parameter(c, i) \/ Refused(c, i)
        PROVE  StreamInv'
    BY <2>3, StreamInvStays DEF Parameter, Refused, sesVars
  <2>4. QED BY <1>1, <2>1, <2>2, <2>3, SetUpStreams, PlayStreams, Zenon DEF Requests
<1>2. ASSUME Events PROVE StreamInv'
  <2>1. ASSUME NEW i \in Ids, Quiet(i) \/ Report(i) \/ Idle(i) PROVE StreamInv'
    BY <2>1, StreamInvStays DEF Quiet, Report, Idle, sesVars
  <2>2. ASSUME NEW i \in Ids, TimedOut(i) PROVE StreamInv'
    BY <2>2, CloseStreams DEF TimedOut
  <2>3. ASSUME NEW c \in Clients, Disconnect(c) PROVE StreamInv'
    BY <2>3, StreamInvStays DEF Disconnect, sesVars
  <2>4. ASSUME NEW v \in BOOLEAN, SetEnabled(v) PROVE StreamInv'
    <3>1. CASE v
      BY <2>4, <3>1, StreamInvStays DEF SetEnabled, sesVars
    <3>2. CASE ~v
      BY <2>4, <3>2, CloseStreams DEF SetEnabled
    <3>3. QED BY <3>1, <3>2
  <2>5. QED BY <1>2, <2>1, <2>2, <2>3, <2>4, Zenon DEF Events
<1>3. ASSUME UNCHANGED vars PROVE StreamInv'
  BY <1>3, StreamInvStays DEF vars, sesVars
<1>4. QED BY <1>1, <1>2, <1>3, ProcessStreams, Zenon DEF Next

\* A channel sends exactly while a session plays it, through joins, aggregate
\* requests, time-outs, a server that is disabled, deaths and restarts, for any
\* clients, media and configuration.
THEOREM StreamsAlwaysMatch == Spec => []StreamsMatch
<1>1. StreamInv => StreamsMatch
  BY DEF StreamInv
<1>2. QED BY InitStreams, NextStreams, <1>1, PTL DEF Spec

-----------------------------------------------------------------------------
(* Type correctness.  Two facts beside the types make it inductive: the     *)
(* process that is gone has no timers that ran out, so that the sessions of *)
(* the file start without them, and what a set up takes was never used.     *)

Sleeps == ~up => idle = {}

\* The types of what closeSession() changes, and of the rest.
SessionTypes ==
  /\ state \in [Ids -> States] /\ count \in [Ids -> Nat \ {0}] /\ keep \in [Ids -> BOOLEAN]
  /\ siblings \in [Ids -> [Ids -> Nat]] /\ channel \in [Ids -> 0..2]
  /\ quiet \subseteq Ids /\ idle \subseteq Live
RestTypes ==
  /\ setup \in Setups /\ up \in BOOLEAN /\ enabled \in BOOLEAN
  /\ ids \in 0..MaxIds /\ crashes \in 0..MaxCrashes
  /\ medium \in [Ids -> Media \cup {NoMedium}]
  /\ avp \in [Ids -> Clients \cup {Nobody}]
  /\ saved \in [state: [Ids -> States], count: [Ids -> Nat \ {0}], keep: [Ids -> BOOLEAN]]
  /\ conn \in [Clients -> {"up", "gone"}] /\ held \in [Clients -> SUBSET Ids]
TypeInv == SessionTypes /\ RestTypes /\ Sleeps

LEMMA TypeParts == TypeOK <=> SessionTypes /\ RestTypes
BY DEF TypeOK, SessionTypes, RestTypes, States

\* What the configuration is made of.
LEMMA SetupFacts ==
  ASSUME setup \in Setups
  PROVE  /\ setup.clients \subseteq Clients /\ setup.media \subseteq Media
         /\ setup.max \in Nat \ {0} /\ setup.ids \in 1..MaxIds
BY RtspAssumption DEF Setup

LEMMA InitTypes == Init => TypeInv
<1> SUFFICES ASSUME Init PROVE TypeInv
  OBVIOUS
<1>1. SessionTypes
  BY DEF Init, Each, SessionTypes, States
<1>2. RestTypes
  BY RtspAssumption DEF Init, Each, RestTypes, States, Ids
<1>3. QED BY <1>1, <1>2 DEF TypeInv, Sleeps, Init

\* closeSession(), called a number of times for each session.
LEMMA CloseTypes ==
  ASSUME SessionTypes, NEW n \in [Ids -> Nat], Close(n)
  PROVE  SessionTypes'
<1> DEFINE ended == {i \in Ids : Ends(i, n[i])}
<1>1. /\ state' = [i \in Ids |-> IF i \in ended THEN "none" ELSE state[i]]
      /\ keep' = [i \in Ids |-> IF i \in ended THEN FALSE ELSE keep[i]]
      /\ siblings' = [i \in Ids |-> IF i \in ended THEN Each(0) ELSE siblings[i]]
      /\ channel' = [i \in Ids |-> IF i \in ended THEN AfterTeardown(i) ELSE channel[i]]
      /\ count' = [i \in Ids |-> IF i \in ended THEN 1
                                 ELSE IF i \in Live THEN count[i] - n[i] ELSE count[i]]
      /\ idle' = idle \ ended
      /\ quiet' = {i \in quiet : channel'[i] # 0}
  BY Zenon DEF Close
<1>2. ASSUME NEW i \in Ids, i \notin ended, i \in Live
      PROVE  count[i] - n[i] \in Nat \ {0}
  BY <1>2 DEF SessionTypes, Ends
<1>3. ASSUME NEW i \in Ids PROVE AfterTeardown(i) \in 0..2
  BY DEF AfterTeardown, SessionTypes
<1> HIDE DEF ended
<1>4. count' \in [Ids -> Nat \ {0}]
  BY <1>1, <1>2 DEF SessionTypes
<1>5. state' \in [Ids -> States] /\ keep' \in [Ids -> BOOLEAN] /\ channel' \in [Ids -> 0..2]
  BY <1>1, <1>3 DEF SessionTypes, States
<1>6. siblings' \in [Ids -> [Ids -> Nat]]
  BY <1>1 DEF SessionTypes, Each
<1>7. quiet' \subseteq Ids /\ idle' \subseteq Live'
  BY <1>1 DEF SessionTypes, Live
<1>8. QED BY <1>4, <1>5, <1>6, <1>7 DEF SessionTypes

\* How often a TEARDOWN closes a session, or the server that is disabled.
TornDown(i) == [j \in Ids |-> Once(i)[j] + IF j \in Walked(i) THEN siblings[i][j] ELSE 0]

LEMMA CloseCounts ==
  ASSUME SessionTypes, NEW i \in Ids
  PROVE  /\ Once(i) \in [Ids -> Nat] /\ TornDown(i) \in [Ids -> Nat]
         /\ [j \in Ids |-> IF j \in Live THEN 1 ELSE 0] \in [Ids -> Nat]
BY DEF SessionTypes, Once, TornDown

LEMMA JoinTypes ==
  ASSUME TypeInv, NEW c \in Clients, NEW m \in Media, Join(c, m),
         UNCHANGED <<setup, crashes>>
  PROVE  TypeInv'
<1>1. PICK i \in Shared(m) : /\ count' = CountUser(i) /\ idle' = idle \ {i}
                             /\ held' = [held EXCEPT ![c] = @ \cup {i}]
  BY Zenon DEF Join
<1>2. i \in Ids
  BY <1>1 DEF Shared, Live
<1>3. count' \in [Ids -> Nat \ {0}]
  BY <1>1, <1>2 DEF CountUser, TypeInv, SessionTypes
<1>4. held' \in [Clients -> SUBSET Ids]
  BY <1>1, <1>2 DEF TypeInv, RestTypes
<1>5. SessionTypes'
  BY <1>1, <1>3 DEF Join, TypeInv, SessionTypes, Live
<1>6. RestTypes'
  BY <1>4 DEF Join, TypeInv, RestTypes
<1>7. QED BY <1>1, <1>5, <1>6 DEF TypeInv, Sleeps, Join

LEMMA SetUpTypes ==
  ASSUME TypeInv, NEW c \in Clients, NEW m \in Media, SetUp(c, m),
         UNCHANGED <<setup, crashes>>
  PROVE  TypeInv'
<1>1. PICK i : /\ i = ids + 1 /\ ids' = i
               /\ medium' = [medium EXCEPT ![i] = m]
               /\ state' = [state EXCEPT ![i] = "SETUP"]
               /\ channel' = [channel EXCEPT ![i] = 1]
               /\ avp' = IF setup.mode = "tcp" THEN [avp EXCEPT ![i] = c] ELSE avp
               /\ held' = [held EXCEPT ![c] = @ \cup {i}]
  BY Zenon DEF SetUp
<1>2. i \in Ids /\ ids' \in 0..MaxIds
  BY <1>1, SetupFacts, RtspAssumption DEF SetUp, TypeInv, RestTypes, Ids
<1>3. SessionTypes'
  BY <1>1, <1>2 DEF SetUp, TypeInv, SessionTypes, Live, timeVars, States
<1>4. avp' \in [Ids -> Clients \cup {Nobody}]
  BY <1>1, <1>2 DEF TypeInv, RestTypes
<1>5. medium' \in [Ids -> Media \cup {NoMedium}] /\ held' \in [Clients -> SUBSET Ids]
  BY <1>1, <1>2 DEF TypeInv, RestTypes
<1>6. RestTypes'
  BY <1>2, <1>4, <1>5 DEF SetUp, TypeInv, RestTypes
<1>7. QED BY <1>3, <1>6 DEF TypeInv, Sleeps, SetUp, Asks

LEMMA PlayTypes ==
  ASSUME TypeInv, NEW c \in Clients, NEW i \in Ids, Play(c, i),
         UNCHANGED <<setup, crashes>>
  PROVE  TypeInv'
<1> DEFINE started == {j \in Others(i) \cup {i} : count[j] = 1}
<1>1. /\ state' = [j \in Ids |-> IF j \in started THEN "PLAY" ELSE state[j]]
      /\ channel' = [j \in Ids |-> IF j \in started THEN 2 ELSE channel[j]]
      /\ quiet' \subseteq quiet /\ idle' \subseteq idle
      /\ siblings' = [siblings EXCEPT ![i] =
                        [j \in Ids |-> IF j \in Others(i) THEN @[j] + 1 ELSE @[j]]]
  BY Zenon DEF Play
<1> HIDE DEF started
<1>2. siblings' \in [Ids -> [Ids -> Nat]]
  BY <1>1 DEF TypeInv, SessionTypes
<1>3. /\ state' \in [Ids -> States] /\ channel' \in [Ids -> 0..2]
      /\ quiet' \subseteq Ids /\ idle' \subseteq Live'
  BY <1>1 DEF TypeInv, SessionTypes, Live, States
<1>4. SessionTypes'
  BY <1>2, <1>3 DEF Play, TypeInv, SessionTypes
<1>5. RestTypes'
  BY DEF Play, TypeInv, RestTypes
<1>6. QED BY <1>4, <1>5, <1>1 DEF TypeInv, Sleeps, Play

LEMMA TeardownTypes ==
  ASSUME TypeInv, NEW c \in Clients, NEW i \in Ids, Teardown(c, i),
         UNCHANGED <<setup, crashes>>
  PROVE  TypeInv'
<1>1. Close(TornDown(i)) /\ held' = [held EXCEPT ![c] = @ \ (Walked(i) \cup {i})]
  BY DEF Teardown, TornDown
<1>2. SessionTypes'
  BY <1>1, CloseTypes, CloseCounts DEF TypeInv
<1>3. UNCHANGED medium
  BY <1>1 DEF Close
<1>4. held' \in [Clients -> SUBSET Ids]
  BY <1>1 DEF TypeInv, RestTypes
<1>5. RestTypes'
  BY <1>3, <1>4 DEF Teardown, TypeInv, RestTypes
<1>6. QED BY <1>2, <1>5 DEF TypeInv, Sleeps, Teardown, Request

LEMMA ParameterTypes ==
  ASSUME TypeInv, NEW c \in Clients, NEW i \in Ids, Parameter(c, i) \/ Refused(c, i),
         UNCHANGED <<setup, crashes>>
  PROVE  TypeInv'
<1>1. CASE Parameter(c, i)
  <2>1. PICK kept : /\ keep' = [j \in Ids |-> keep[j] \/ j \in kept]
                    /\ idle' = idle \ kept
    BY <1>1, Zenon DEF Parameter
  <2>2. keep' \in [Ids -> BOOLEAN]
    BY <2>1, Zenon
  <2>3. SessionTypes'
    BY <1>1, <2>1, <2>2 DEF Parameter, TypeInv, SessionTypes, Live
  <2>4. RestTypes'
    BY <1>1 DEF Parameter, TypeInv, RestTypes
  <2>5. QED BY <1>1, <2>3, <2>4 DEF TypeInv, Sleeps, Parameter, Request
<1>2. CASE Refused(c, i)
  <2>1. SessionTypes'
    BY <1>2 DEF Refused, sesVars, timeVars, TypeInv, SessionTypes, Live
  <2>2. held' \in [Clients -> SUBSET Ids]
    BY <1>2 DEF Refused, TypeInv, RestTypes
  <2>3. RestTypes'
    BY <1>2, <2>2 DEF Refused, sesVars, TypeInv, RestTypes
  <2>4. QED BY <1>2, <2>1, <2>3 DEF TypeInv, Sleeps, Refused, Request
<1>3. QED BY <1>1, <1>2

LEMMA EventTypes ==
  ASSUME TypeInv, Events, UNCHANGED <<setup, crashes>>
  PROVE  TypeInv'
<1>1. ASSUME NEW i \in Ids, Quiet(i) \/ Report(i) \/ Idle(i) PROVE TypeInv'
  <2>1. /\ quiet' \subseteq quiet \cup {i} /\ idle' \subseteq idle \cup (IF i \in Live THEN {i} ELSE {})
        /\ UNCHANGED <<up, enabled, ids, sesVars, avp, saved, conn, held>> /\ up
    BY <1>1 DEF Quiet, Report, Idle
  <2>2. SessionTypes'
    BY <2>1 DEF sesVars, TypeInv, SessionTypes, Live
  <2>3. RestTypes'
    BY <2>1 DEF sesVars, TypeInv, RestTypes
  <2>4. QED BY <2>1, <2>2, <2>3 DEF TypeInv, Sleeps
<1>2. ASSUME NEW i \in Ids, TimedOut(i) PROVE TypeInv'
  <2>1. SessionTypes' /\ UNCHANGED medium
    BY <1>2, CloseTypes, CloseCounts DEF TimedOut, TypeInv, Close
  <2>2. RestTypes'
    BY <1>2, <2>1 DEF TimedOut, TypeInv, RestTypes
  <2>3. QED BY <1>2, <2>1, <2>2 DEF TimedOut, TypeInv, Sleeps
<1>3. ASSUME NEW c \in Clients, Disconnect(c) PROVE TypeInv'
  <2>1. SessionTypes'
    BY <1>3 DEF Disconnect, sesVars, timeVars, TypeInv, SessionTypes, Live
  <2>2. conn' \in [Clients -> {"up", "gone"}]
    BY <1>3 DEF Disconnect, TypeInv, RestTypes
  <2>3. avp' \in [Ids -> Clients \cup {Nobody}]
    <3>1. \/ UNCHANGED avp
          \/ \E i \in Ids : avp' = [avp EXCEPT ![i] = Nobody]
      BY <1>3 DEF Disconnect
    <3>2. QED BY <3>1 DEF TypeInv, RestTypes
  <2>4. RestTypes'
    BY <1>3, <2>2, <2>3 DEF Disconnect, sesVars, TypeInv, RestTypes
  <2>5. QED BY <1>3, <2>1, <2>4 DEF TypeInv, Sleeps, Disconnect, timeVars
<1>4. ASSUME NEW v \in BOOLEAN, SetEnabled(v) PROVE TypeInv'
  <2>1. SessionTypes' /\ UNCHANGED medium
    <3>1. CASE v
      BY <1>4, <3>1 DEF SetEnabled, sesVars, timeVars, TypeInv, SessionTypes, Live
    <3>2. CASE ~v
      <4> DEFINE n == [j \in Ids |-> IF j \in Live THEN 1 ELSE 0]
      <4>1. Close(n) /\ n \in [Ids -> Nat]
        BY <1>4, <3>2 DEF SetEnabled
      <4> HIDE DEF n
      <4>2. QED BY <4>1, CloseTypes DEF TypeInv, Close
    <3>3. QED BY <3>1, <3>2
  <2>2. RestTypes'
    BY <1>4, <2>1 DEF SetEnabled, TypeInv, RestTypes
  <2>3. QED BY <1>4, <2>1, <2>2 DEF SetEnabled, TypeInv, Sleeps
<1>5. QED BY <1>1, <1>2, <1>3, <1>4, Zenon DEF Events

LEMMA ProcessTypes ==
  ASSUME TypeInv, Process, UNCHANGED setup
  PROVE  TypeInv'
<1>1. CASE Die
  <2>1. SessionTypes'
    BY <1>1 DEF Die, Each, SessionTypes, Live, States
  <2>2. /\ conn' \in [Clients -> {"up", "gone"}] /\ avp' \in [Ids -> Clients \cup {Nobody}]
        /\ crashes' \in 0..MaxCrashes
    BY <1>1, RtspAssumption DEF Die, Each, TypeInv, RestTypes
  <2>3. RestTypes'
    BY <1>1, <2>2 DEF Die, TypeInv, RestTypes
  <2>4. QED BY <1>1, <2>1, <2>3 DEF TypeInv, Sleeps, Die
<1>2. CASE Save
  <2>1. SessionTypes'
    BY <1>2 DEF Save, sesVars, timeVars, TypeInv, SessionTypes, Live
  <2>2. RestTypes'
    BY <1>2 DEF Save, sesVars, TypeInv, RestTypes, SessionTypes
  <2>3. QED BY <1>2, <2>1, <2>2 DEF TypeInv, Sleeps, Save, timeVars
<1>3. CASE Load
  <2>1. idle = {} /\ UNCHANGED idle
    BY <1>3 DEF Load, TypeInv, Sleeps, timeVars
  <2>2. channel' \in [Ids -> 0..2] /\ siblings' \in [Ids -> [Ids -> Nat]]
    BY <1>3 DEF Load, Restored
  <2>3. SessionTypes'
    BY <1>3, <2>1, <2>2 DEF Load, timeVars, TypeInv, SessionTypes, RestTypes, Live
  <2>4. RestTypes'
    BY <1>3 DEF Load, TypeInv, RestTypes
  <2>5. QED BY <1>3, <2>3, <2>4 DEF TypeInv, Sleeps, Load
<1>4. QED BY <1>1, <1>2, <1>3 DEF Process

LEMMA NextTypes == TypeInv /\ [Next]_vars => TypeInv'
<1> SUFFICES ASSUME TypeInv, [Next]_vars PROVE TypeInv'
  OBVIOUS
<1>1. ASSUME Requests, UNCHANGED <<setup, crashes>> PROVE TypeInv'
  BY <1>1, JoinTypes, SetUpTypes, PlayTypes, TeardownTypes, ParameterTypes, Zenon
     DEF Requests
<1>2. ASSUME UNCHANGED vars PROVE TypeInv'
  <2>1. SessionTypes'
    BY <1>2 DEF vars, sesVars, timeVars, TypeInv, SessionTypes, Live
  <2>2. RestTypes' /\ Sleeps'
    BY <1>2 DEF vars, sesVars, timeVars, TypeInv, RestTypes, Sleeps
  <2>3. QED BY <2>1, <2>2 DEF TypeInv
<1>3. QED BY <1>1, <1>2, EventTypes, ProcessTypes, Zenon DEF Next

\* Every variable keeps its type: no count of users reaches zero while its
\* session stays, and only sessions of the server have a timeout that ran out.
THEOREM ServerTypeCorrect == Spec => []TypeOK
<1>1. TypeInv => TypeOK
  BY TypeParts DEF TypeInv
<1>2. QED BY InitTypes, NextTypes, <1>1, PTL DEF Spec

-----------------------------------------------------------------------------
(* The sessions of the file fit.  A session has a channel, the channels of a *)
(* medium are never more than MaxUnicastStreamCount, whoever leaks them, and *)
(* the id a set up takes has no channel and no place in the file.            *)

Unused(i) == /\ state[i] = "none" /\ saved.state[i] = "none"
             /\ channel[i] = 0 /\ i \notin quiet
Fresh == \A i \in Ids : i > ids => Unused(i)
Filed(m) == {i \in Ids : saved.state[i] # "none" /\ medium[i] = m}
Roomy == \A m \in Media : Cardinality(Channels(m)) <= setup.max
FileInv == Fresh /\ Roomy /\ FileFits
\* What the steps of the file's invariant rest on.
Known == TypeInv /\ StreamInv

\* The sessions of a medium are finitely many, and a part of them no more.
LEMMA Smaller ==
  ASSUME NEW S \in SUBSET Ids, NEW T \in SUBSET S
  PROVE  /\ IsFiniteSet(S) /\ IsFiniteSet(T)
         /\ Cardinality(S) \in Nat /\ Cardinality(T) \in Nat
         /\ Cardinality(T) <= Cardinality(S)
<1>1. IsFiniteSet(Ids)
  BY FS_Interval, RtspAssumption DEF Ids
<1>2. IsFiniteSet(S) /\ IsFiniteSet(T)
  BY <1>1, FS_Subset
<1>3. QED BY <1>2, FS_CardinalityType, FS_Subset

LEMMA InitFile == Init => FileInv
<1> SUFFICES ASSUME Init PROVE FileInv
  OBVIOUS
<1>1. Fresh
  BY DEF Init, Each, Fresh, Unused
<1>2. ASSUME NEW m \in Media
      PROVE  /\ Channels(m) = {} /\ Filed(m) = {}
             /\ setup.max \in Nat
  BY SetupFacts DEF Init, Each, Channels, Filed
<1>3. Roomy /\ FileFits
  BY <1>2, FS_EmptySet DEF Roomy, FileFits, Filed
<1>4. QED BY <1>1, <1>3 DEF FileInv

\* A step that gives no channel and leaves the file alone.
LEMMA FileStays ==
  ASSUME Known, FileInv, UNCHANGED <<setup, ids, medium, saved>>,
         \A i \in Ids : (state'[i] # "none" => state[i] # "none")
                        /\ (channel'[i] # 0 => channel[i] # 0),
         \A i \in quiet' : i \in quiet \/ channel[i] # 0
  PROVE  FileInv'
<1>1. Fresh'
  BY DEF FileInv, Fresh, Unused
<1>2. ASSUME NEW m \in Media PROVE Cardinality(Channels(m)') <= setup'.max
  <2>1. Channels(m) \subseteq Ids /\ Channels(m)' \subseteq Channels(m)
    BY DEF Channels
  <2>2. Cardinality(Channels(m)) <= setup.max /\ setup.max \in Nat
    BY SetupFacts DEF FileInv, Roomy, Known, TypeInv, RestTypes
  <2>3. QED BY <2>1, <2>2, Smaller
<1>3. FileFits'
  BY DEF FileInv, FileFits
<1>4. Roomy'
  BY <1>2 DEF Roomy
<1>5. QED BY <1>1, <1>3, <1>4 DEF FileInv

LEMMA CloseFile ==
  ASSUME Known, FileInv, NEW n, Close(n), UNCHANGED <<setup, ids, saved>>
  PROVE  FileInv'
<1> DEFINE ended == {i \in Ids : Ends(i, n[i])}
<1>1. /\ state' = [i \in Ids |-> IF i \in ended THEN "none" ELSE state[i]]
      /\ channel' = [i \in Ids |-> IF i \in ended THEN AfterTeardown(i) ELSE channel[i]]
      /\ quiet' = {i \in quiet : channel'[i] # 0} /\ UNCHANGED medium
  BY Zenon DEF Close
<1> HIDE DEF ended
<1>2. ASSUME NEW i \in Ids
      PROVE  /\ state'[i] # "none" => state[i] # "none"
             /\ channel'[i] # 0 => channel[i] # 0
  BY <1>1 DEF AfterTeardown
<1>3. QED BY <1>1, <1>2, FileStays

LEMMA SetUpFile ==
  ASSUME Known, FileInv, NEW c \in Clients, NEW m \in Media, SetUp(c, m), UNCHANGED setup
  PROVE  FileInv'
<1>1. PICK i : /\ i = ids + 1 /\ ids' = i
               /\ medium' = [medium EXCEPT ![i] = m]
               /\ state' = [state EXCEPT ![i] = "SETUP"]
               /\ channel' = [channel EXCEPT ![i] = 1]
               /\ UNCHANGED <<quiet, saved>> /\ HasRoom(m) /\ ids < setup.ids
  BY Zenon DEF SetUp, timeVars
<1>2. i \in Ids /\ ids \in Nat /\ setup.max \in Nat
  BY <1>1, SetupFacts, RtspAssumption DEF Known, TypeInv, RestTypes, Ids
<1>3. Unused(i)
  BY <1>1, <1>2 DEF FileInv, Fresh
<1>4. /\ medium' = [j \in Ids |-> IF j = i THEN m ELSE medium[j]]
      /\ state' = [j \in Ids |-> IF j = i THEN "SETUP" ELSE state[j]]
      /\ channel' = [j \in Ids |-> IF j = i THEN 1 ELSE channel[j]]
  BY <1>1, <1>2, Zenon DEF Known, TypeInv, SessionTypes, RestTypes
<1>5. Fresh'
  BY <1>1, <1>2, <1>4 DEF FileInv, Fresh, Unused, Ids
<1>6. ASSUME NEW k \in Media PROVE Cardinality(Channels(k)') <= setup'.max
  <2>1. IsFiniteSet(Channels(k)) /\ Cardinality(Channels(k)) \in Nat
    <3>1. Channels(k) \subseteq Ids
      BY DEF Channels
    <3>2. QED BY <3>1, Smaller
  <2>2. CASE k = m
    <3>1. Channels(k)' = Channels(k) \cup {i}
      BY <1>2, <1>4, <2>2 DEF Channels
    <3>2. Cardinality(Channels(k)') <= Cardinality(Channels(k)) + 1
      <4>1. i \notin Channels(k)
        BY <1>3 DEF Channels, Unused
      <4>2. Cardinality(Channels(k) \cup {i}) = Cardinality(Channels(k)) + 1
        BY <2>1, <4>1, FS_AddElement
      <4>3. QED BY <2>1, <3>1, <4>2
    <3>3. Cardinality(Channels(k)) < setup.max /\ Cardinality(Channels(k)') \in Nat
      <4>1. Channels(k)' \subseteq Ids
        BY <1>2, <3>1 DEF Channels
      <4>2. QED BY <1>1, <2>2, <4>1, Smaller DEF HasRoom
    <3>4. QED BY <1>2, <2>1, <3>2, <3>3
  <2>3. CASE k # m
    <3>1. Channels(k)' = Channels(k)
      BY <1>2, <1>3, <1>4, <2>3 DEF Channels, Unused
    <3>2. QED BY <3>1 DEF FileInv, Roomy
  <2>4. QED BY <2>2, <2>3
<1>7. ASSUME NEW k \in Media PROVE Filed(k)' = Filed(k)
  BY <1>1, <1>2, <1>3, <1>4 DEF Filed, Unused
<1>8. Roomy' /\ FileFits'
  BY <1>6, <1>7 DEF FileInv, Roomy, FileFits, Filed
<1>9. QED BY <1>5, <1>8 DEF FileInv

LEMMA PlayFile ==
  ASSUME Known, FileInv, NEW c \in Clients, NEW i \in Ids, Play(c, i), UNCHANGED setup
  PROVE  FileInv'
<1> DEFINE started == {j \in Others(i) \cup {i} : count[j] = 1}
<1>1. /\ state' = [j \in Ids |-> IF j \in started THEN "PLAY" ELSE state[j]]
      /\ channel' = [j \in Ids |-> IF j \in started THEN 2 ELSE channel[j]]
      /\ quiet' \subseteq quiet
  BY Zenon DEF Play
<1>2. started \subseteq Live
  BY DEF Play, Others
<1>3. \A j \in Live : state[j] # "none" /\ channel[j] # 0
  BY DEF Known, StreamInv, StreamsMatch, States, Live
<1> HIDE DEF started
<1>4. \A j \in Ids : /\ state'[j] # "none" => state[j] # "none"
                     /\ channel'[j] # 0 => channel[j] # 0
  BY <1>1, <1>2, <1>3
<1>5. QED BY <1>1, <1>4, FileStays DEF Play

LEMMA ProcessFile ==
  ASSUME Known, FileInv, Process, UNCHANGED setup
  PROVE  FileInv'
<1>0. \A i \in Ids : state[i] # "none" => channel[i] # 0
  BY DEF Known, StreamInv, StreamsMatch, States
<1>1. CASE Die
  <2>1. /\ \A i \in Ids : state'[i] = "none" /\ channel'[i] = 0
        /\ quiet' = {} /\ UNCHANGED <<ids, medium, saved>>
    BY <1>1 DEF Die, Each
  <2>2. QED BY <2>1, FileStays
<1>2. CASE Save
  <2>1. /\ UNCHANGED <<state, channel, quiet, ids, medium>> /\ saved'.state = state
    BY <1>2 DEF Save, sesVars, timeVars
  <2>2. Fresh'
    BY <2>1 DEF FileInv, Fresh, Unused
  <2>3. ASSUME NEW m \in Media PROVE Cardinality(Filed(m)') <= setup'.max
    <3>1. Channels(m) \subseteq Ids /\ Filed(m)' \subseteq Channels(m)
      BY <1>0, <2>1 DEF Channels, Filed
    <3>2. Cardinality(Channels(m)) <= setup.max /\ setup.max \in Nat
      BY SetupFacts DEF FileInv, Roomy, Known, TypeInv, RestTypes
    <3>3. QED BY <3>1, <3>2, Smaller
  <2>4. Roomy' /\ FileFits'
    BY <2>1, <2>3 DEF FileInv, Roomy, FileFits, Filed, Channels
  <2>5. QED BY <2>2, <2>4 DEF FileInv
<1>3. CASE Load
  <2>1. /\ state' = saved.state /\ UNCHANGED <<quiet, ids, medium, saved>>
        /\ channel' = [i \in Ids |-> Restored(saved.state[i])]
    BY <1>3 DEF Load, timeVars
  <2>2. \A i \in Ids : channel'[i] # 0 <=> saved.state[i] # "none"
    BY <2>1 DEF Restored
  <2>3. Fresh'
    BY <2>1, <2>2 DEF FileInv, Fresh, Unused
  <2>4. ASSUME NEW m \in Media
        PROVE  Channels(m)' = Filed(m) /\ Filed(m)' = Filed(m)
    BY <2>1, <2>2 DEF Channels, Filed
  <2>5. \A m \in Media : Cardinality(Filed(m)) <= setup.max
    BY DEF FileInv, FileFits, Filed
  <2>6. Roomy'
    BY <2>4, <2>5 DEF Roomy
  <2>7. FileFits'
    BY <2>1 DEF FileInv, FileFits
  <2>8. QED BY <2>3, <2>6, <2>7 DEF FileInv
<1>4. QED BY <1>1, <1>2, <1>3 DEF Process

LEMMA NextFile == Known /\ FileInv /\ [Next]_vars => FileInv'
<1> SUFFICES ASSUME Known, FileInv, [Next]_vars PROVE FileInv'
  OBVIOUS
<1>1. ASSUME Requests, UNCHANGED setup PROVE FileInv'
  <2>1. ASSUME NEW c \in Clients, NEW m \in Media, Join(c, m) PROVE FileInv'
    BY <1>1, <2>1, FileStays DEF Join
  <2>2. ASSUME NEW c \in Clients, NEW i \in Ids, Teardown(c, i) PROVE FileInv'
    BY <1>1, <2>2, CloseFile DEF Teardown
  <2>3. ASSUME NEW c \in Clients, NEW i \in Ids, Parameter(c, i) \/ Refused(c, i)
        PROVE  FileInv'
    BY <1>1, <2>3, FileStays DEF Parameter, Refused, sesVars, timeVars
  <2>4. QED BY <1>1, <2>1, <2>2, <2>3, SetUpFile, PlayFile, Zenon DEF Requests
<1>2. ASSUME Events, UNCHANGED setup PROVE FileInv'
  <2>1. ASSUME NEW i \in Ids, Quiet(i) \/ Report(i) \/ Idle(i) PROVE FileInv'
    BY <1>2, <2>1, FileStays DEF Quiet, Report, Idle, sesVars
  <2>2. ASSUME NEW i \in Ids, TimedOut(i) PROVE FileInv'
    BY <1>2, <2>2, CloseFile DEF TimedOut
  <2>3. ASSUME NEW c \in Clients, Disconnect(c) PROVE FileInv'
    BY <1>2, <2>3, FileStays DEF Disconnect, sesVars, timeVars
  <2>4. ASSUME NEW v \in BOOLEAN, SetEnabled(v) PROVE FileInv'
    <3>1. CASE v
      BY <1>2, <2>4, <3>1, FileStays DEF SetEnabled, sesVars, timeVars
    <3>2. CASE ~v
      BY <1>2, <2>4, <3>2, CloseFile DEF SetEnabled
    <3>3. QED BY <3>1, <3>2
  <2>5. QED BY <1>2, <2>1, <2>2, <2>3, <2>4, Zenon DEF Events
<1>3. ASSUME UNCHANGED vars PROVE FileInv'
  BY <1>3, FileStays DEF vars, sesVars, timeVars
<1>4. QED BY <1>1, <1>2, <1>3, ProcessFile, Zenon DEF Next

LEMMA KnownInductive == /\ Init => Known
                        /\ Known /\ [Next]_vars => Known'
BY InitTypes, InitStreams, NextTypes, NextStreams DEF Known

\* What a process that died left in /tmp/rtsp.sessions fits in the limits of the
\* next one, whenever it was written: loadSessions() gets a channel for each.
THEOREM FileAlwaysFits == Spec => []FileFits
<1>1. Known /\ FileInv => FileFits
  BY DEF FileInv
<1>2. QED BY KnownInductive, InitFile, NextFile, <1>1, PTL DEF Spec

-----------------------------------------------------------------------------
(* The users of a session are served.  clientCount is the number of the      *)
(* clients that hold the session, so that none of them ends it for another,  *)
(* and a client that holds a session lives and reports for it.               *)

Holders(i) == {c \in Clients : i \in held[c]}
Alone == /\ up
         /\ \A i, j \in Ids : siblings[i][j] = 0
         /\ \A i \in Ids : avp[i] = Nobody
Holding == \A c \in Clients : /\ held[c] \subseteq Live
                              /\ conn[c] = "gone" => held[c] = {}
Counted(i) == IF i \in Live THEN count[i] = Cardinality(Holders(i)) /\ i \notin quiet
                            ELSE count[i] = 1
Shares == Alone /\ Holding /\ \A i \in Ids : Counted(i)
ShareInv == Served => Shares
\* What the steps of this invariant rest on.
Base == Known /\ FileInv

\* Few clients hold a session, one more with the client that joins it.
LEMMA HoldersFinite ==
  ASSUME NEW i \in Ids
  PROVE  IsFiniteSet(Holders(i)) /\ Cardinality(Holders(i)) \in Nat
<1>1. Holders(i) \subseteq Clients
  BY DEF Holders
<1>2. QED BY <1>1, RtspAssumption, FS_Subset, FS_CardinalityType

LEMMA InitShares == Init => ShareInv
<1> SUFFICES ASSUME Init PROVE Shares
  BY DEF ShareInv
<1>1. Alone /\ Holding
  BY DEF Init, Each, Alone, Holding
<1>2. \A i \in Ids : Counted(i)
  BY DEF Init, Each, Counted, Live
<1>3. QED BY <1>1, <1>2 DEF Shares

\* A step that changes neither who holds what nor which sessions there are.
LEMMA SharesStay ==
  ASSUME Shares, UNCHANGED <<up, siblings, avp, count, conn, held>>,
         \A i \in Ids : state'[i] # "none" <=> state[i] # "none",
         quiet' \subseteq quiet
  PROVE  Shares'
<1>1. Live' = Live
  BY DEF Live
<1>2. Alone' /\ Holding'
  BY <1>1 DEF Shares, Alone, Holding
<1>3. \A i \in Ids : Counted(i)'
  BY <1>1 DEF Shares, Counted, Holders
<1>4. QED BY <1>2, <1>3 DEF Shares

LEMMA JoinShares ==
  ASSUME Base, Shares, NEW c \in Clients, NEW m \in Media, Join(c, m)
  PROVE  Shares'
<1>1. PICK i \in Shared(m) : /\ count' = CountUser(i)
                             /\ held' = [held EXCEPT ![c] = @ \cup {i}]
  BY Zenon DEF Join
<1>2. i \in Live /\ i \in Ids /\ medium[i] = m
  BY <1>1 DEF Shared, Live
<1>3. UNCHANGED <<up, siblings, avp, conn, state, quiet>> /\ Live' = Live
  BY DEF Join, Live
<1>4. conn[c] = "up" /\ i \notin held[c]
  BY <1>2 DEF Join, Asks
<1>5. \A d \in Clients : held'[d] = IF d = c THEN held[c] \cup {i} ELSE held[d]
  BY <1>1 DEF Base, Known, TypeInv, RestTypes
<1>6. Alone' /\ Holding'
  BY <1>2, <1>3, <1>4, <1>5 DEF Shares, Alone, Holding
<1>7. ASSUME NEW j \in Ids PROVE Counted(j)'
  <2>1. CASE j = i
    <3>1. Holders(j)' = Holders(j) \cup {c} /\ c \notin Holders(j)
      BY <1>4, <1>5, <2>1 DEF Holders
    <3>2. Cardinality(Holders(j)') = Cardinality(Holders(j)) + 1
      BY <3>1, HoldersFinite, FS_AddElement
    <3>3. count'[j] = count[j] + 1
      BY <1>1, <1>2, <2>1 DEF CountUser, Base, Known, TypeInv, SessionTypes
    <3>4. count[j] = Cardinality(Holders(j)) /\ j \notin quiet
      BY <1>2, <2>1 DEF Shares, Counted
    <3>5. QED BY <1>2, <1>3, <2>1, <3>2, <3>3, <3>4 DEF Counted
  <2>2. CASE j # i
    <3>1. Holders(j)' = Holders(j)
      BY <1>5, <2>2 DEF Holders
    <3>2. count'[j] = count[j]
      BY <1>1, <2>2 DEF CountUser, Base, Known, TypeInv, SessionTypes
    <3>3. QED BY <1>3, <3>1, <3>2 DEF Shares, Counted
  <2>3. QED BY <2>1, <2>2
<1>8. QED BY <1>6, <1>7 DEF Shares

LEMMA SetUpShares ==
  ASSUME Base, Served, Shares, NEW c \in Clients, NEW m \in Media, SetUp(c, m)
  PROVE  Shares'
<1>1. PICK i : /\ i = ids + 1
               /\ state' = [state EXCEPT ![i] = "SETUP"]
               /\ held' = [held EXCEPT ![c] = @ \cup {i}]
               /\ UNCHANGED <<up, count, siblings, avp, quiet, conn>>
               /\ ids < setup.ids
  BY Zenon DEF SetUp, timeVars, Served
<1>2. i \in Ids /\ i > ids
  BY <1>1, SetupFacts, RtspAssumption DEF Base, Known, TypeInv, RestTypes, Ids
<1>3. state[i] = "none" /\ i \notin quiet
  BY <1>2 DEF Base, FileInv, Fresh, Unused
<1>4. Live' = Live \cup {i} /\ i \notin Live
  BY <1>1, <1>2, <1>3 DEF Live, Base, Known, TypeInv, SessionTypes
<1>5. \A d \in Clients : held'[d] = IF d = c THEN held[c] \cup {i} ELSE held[d]
  BY <1>1 DEF Base, Known, TypeInv, RestTypes
<1>6. conn[c] = "up" /\ \A d \in Clients : i \notin held[d]
  BY <1>4 DEF SetUp, Asks, Shares, Holding
<1>7. Alone' /\ Holding'
  BY <1>1, <1>4, <1>5, <1>6 DEF Shares, Alone, Holding
<1>8. ASSUME NEW j \in Ids PROVE Counted(j)'
  <2>1. CASE j = i
    <3>1. Holders(j)' = {c}
      BY <1>5, <1>6, <2>1 DEF Holders
    <3>2. Cardinality(Holders(j)') = 1
      BY <3>1, FS_Singleton
    <3>3. count'[j] = 1
      BY <1>1, <1>4, <2>1 DEF Shares, Counted
    <3>4. QED BY <1>1, <1>3, <1>4, <2>1, <3>2, <3>3 DEF Counted
  <2>2. CASE j # i
    <3>1. Holders(j)' = Holders(j)
      BY <1>5, <2>2 DEF Holders
    <3>2. QED BY <1>1, <1>4, <2>2, <3>1 DEF Shares, Counted
  <2>3. QED BY <2>1, <2>2
<1>9. QED BY <1>7, <1>8 DEF Shares

LEMMA PlayShares ==
  ASSUME Base, Served, Shares, NEW c \in Clients, NEW i \in Ids, Play(c, i)
  PROVE  Shares'
<1>1. Others(i) = {} /\ i \in Live
  BY DEF Served, Others, Play
<1>2. /\ \A j \in Ids : state'[j] # "none" <=> state[j] # "none"
      /\ quiet' \subseteq quiet
      /\ siblings' = [siblings EXCEPT ![i] = [j \in Ids |-> @[j]]]
      /\ UNCHANGED <<up, avp, count, conn, held>>
  BY <1>1 DEF Play, Live
<1>3. siblings' = siblings
  BY <1>2 DEF Base, Known, TypeInv, SessionTypes
<1>4. QED BY <1>2, <1>3, SharesStay

\* One of the users of a session closes it: it goes with its last user.
LEMMA TeardownShares ==
  ASSUME Base, Served, Shares, NEW c \in Clients, NEW i \in Ids, Teardown(c, i)
  PROVE  Shares'
<1>1. Walked(i) = {} /\ i \in Live /\ i \in held[c]
  BY DEF Served, Walked, Teardown, Request
<1>2. held' = [held EXCEPT ![c] = @ \ {i}] /\ Close(TornDown(i))
      /\ UNCHANGED <<up, avp, conn>>
  BY <1>1 DEF Teardown, TornDown
<1>3. \A j \in Ids : TornDown(i)[j] = IF j = i THEN 1 ELSE 0
  BY <1>1 DEF TornDown, Once
<1> DEFINE ended == {j \in Ids : Ends(j, TornDown(i)[j])}
<1>4. /\ state' = [j \in Ids |-> IF j \in ended THEN "none" ELSE state[j]]
      /\ siblings' = [j \in Ids |-> IF j \in ended THEN Each(0) ELSE siblings[j]]
      /\ count' = [j \in Ids |-> IF j \in ended THEN 1
                                 ELSE IF j \in Live THEN count[j] - TornDown(i)[j] ELSE count[j]]
      /\ quiet' \subseteq quiet
  BY <1>2, Zenon DEF Close
<1>5. \A j \in Ids : count[j] \in Nat \ {0}
  BY DEF Base, Known, TypeInv, SessionTypes
<1>6. /\ \A j \in Ids : j \in ended <=> j = i /\ count[i] = 1
      /\ ended \subseteq {i}
  BY <1>1, <1>3, <1>5 DEF Ends
<1> HIDE DEF ended
<1>7. Holders(i)' = Holders(i) \ {c} /\ c \in Holders(i)
  BY <1>1, <1>2 DEF Holders, Base, Known, TypeInv, RestTypes
<1>8. /\ \A d \in Clients : held'[d] = IF d = c THEN held[c] \ {i} ELSE held[d]
      /\ \A j \in Ids \ {i} : Holders(j)' = Holders(j)
  BY <1>2 DEF Holders, Base, Known, TypeInv, RestTypes
<1>9. count[i] = Cardinality(Holders(i)) /\ i \notin quiet
  BY <1>1 DEF Shares, Counted
<1>10. Cardinality(Holders(i)') = count[i] - 1 /\ IsFiniteSet(Holders(i)')
  <2>1. Cardinality(Holders(i) \ {c}) = Cardinality(Holders(i)) - 1
    BY <1>7, HoldersFinite, FS_RemoveElement
  <2>2. IsFiniteSet(Holders(i) \ {c})
    BY HoldersFinite, FS_RemoveElement
  <2>3. QED BY <1>7, <1>9, <2>1, <2>2
<1>11. Live' = Live \ ended
  BY <1>4 DEF Live
<1>12. Alone'
  BY <1>2, <1>4 DEF Shares, Alone, Each
<1>13. ASSUME NEW d \in Clients
       PROVE  held'[d] \subseteq Live' /\ (conn'[d] = "gone" => held'[d] = {})
  <2>1. held[d] \subseteq Live /\ (conn[d] = "gone" => held[d] = {})
        /\ held'[d] \subseteq held[d]
    BY <1>8 DEF Shares, Holding
  <2>2. i \in ended => i \notin held'[d]
    <3>1. SUFFICES ASSUME i \in ended PROVE i \notin held'[d]
      OBVIOUS
    <3>2. Cardinality(Holders(i)') = 0
      BY <1>5, <1>6, <1>10, <3>1
    <3>3. Holders(i)' = {}
      BY <1>10, <3>2, FS_EmptySet
    <3>4. QED BY <3>3 DEF Holders
  <2>3. held'[d] \subseteq Live'
    BY <1>6, <1>11, <2>1, <2>2
  <2>4. QED BY <1>2, <2>1, <2>3
<1>14. ASSUME NEW j \in Ids PROVE Counted(j)'
  <2>1. CASE j = i
    <3>1. CASE i \in ended
      BY <1>4, <1>11, <2>1, <3>1 DEF Counted
    <3>2. CASE i \notin ended
      BY <1>1, <1>3, <1>4, <1>9, <1>10, <1>11, <2>1, <3>2 DEF Counted
    <3>3. QED BY <3>1, <3>2
  <2>2. CASE j # i
    <3>1. j \notin ended /\ count'[j] = count[j]
      BY <1>3, <1>4, <1>5, <1>6, <2>2
    <3>2. QED BY <1>4, <1>8, <1>11, <2>2, <3>1 DEF Shares, Counted
  <2>3. QED BY <2>1, <2>2
<1>15. QED BY <1>12, <1>13, <1>14 DEF Shares, Holding

LEMMA RequestShares ==
  ASSUME Base, Served, Shares, Requests
  PROVE  Shares'
<1>1. ASSUME NEW c \in Clients, NEW i \in Ids, Parameter(c, i) PROVE Shares'
  BY <1>1, SharesStay DEF Parameter
<1>2. ASSUME NEW c \in Clients, NEW i \in Ids, Refused(c, i) PROVE FALSE
  BY <1>2 DEF Refused, Request, Shares, Holding
<1>3. QED BY <1>1, <1>2, JoinShares, SetUpShares, PlayShares, TeardownShares, Zenon
          DEF Requests

\* The channel of a session that is held hears its user.
LEMMA HeldReported ==
  ASSUME Base, Served, Shares, NEW i \in Live
  PROVE  Reported(i)
<1>1. i \in Ids /\ count[i] = Cardinality(Holders(i)) /\ count[i] # 0
  BY DEF Live, Shares, Counted, Base, Known, TypeInv, SessionTypes
<1>2. Holders(i) # {}
  BY <1>1, FS_EmptySet
<1>3. PICK c \in Clients : i \in held[c]
  BY <1>2 DEF Holders
<1>4. conn[c] = "up"
  BY <1>3 DEF Shares, Holding, Base, Known, TypeInv, RestTypes
<1>5. QED BY <1>3, <1>4 DEF Reported, Users, Served

LEMMA EventShares ==
  ASSUME Base, Served, Shares, Events
  PROVE  Shares'
<1>1. ASSUME NEW i \in Ids, Quiet(i) PROVE Shares'
  <2>1. i \notin Live
    BY <1>1, HeldReported DEF Quiet
  <2>2. /\ UNCHANGED <<up, siblings, avp, count, conn, held, state>>
        /\ quiet' = quiet \cup {i} /\ Live' = Live
    BY <1>1 DEF Quiet, sesVars, Live
  <2>3. Alone' /\ Holding'
    BY <2>2 DEF Shares, Alone, Holding
  <2>4. \A j \in Ids : Counted(j)'
    BY <2>1, <2>2 DEF Shares, Counted, Holders
  <2>5. QED BY <2>3, <2>4 DEF Shares
<1>2. ASSUME NEW i \in Ids, Report(i) \/ Idle(i) PROVE Shares'
  BY <1>2, SharesStay DEF Report, Idle, sesVars
<1>3. ASSUME NEW i \in Ids, TimedOut(i) PROVE FALSE
  BY <1>3 DEF TimedOut, Shares, Counted
<1>4. ASSUME NEW c \in Clients, Disconnect(c) PROVE Shares'
  <2>1. held[c] = {} /\ c # Nobody /\ \A i \in Ids : avp[i] = Nobody
    BY <1>4, RtspAssumption DEF Disconnect, Served, Shares, Alone
  <2>2. /\ UNCHANGED <<up, siblings, count, held, state, quiet, avp>>
        /\ conn' = [conn EXCEPT ![c] = "gone"] /\ Live' = Live
    BY <1>4, <2>1 DEF Disconnect, sesVars, timeVars, Live
  <2>3. Alone' /\ \A j \in Ids : Counted(j)'
    BY <2>2 DEF Shares, Alone, Counted, Holders
  <2>4. Holding'
    BY <2>1, <2>2 DEF Shares, Holding
  <2>5. QED BY <2>3, <2>4 DEF Shares
<1>5. ASSUME NEW v \in BOOLEAN, SetEnabled(v) PROVE Shares'
  BY <1>5, SharesStay DEF SetEnabled, Served, sesVars, timeVars
<1>6. QED BY <1>1, <1>2, <1>3, <1>4, <1>5, Zenon DEF Events

\* The process does not die: there is nothing deleted that a handler still uses.
LEMMA ProcessShares == ASSUME Served, Shares, Process PROVE FALSE
<1>1. \A i, j \in Ids : siblings[i][j] = 0
  BY DEF Shares, Alone
<1>2. ~UsesDeleted
  BY <1>1 DEF UsesDeleted, Shares, Alone, Live
<1>3. ~Die /\ ~Save /\ ~Load
  BY <1>2 DEF Die, Save, Load, Served, Shares, Alone
<1>4. QED BY <1>3 DEF Process

LEMMA NextShares == Base /\ ShareInv /\ [Next]_vars => ShareInv'
<1> SUFFICES ASSUME Base, ShareInv, [Next]_vars, Served' PROVE Shares'
  BY DEF ShareInv
<1>1. Served /\ Shares
  BY DEF Next, vars, Served, ShareInv
<1>2. ASSUME UNCHANGED vars PROVE Shares'
  BY <1>1, <1>2, SharesStay DEF vars, sesVars, timeVars
<1>3. QED BY <1>1, <1>2, RequestShares, EventShares, ProcessShares, Zenon DEF Next

LEMMA BaseInductive == /\ Init => Base
                       /\ Base /\ [Next]_vars => Base'
BY KnownInductive, InitFile, NextFile DEF Base

\* A client that lives and reports keeps the sessions it set up, however many
\* share them: those that tear down or disconnect take only themselves away.
THEOREM UsersAlwaysServed == Spec => []UsersServed
<1>1. ShareInv => UsersServed
  BY DEF ShareInv, Shares, Holding, UsersServed
<1>2. QED BY BaseInductive, InitShares, NextShares, <1>1, PTL DEF Spec
=============================================================================
