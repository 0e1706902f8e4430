--------------------------- MODULE BaseRtspServer ---------------------------
(***************************************************************************)
(* The sessions of the RTSP server, BaseRtspServer and BaseRtspSession of  *)
(* lmm/rtsp/basertspserver.{h,cpp}, with the channels they take from the   *)
(* RtpTransmitters of lmm/rtp/rtptransmitter.cpp.                          *)
(*                                                                         *)
(* The server runs in the event loop: one message, timer or signal is one  *)
(* action.  One stream is modelled, with a transmitter for each medium.  A *)
(* session makes one channel when it is set up, so both have one name.     *)
(* Requests carry session ids the client was given; parsing, DESCRIBE,     *)
(* OPTIONS, authentication, HTTP tunnels and the packets are left out.     *)
(* Time is two marks on a session: its channel heard no RTCP for           *)
(* rtcpTimeoutValue, and no request named it for rtspTimeoutValue.         *)
(***************************************************************************)
EXTENDS Integers, Sequences, FiniteSets

CONSTANTS
  Clients,      \* a client is its RTSP connection and its host
  Media,        \* the media of the stream
  Nobody,       \* no client
  NoMedium,     \* no medium
  MaxIds,       \* bound: sessions ever set up
  MaxSiblings,  \* bound: times a session is in a sibling list
  MaxCrashes,   \* bound: deaths of the process
  Setups        \* the ways the stream is configured and used

Ids == 1..MaxIds

\* The clients and media that occur, how the stream is sent, whether clients
\* PLAY and TEARDOWN the stream (aggregate) or a medium, MaxUnicastStreamCount,
\* a bound on the sessions set up,
\* and what may happen: clients that wait with PLAY ("late") or leave with sessions
\* open ("vanish"), setEnabled(false) with sessions open ("disable"), the death of
\* the process ("crash").
Setup == [clients: SUBSET Clients, media: SUBSET Media,
          mode: {"udp", "tcp", "multicast"}, aggregate: BOOLEAN,
          max: Nat \ {0},
          ids: 1..MaxIds, faults: SUBSET {"late", "vanish", "disable", "crash"}]

ASSUME RtspAssumption ==
  /\ MaxIds \in Nat \ {0} /\ MaxSiblings \in Nat /\ MaxCrashes \in Nat
  /\ Nobody \notin Clients /\ NoMedium \notin Media
  /\ IsFiniteSet(Clients) /\ Setups \subseteq Setup

VARIABLES
  setup,     \* the configuration
  up,        \* the process runs
  enabled,
  ids,       \* session ids given out so far
  crashes,   \* deaths so far
  medium,    \* mediaName of a session and its channel
  state,     \* state of a session in `sessions', "none" when it is not there
  count,     \* clientCount
  keep,      \* rtspTimeoutEnabled
  siblings,  \* siblings
  channel,   \* 0 outside RtpTransmitter::channels, else the channel's state
  avp,       \* avpTcpMappings
  quiet,     \* sessions whose channel's rrTime has run out
  idle,      \* sessions whose timeout has run out
  saved,     \* /tmp/rtsp.sessions
  conn,      \* connections of the clients
  held       \* the sessions each client has set up and not torn down

sesVars == <<medium, state, count, keep, siblings, channel>>
timeVars == <<quiet, idle>>
vars == <<setup, up, enabled, ids, crashes, sesVars, avp, timeVars, saved, conn, held>>

Multicast == setup.mode = "multicast"
Live == {i \in Ids : state[i] # "none"}
Channels(m) == {i \in Ids : channel[i] # 0 /\ medium[i] = m}
Users(i) == {c \in Clients : conn[c] = "up" /\ i \in held[c]}
Each(v) == [i \in Ids |-> v]

Init ==
  /\ setup \in Setups
  /\ up = TRUE /\ enabled = TRUE /\ ids = 0 /\ crashes = 0
  /\ medium = Each(NoMedium) /\ state = Each("none") /\ count = Each(1)
  /\ keep = Each(FALSE) /\ siblings = Each(Each(0)) /\ channel = Each(0)
  /\ avp = Each(Nobody) /\ quiet = {} /\ idle = {}
  /\ saved = [state |-> Each("none"), count |-> Each(1), keep |-> Each(FALSE)]
  /\ conn = [c \in Clients |-> "up"] /\ held = [c \in Clients |-> {}]

-----------------------------------------------------------------------------
(* SETUP *)

Asks(c, m) == /\ up /\ enabled /\ c \in setup.clients /\ conn[c] = "up"
              /\ m \in setup.media /\ \A i \in held[c] : medium[i] # m

\* findMulticastSession
Shared(m) == {i \in Live : Multicast /\ medium[i] = m}

\* The next user of a multicast session.  Deviation: not counted.
CountUserNot(i) == count
CountUser(i) == [count EXCEPT ![i] = @ + 1]

Join(c, m) ==
  /\ Asks(c, m)
  /\ \E i \in Shared(m) : /\ count' = CountUser(i)
                          /\ idle' = idle \ {i}
                          /\ held' = [held EXCEPT ![c] = @ \cup {i}]
  /\ UNCHANGED <<up, enabled, ids, medium, state, keep, siblings, channel, avp,
                 quiet, saved, conn>>

\* Whether a medium can be given one more channel; 453 otherwise.
\* Deviation: one more than the limit.
HasRoomPast(m) == Cardinality(Channels(m)) <= setup.max
HasRoom(m) == Cardinality(Channels(m)) < setup.max

\* A new session with its channel, and the hook of an interleaved one.
SetUp(c, m) ==
  /\ Asks(c, m) /\ Shared(m) = {} /\ HasRoom(m) /\ ids < setup.ids
  /\ LET i == ids + 1
     IN /\ ids' = i
        /\ medium' = [medium EXCEPT ![i] = m]
        /\ state' = [state EXCEPT ![i] = "SETUP"]
        /\ channel' = [channel EXCEPT ![i] = 1]
        /\ avp' = IF setup.mode = "tcp" THEN [avp EXCEPT ![i] = c] ELSE avp
        /\ held' = [held EXCEPT ![c] = @ \cup {i}]
  /\ UNCHANGED <<up, enabled, count, keep, siblings, timeVars, saved, conn>>

-----------------------------------------------------------------------------
(* closeSession *)

\* Whether n calls of closeSession() end a session.  Deviation: one too late.
EndsLate(i, n) == i \in Live /\ n > count[i]
Ends(i, n) == i \in Live /\ n > 0 /\ n >= count[i]

\* What BaseRtspSession::teardown() leaves of the channel: one that was never
\* played stays in the transmitter.  Deviation: the channel is not torn down.
AfterTeardownKept(i) == channel[i]
AfterTeardown(i) == IF state[i] = "PLAY" THEN 0 ELSE channel[i]

\* closeSession() called n[i] times for each session i.
Close(n) ==
  LET ended == {i \in Ids : Ends(i, n[i])}
      New(old, v) == [i \in Ids |-> IF i \in ended THEN v ELSE old[i]]
  IN /\ state' = New(state, "none") /\ keep' = New(keep, FALSE)
     /\ siblings' = New(siblings, Each(0))
     /\ channel' = [i \in Ids |-> IF i \in ended THEN AfterTeardown(i) ELSE channel[i]]
     /\ count' = [i \in Ids |-> IF i \in ended THEN 1
                                ELSE IF i \in Live THEN count[i] - n[i] ELSE count[i]]
     /\ idle' = idle \ ended
     /\ quiet' = {i \in quiet : channel'[i] # 0}
     /\ UNCHANGED medium

Once(i) == [j \in Ids |-> IF j = i THEN 1 ELSE 0]

-----------------------------------------------------------------------------
(* The other requests, for a session the client was given *)

Request(c, i) == up /\ conn[c] = "up" /\ i \in held[c]

\* The sessions an aggregate PLAY starts beside i, whoever set them up.
Others(i) == {j \in Live : /\ setup.aggregate /\ state[j] # "PLAY"
                           /\ j = i => count[i] # 1}

Play(c, i) ==
  /\ Request(c, i) /\ i \in Live
  /\ \A j \in Others(i) : siblings[i][j] < MaxSiblings
  /\ LET started == {j \in Others(i) \cup {i} : count[j] = 1}
     IN /\ state' = [j \in Ids |-> IF j \in started THEN "PLAY" ELSE state[j]]
        /\ channel' = [j \in Ids |-> IF j \in started THEN 2 ELSE channel[j]]
        /\ quiet' = quiet \ {j \in started : state[j] # "PLAY"}
  /\ idle' = idle \ (Others(i) \cup {i})
  /\ siblings' = [siblings EXCEPT ![i] =
                    [j \in Ids |-> IF j \in Others(i) THEN @[j] + 1 ELSE @[j]]]
  /\ UNCHANGED <<up, enabled, ids, medium, count, keep, avp, saved, conn, held>>

\* The siblings a handler walks when the URL names no medium.
Walked(i) == {j \in Ids : setup.aggregate /\ siblings[i][j] > 0}

Teardown(c, i) ==
  /\ Request(c, i) /\ i \in Live
  /\ Close([j \in Ids |-> Once(i)[j] + IF j \in Walked(i) THEN siblings[i][j] ELSE 0])
  /\ held' = [held EXCEPT ![c] = @ \ (Walked(i) \cup {i})]
  /\ UNCHANGED <<up, enabled, ids, avp, saved, conn>>

\* GET_PARAMETER and SET_PARAMETER walk the siblings whatever the URL names.
Parameter(c, i) ==
  /\ Request(c, i) /\ i \in Live
  /\ LET kept == {j \in Live : j = i \/ siblings[i][j] > 0}
     IN /\ keep' = [j \in Ids |-> keep[j] \/ j \in kept]
        /\ idle' = idle \ kept
  /\ UNCHANGED <<up, enabled, ids, medium, state, count, siblings, channel, avp,
                 quiet, saved, conn, held>>

\* A request for a session that was closed is answered with an error.
Refused(c, i) ==
  /\ Request(c, i) /\ i \notin Live
  /\ held' = [held EXCEPT ![c] = @ \ {i}]
  /\ UNCHANGED <<up, enabled, ids, sesVars, avp, timeVars, saved, conn>>

SetEnabled(v) ==
  /\ up /\ enabled # v /\ enabled' = v
  /\ IF v THEN UNCHANGED <<sesVars, timeVars>>
     ELSE "disable" \in setup.faults /\ Close([i \in Ids |-> IF i \in Live THEN 1 ELSE 0])
  /\ UNCHANGED <<up, ids, avp, saved, conn, held>>

-----------------------------------------------------------------------------
(* Timers and signals *)

\* A client reports from the time it plays; in time before that, unless "late".
\* Nothing reads the reports of an interleaved session.
Reported(i) == /\ setup.mode # "tcp" /\ Users(i) # {}
               /\ channel[i] = 2 \/ "late" \notin setup.faults

Quiet(i) ==
  /\ up /\ channel[i] # 0 /\ ~Reported(i) /\ i \notin quiet
  /\ quiet' = quiet \cup {i}
  /\ UNCHANGED <<up, enabled, ids, sesVars, avp, idle, saved, conn, held>>

Report(i) ==
  /\ up /\ channel[i] # 0 /\ Reported(i) /\ i \in quiet
  /\ quiet' = quiet \ {i}
  /\ UNCHANGED <<up, enabled, ids, sesVars, avp, idle, saved, conn, held>>

Idle(i) ==
  /\ up /\ i \in Live \ idle
  /\ idle' = idle \cup {i}
  /\ UNCHANGED <<up, enabled, ids, sesVars, avp, quiet, saved, conn, held>>

\* rtcpTimedOut().  Deviation: a session that had a GET_PARAMETER stays.
OverRtcp(i) == ~keep[i]
Over(i) == keep[i] => i \in idle

\* RtpChannel::timeout(), every second; a leaked channel's signal goes nowhere.
TimedOut(i) ==
  /\ up /\ i \in quiet \cap Live /\ Over(i)
  /\ Close(Once(i))
  /\ UNCHANGED <<up, enabled, ids, avp, saved, conn, held>>

\* A connection ends; clientDisconnected() forgets one of the channels the socket carries.
Disconnect(c) ==
  /\ conn[c] = "up" /\ c \in setup.clients
  /\ held[c] # {} => "vanish" \in setup.faults
  /\ conn' = [conn EXCEPT ![c] = "gone"]
  /\ LET mine == {i \in Ids : avp[i] = c}
     IN IF mine = {} THEN UNCHANGED avp
        ELSE \E i \in mine : avp' = [avp EXCEPT ![i] = Nobody]
  /\ UNCHANGED <<up, enabled, ids, sesVars, timeVars, saved, held>>

-----------------------------------------------------------------------------
(* The death of the process, and the sessions of the file *)

\* A handler that uses a deleted session or socket may end the process.
UsesDeleted ==
  \/ \E c \in Clients, i \in Live : Request(c, i) /\ \E j \in Ids \ Live : siblings[i][j] > 0
  \/ \E i \in Ids : channel[i] = 2 /\ avp[i] # Nobody /\ conn[avp[i]] = "gone"

Die ==
  /\ up /\ (UsesDeleted \/ "crash" \in setup.faults)
  /\ crashes < MaxCrashes /\ crashes' = crashes + 1
  /\ up' = FALSE /\ enabled' = FALSE
  /\ state' = Each("none") /\ count' = Each(1) /\ keep' = Each(FALSE)
  /\ siblings' = Each(Each(0)) /\ channel' = Each(0) /\ avp' = Each(Nobody)
  /\ quiet' = {} /\ idle' = {}
  /\ conn' = IF setup.mode = "tcp" THEN [c \in Clients |-> "gone"] ELSE conn
  /\ UNCHANGED <<ids, medium, saved, held>>

Save ==
  /\ up /\ "crash" \in setup.faults /\ crashes < MaxCrashes
  /\ saved' = [state |-> state, count |-> count, keep |-> keep]
  /\ UNCHANGED <<crashes, up, enabled, ids, sesVars, avp, timeVars, conn, held>>

\* loadSessions() asks the address of a socket that was never set: the read may
\* end the process again, which changes nothing here.  Each session is set up,
\* never interleaved, and played if it was.
Restored(s) == IF s = "none" THEN 0 ELSE IF s = "SETUP" THEN 1 ELSE 2

Load ==
  /\ ~up /\ up' = TRUE
  /\ state' = saved.state /\ count' = saved.count /\ keep' = saved.keep
  /\ channel' = [i \in Ids |-> Restored(saved.state[i])]
  /\ siblings' = [i \in Ids |-> [j \in Ids |->
       IF /\ saved.state[i] # "none" /\ saved.state[j] # "none"
          /\ medium[i] # medium[j]
       THEN 1 ELSE 0]]
  /\ UNCHANGED <<crashes, enabled, ids, medium, avp, timeVars, saved, conn, held>>

-----------------------------------------------------------------------------
Requests ==
  \E c \in Clients :
    \/ \E m \in Media : Join(c, m) \/ SetUp(c, m)
    \/ \E i \in Ids : Play(c, i) \/ Teardown(c, i) \/ Parameter(c, i) \/ Refused(c, i)
Events ==
  \/ \E i \in Ids : Quiet(i) \/ Report(i) \/ Idle(i) \/ TimedOut(i)
  \/ \E c \in Clients : Disconnect(c)
  \/ \E v \in BOOLEAN : SetEnabled(v)
Process == Die \/ Save \/ Load

Next == \/ (Requests \/ Events) /\ UNCHANGED <<setup, crashes>>
        \/ Process /\ UNCHANGED setup

Spec == Init /\ [][Next]_vars

\* The timers of the event loop fire.
Fairness == \A i \in Ids : /\ WF_vars(Quiet(i) /\ UNCHANGED <<setup, crashes>>)
                           /\ WF_vars(Idle(i) /\ UNCHANGED <<setup, crashes>>)
                           /\ WF_vars(TimedOut(i) /\ UNCHANGED <<setup, crashes>>)
FairSpec == Spec /\ Fairness

-----------------------------------------------------------------------------
TypeOK ==
  /\ setup \in Setups /\ up \in BOOLEAN /\ enabled \in BOOLEAN
  /\ ids \in 0..MaxIds /\ crashes \in 0..MaxCrashes
  /\ medium \in [Ids -> Media \cup {NoMedium}]
  /\ state \in [Ids -> {"none", "SETUP", "PLAY"}]
  /\ count \in [Ids -> Nat \ {0}] /\ keep \in [Ids -> BOOLEAN]
  /\ siblings \in [Ids -> [Ids -> Nat]] /\ channel \in [Ids -> 0..2]
  /\ avp \in [Ids -> Clients \cup {Nobody}]
  /\ quiet \subseteq Ids /\ idle \subseteq Live
  /\ saved \in [state: [Ids -> {"none", "SETUP", "PLAY"}],
                count: [Ids -> Nat \ {0}], keep: [Ids -> BOOLEAN]]
  /\ conn \in [Clients -> {"up", "gone"}] /\ held \in [Clients -> SUBSET Ids]

\* A channel sends exactly while a session plays it: no stream goes to nobody,
\* and no client that was told 200 to its PLAY of a session of its own is left
\* without one, through joins, time-outs and a restart.
StreamsMatch ==
  \A i \in Ids : /\ state[i] = "PLAY" <=> channel[i] = 2
                 /\ state[i] = "SETUP" => channel[i] = 1

\* No session becomes the sibling of a session of another client.
Apart == /\ setup.aggregate => Cardinality(setup.clients) = 1
         /\ "crash" \in setup.faults => Cardinality(setup.media) = 1

\* A client that lives and reports keeps the sessions it set up, whatever the
\* other clients of a multicast do: clientCount counts it.  The reports of an
\* interleaved session are not read, so that one times out while it is used.
Served == ~setup.aggregate /\ setup.faults = {} /\ setup.mode # "tcp"
UsersServed == Served => \A c \in Clients : conn[c] = "up" => held[c] \subseteq Live

\* The sessions of the file fit in the limits of a fresh process: loadSessions()
\* does not look at what setup() returns before it uses the channel.
FileFits ==
  \A m \in Media : Cardinality({i \in Ids : saved.state[i] # "none" /\ medium[i] = m}) <= setup.max

\* A session nobody uses is closed in the end, the clients it counts one by one.
Reclaimed ==
  \A i \in Ids : (Apart /\ i \in Live /\ Users(i) = {}) ~> (i \notin Live \/ Users(i) # {})

\* MaxUnicastStreamCount limits sessions: a medium has as many channels as
\* sessions.
SlotsMatch ==
  \A m \in Media : Cardinality(Channels(m)) = Cardinality({i \in Live : medium[i] = m})
=============================================================================
