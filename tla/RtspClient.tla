----------------------------- MODULE RtspClient -----------------------------
(***************************************************************************)
(* RtspClient (lmm/rtsp/rtspclient.cpp): the asynchronous client.  A timer *)
(* drives a state machine that writes requests; the socket's signals take  *)
(* the answers, which change the tables the timer looks at.  It all runs   *)
(* in one thread, so each slot is one action; what interleaves is the      *)
(* order of timer ticks, answers, connection events and the application's  *)
(* playASync() and teardownASync().                                        *)
(*                                                                         *)
(* External: the server (any RTSP server: it answers in order, forgets a   *)
(* session that was idle for its time-out) and QTcpSocket.  Left out: the  *)
(* blocking calls (they use sockets of their own and nobody calls them),   *)
(* answers cut in two, a description without a usable track, ports and     *)
(* addresses.                                                              *)
(***************************************************************************)
EXTENDS Integers, Sequences, FiniteSets, SequencesExt

CONSTANTS
  MaxSessions,  \* bound: sessions the server hands out
  Timeout,      \* the server's session time-out, in units of 5 seconds
  MaxPending,   \* bound: requests not answered yet when the timer ticks
  Setups

Faults == {"coalesce", "refuse", "auth", "connect", "bind", "lose", "restart"}
States == {"UNKNOWN", "OPTIONS_WAIT", "DESCRIBE_WAIT", "DESCRIBED", "SETUP_WAIT",
           "PLAY_WAIT", "PLAYED", "STREAMING"}

\* The RtpReceiver getTrackReceiver() finds for each track (0 for NULL), whether
\* the server's answers carry a Content-Length, how often the application changes
\* its mind, what may go wrong (see the actions) and how often it does.
Setup == [receivers: Seq(Nat), content: BOOLEAN, toggles: Nat,
          faults: SUBSET Faults, times: Nat]

ASSUME ClientAssumption ==
  /\ MaxSessions \in Nat /\ Timeout \in Nat \ {0} /\ MaxPending \in Nat
  /\ Setups \subseteq Setup

VARIABLES
  setup,      \* the configuration
  state,      \* the client's ConnectionState
  alive,      \* devstatus = ALIVE
  asyncPlay,
  toggles,    \* times asyncPlay was changed
  options,    \* serverInfo.options is not empty
  auth,       \* realm and nonce are known
  described,  \* tracks in serverDescriptions[serverUrl]
  setuped,    \* setupedSessions: sessions by key
  played,     \* playedSessions
  running,    \* receivers that are started
  crashed,    \* a NULL RtpReceiver was used: the process is gone
  conn,       \* state of asyncsock
  wire,       \* requests written to it, oldest first
  back,       \* answers on their way, oldest first
  srv,        \* the server's sessions: idle units and whether they play
  issued,     \* session ids the server has given
  faults,     \* times something went wrong
  lost,       \* history: the connection was lost
  ticked      \* the timer ticked in this unit of time

tables == <<options, auth, described, setuped, played, running, crashed>>
server == <<srv, issued>>
app == <<asyncPlay, toggles>>
link == <<conn, alive, faults, lost>>
vars == <<setup, state, app, tables, link, wire, back, server, ticked>>

Keys == 0..MaxSessions          \* 0 is the empty session id
Receivers == Range(setup.receivers)
May(fault) == fault \in setup.faults /\ faults < setup.times

\* RtspSession, and the one that QHash::operator[] makes.
Session(id, rtp) == [id |-> id, rtp |-> rtp, timed |-> id # 0, age |-> 0]
NoSession == [id |-> 0, rtp |-> 0, timed |-> FALSE, age |-> 0]

Put(t, k, s) == [x \in DOMAIN t \cup {k} |-> IF x = k THEN s ELSE t[x]]
Drop(t, k) == [x \in DOMAIN t \ {k} |-> t[x]]
At(t, k) == IF k \in DOMAIN t THEN t[k] ELSE NoSession

Init ==
  /\ setup \in Setups
  /\ state = "UNKNOWN" /\ alive = FALSE /\ asyncPlay = TRUE /\ toggles = 0
  /\ options = FALSE /\ auth = FALSE /\ described = 0
  /\ setuped = <<>> /\ played = <<>> /\ running = {} /\ crashed = FALSE
  /\ conn = "connecting" /\ wire = <<>> /\ back = <<>>
  /\ srv = <<>> /\ issued = 0 /\ faults = 0 /\ lost = FALSE /\ ticked = FALSE

-----------------------------------------------------------------------------
(* timeout() *)

\* A request: `arg' is the receiver of a SETUP, the session of the others.
Request(type, arg) == [type |-> type, arg |-> arg, auth |-> auth]
ForEach(type, keys) == LET ids == SetToSeq(keys) IN
                         [i \in DOMAIN ids |-> Request(type, ids[i])]

\* One for each track that has a receiver; without any, one for the server's URL.
AddSetup(reqs, r) == IF r = 0 THEN reqs ELSE Append(reqs, Request("SETUP", r))
SetupRequests ==
  LET reqs == FoldLeft(AddSetup, <<>>, SubSeq(setup.receivers, 1, described))
  IN  IF reqs = <<>> THEN <<Request("SETUP", 0)>> ELSE reqs

DueWithin(n) == {k \in DOMAIN played : played[k].timed /\ played[k].age > Timeout - n}
KeepAliveFor(n) == LET ids == SetToSeq(DueWithin(n)) IN
                   [i \in DOMAIN ids |-> Request("GET_PARAMETER", played[ids[i]].id)]
\* Deviation: waits until the time-out is over.
KeepAlivesLate == KeepAliveFor(1)

\* The loop at the end of every tick.  5 seconds are one unit, and a clock that
\* counts whole units has reached Timeout - 1 when the last 5 seconds begin.
KeepAlives == KeepAliveFor(2)

\* What is written to a closed socket is gone, though every *ASync() returns 0.
Writes(reqs) == wire' = IF conn = "unconnected" THEN wire ELSE wire \o reqs \o KeepAlives

Ticks(to, reqs) ==
  /\ state' = to /\ Writes(reqs) /\ ticked' = TRUE
  /\ UNCHANGED <<app, tables, link, back, server>>

TickUnknown == state = "UNKNOWN" /\ Ticks("OPTIONS_WAIT", <<Request("OPTIONS", 0)>>)
TickDescribe == /\ state = "OPTIONS_WAIT" /\ options
                /\ Ticks("DESCRIBE_WAIT", <<Request("DESCRIBE", 0)>>)
TickDescribed == state = "DESCRIBE_WAIT" /\ described > 0 /\ Ticks("DESCRIBED", <<>>)
TickSetup == state = "DESCRIBED" /\ asyncPlay /\ Ticks("SETUP_WAIT", SetupRequests)
TickPlay == /\ state = "SETUP_WAIT" /\ Cardinality(DOMAIN setuped) = described
            /\ Ticks("PLAY_WAIT", ForEach("PLAY", DOMAIN setuped))
TickPlayed == /\ state = "PLAY_WAIT" /\ DOMAIN setuped = {} /\ DOMAIN played # {}
              /\ Ticks("PLAYED", <<>>)
TickStreaming == state = "PLAYED" /\ Ticks("STREAMING", <<>>)

\* Deviation: tears down one session only.
TickTeardownOne == /\ state = "STREAMING" /\ ~asyncPlay
                   /\ Ticks("DESCRIBED", SubSeq(ForEach("TEARDOWN", DOMAIN played), 1, 1))
TickTeardown == /\ state = "STREAMING" /\ ~asyncPlay
                /\ Ticks("DESCRIBED", ForEach("TEARDOWN", DOMAIN played))

TickWaits ==
  /\ \/ state = "OPTIONS_WAIT" /\ ~options
     \/ state = "DESCRIBE_WAIT" /\ described = 0
     \/ state = "DESCRIBED" /\ ~asyncPlay
     \/ state = "SETUP_WAIT" /\ Cardinality(DOMAIN setuped) # described
     \/ state = "PLAY_WAIT" /\ (DOMAIN setuped # {} \/ DOMAIN played = {})
     \/ state = "STREAMING" /\ asyncPlay
  /\ Ticks(state, <<>>)

\* Before the first connection: the state is reset and the socket connected.
\* getOptionsASync() fails, and there is no session to keep alive.
TickDead == /\ ~alive
            /\ state' = "UNKNOWN" /\ conn' = "connecting" /\ ticked' = TRUE
            /\ UNCHANGED <<app, tables, alive, faults, lost, wire, back, server>>

Tick == \/ TickDead
        \/ /\ alive /\ Len(wire) + Len(back) <= MaxPending
           /\ \/ TickUnknown \/ TickDescribe \/ TickDescribed \/ TickSetup \/ TickPlay
              \/ TickPlayed \/ TickStreaming \/ TickTeardown \/ TickWaits

-----------------------------------------------------------------------------
(* aSyncDataReady() *)

\* readResponse() takes all that has arrived for one answer: a later header
\* replaces an earlier one, and after the first Content-Length all is content.
Merged(as) ==
  LET ends == {i \in DOMAIN as : as[i].content}
      j == IF ends = {} THEN Len(as) ELSE CHOOSE i \in ends : \A k \in ends : i <= k
      named == {i \in 1..j : as[i].id # 0}
  IN  [as[j] EXCEPT !.id = IF named = {} THEN 0
                           ELSE as[CHOOSE i \in named : \A k \in named : k <= i].id]

GotOptions(a) ==
  /\ a.type = "OPTIONS"
  /\ options' = TRUE
  /\ UNCHANGED <<state, auth, described, setuped, played, running, crashed>>

\* Deviation: reads a description in a refusal, too.
GotDescribeAny(a) ==
  /\ a.type = "DESCRIBE"
  /\ auth' = (auth \/ ~a.ok) /\ described' = described + Len(setup.receivers)
  /\ state' = IF a.ok THEN state ELSE "OPTIONS_WAIT"
  /\ UNCHANGED <<options, setuped, played, running, crashed>>

\* 401 makes the next tick describe again, with credentials.
GotDescribe(a) ==
  /\ a.type = "DESCRIBE"
  /\ \/ a.ok /\ described' = described + Len(setup.receivers) /\ UNCHANGED <<state, auth>>
     \/ ~a.ok /\ auth' = TRUE /\ state' = "OPTIONS_WAIT" /\ UNCHANGED described
  /\ UNCHANGED <<options, setuped, played, running, crashed>>

\* The status is not looked at: a refusal has no Session header and makes a session
\* with an empty id.  start() may fail, and then there is no session.
GotSetup(a) ==
  /\ a.type = "SETUP" /\ a.arg # 0
  /\ \/ running' = running \cup {a.arg} /\ setuped' = Put(setuped, a.id, Session(a.id, a.arg))
     \/ "bind" \in setup.faults /\ running' = running \ {a.arg} /\ UNCHANGED setuped
  /\ UNCHANGED <<state, options, auth, described, played, crashed>>

\* Deviation: the session is only removed from the first table.
GotPlayDrops(a) ==
  /\ a.type = "PLAY"
  /\ setuped' = Drop(setuped, a.arg)
  /\ UNCHANGED <<state, options, auth, described, played, running, crashed>>
GotPlay(a) ==
  /\ a.type = "PLAY"
  /\ setuped' = Drop(setuped, a.arg)
  /\ played' = Put(played, At(setuped, a.arg).id, At(setuped, a.arg))
  /\ UNCHANGED <<state, options, auth, described, running, crashed>>

GotTeardown(a) == /\ a.type = "TEARDOWN" /\ At(played, a.arg).rtp # 0
                  /\ running' = running \ {At(played, a.arg).rtp}
                  /\ played' = Drop(played, a.arg)
                  /\ UNCHANGED <<state, options, auth, described, setuped, crashed>>

\* operator[] makes a session again when the answer comes after TEARDOWN's.
GotKeepAlive(a) ==
  /\ a.type = "GET_PARAMETER"
  /\ played' = Put(played, a.arg, [At(played, a.arg) EXCEPT !.age = 0])
  /\ UNCHANGED <<state, options, auth, described, setuped, running, crashed>>

\* rtp is NULL: a SETUP without receiver, the end of a session made by operator[].
GotNull(a) ==
  /\ \/ a.type = "SETUP" /\ a.arg = 0
     \/ a.type = "TEARDOWN" /\ At(played, a.arg).rtp = 0
  /\ crashed' = TRUE
  /\ UNCHANGED <<state, options, auth, described, setuped, played, running>>

\* One readyRead(): one answer, or all those that came meanwhile.
Read ==
  /\ back # <<>>
  /\ \E k \in 1..Len(back) :
       /\ k = 1 \/ "coalesce" \in setup.faults
       /\ LET a == Merged(SubSeq(back, 1, k)) IN
            \/ GotOptions(a) \/ GotDescribe(a) \/ GotSetup(a) \/ GotPlay(a)
            \/ GotTeardown(a) \/ GotKeepAlive(a) \/ GotNull(a)
       /\ back' = SubSeq(back, k + 1, Len(back))
  /\ UNCHANGED <<app, link, wire, server, ticked>>

-----------------------------------------------------------------------------
(* The connection and the application *)

\* aSyncConnected()
Connected ==
  /\ conn = "connecting"
  /\ conn' = "connected" /\ alive' = TRUE
  /\ UNCHANGED <<state, app, tables, faults, lost, wire, back, server, ticked>>

\* aSyncError() does nothing; what was written for the connection is lost.
ConnectFails ==
  /\ conn = "connecting" /\ May("connect")
  /\ conn' = "unconnected" /\ wire' = <<>> /\ faults' = faults + 1
  /\ UNCHANGED <<state, app, tables, alive, lost, back, server, ticked>>

\* aSyncDisConnected() finds the socket unconnected, so that it always connects
\* again and returns: devstatus, the state and the sessions stay.  The server may
\* have been restarted.
Lose ==
  /\ conn = "connected" /\ May("lose")
  /\ conn' = "connecting" /\ wire' = <<>> /\ back' = <<>>
  /\ srv' \in {srv} \cup (IF "restart" \in setup.faults THEN {<<>>} ELSE {})
  /\ faults' = faults + 1 /\ lost' = TRUE
  /\ UNCHANGED <<state, app, tables, alive, issued, ticked>>

PlayASync == /\ ~asyncPlay /\ toggles < setup.toggles
             /\ asyncPlay' = TRUE /\ toggles' = toggles + 1
             /\ UNCHANGED <<state, tables, link, wire, back, server, ticked>>
TeardownASync == /\ asyncPlay /\ toggles < setup.toggles
                 /\ asyncPlay' = FALSE /\ toggles' = toggles + 1
                 /\ UNCHANGED <<state, tables, link, wire, back, server, ticked>>

-----------------------------------------------------------------------------
(* The server and the time (external) *)

Answers(ok, id) ==
  LET r == Head(wire) IN
    /\ wire' = Tail(wire)
    /\ back' = Append(back, [type |-> r.type, arg |-> r.arg, ok |-> ok, id |-> id,
                             content |-> ok /\ (setup.content \/ r.type = "DESCRIBE")])

\* A session's requests start its time again; without the session they are refused.
Serve ==
  /\ conn = "connected" /\ wire # <<>>
  /\ LET r == Head(wire) IN
       \/ r.type = "OPTIONS" /\ Answers(TRUE, 0) /\ UNCHANGED server
       \/ /\ r.type = "DESCRIBE" /\ UNCHANGED server
          /\ Answers("auth" \notin setup.faults \/ r.auth, 0)
       \/ /\ r.type = "SETUP" /\ issued < MaxSessions
          /\ issued' = issued + 1
          /\ srv' = Put(srv, issued + 1, [idle |-> 0, playing |-> FALSE])
          /\ Answers(TRUE, issued + 1)
       \/ /\ r.type = "SETUP" /\ "refuse" \in setup.faults
          /\ Answers(FALSE, 0) /\ UNCHANGED server
       \/ /\ r.type \in {"PLAY", "GET_PARAMETER"} /\ r.arg \in DOMAIN srv
          /\ srv' = Put(srv, r.arg, [idle |-> 0, playing |-> srv[r.arg].playing \/ r.type = "PLAY"])
          /\ Answers(TRUE, r.arg) /\ UNCHANGED issued
       \/ /\ r.type = "TEARDOWN" /\ r.arg \in DOMAIN srv
          /\ srv' = Drop(srv, r.arg)
          /\ Answers(TRUE, r.arg) /\ UNCHANGED issued
       \/ /\ r.type \in {"PLAY", "GET_PARAMETER", "TEARDOWN"} /\ r.arg \notin DOMAIN srv
          /\ Answers(FALSE, 0) /\ UNCHANGED server
  /\ UNCHANGED <<state, app, tables, link, ticked>>

\* 5 seconds: longer than a tick and an answer take.
Pass ==
  /\ ticked /\ wire = <<>> /\ back = <<>> /\ conn # "connecting"
  /\ ticked' = FALSE
  /\ srv' = [k \in {k \in DOMAIN srv : srv[k].idle + 1 < Timeout} |->
               [srv[k] EXCEPT !.idle = @ + 1]]
  /\ setuped' = [k \in DOMAIN setuped |->
                   [setuped[k] EXCEPT !.age = IF @ < Timeout THEN @ + 1 ELSE @]]
  /\ played' = [k \in DOMAIN played |->
                   [played[k] EXCEPT !.age = IF @ < Timeout THEN @ + 1 ELSE @]]
  /\ UNCHANGED <<state, app, options, auth, described, running, crashed, link, wire, back, issued>>

-----------------------------------------------------------------------------
Client(A) == ~crashed /\ A /\ UNCHANGED setup
Next == Client(\/ Tick \/ Read \/ Connected \/ ConnectFails \/ Lose
               \/ PlayASync \/ TeardownASync \/ Serve \/ Pass)

\* Timer and socket signals come again and again; the server answers.
Fairness == /\ WF_vars(Client(Tick)) /\ WF_vars(Client(Read))
            /\ WF_vars(Client(Connected)) /\ WF_vars(Client(Serve))

Spec == Init /\ [][Next]_vars
FairSpec == Spec /\ Fairness

-----------------------------------------------------------------------------
(* Properties *)

Sessions == [id : Keys, rtp : Receivers \cup {0}, timed : BOOLEAN, age : 0..Timeout]
Table(t) == DOMAIN t \subseteq Keys /\ \A k \in DOMAIN t : t[k] \in Sessions

UnderWay(types, k) ==
  \/ \E i \in DOMAIN wire : wire[i].type \in types /\ wire[i].arg = k
  \/ \E i \in DOMAIN back : back[i].type \in types /\ back[i].arg = k

\* Every variable stays in its set of values; a description is read once, whatever
\* was refused before it (serverDescriptions is appended to and never cleared).
TypeOK ==
  /\ setup \in Setups /\ state \in States
  /\ {alive, asyncPlay, options, auth, crashed, lost, ticked} \subseteq BOOLEAN
  /\ toggles \in 0..setup.toggles /\ faults \in 0..setup.times
  /\ described \in {0, Len(setup.receivers)}
  /\ Table(setuped) /\ Table(played) /\ running \subseteq Receivers \ {0}
  /\ conn \in {"unconnected", "connecting", "connected"}
  /\ issued \in 0..MaxSessions /\ DOMAIN srv \subseteq 1..issued
  /\ \A k \in DOMAIN srv : srv[k] \in [idle : 0..Timeout - 1, playing : BOOLEAN]

\* The keep-alive is in time: as long as the connection holds, a session the client
\* plays is playing at the server, until its TEARDOWN is sent; even when answers
\* arrive together and all but one of them are lost on readResponse() (but then a
\* TEARDOWN may have been answered for nothing).
ServerAgrees ==
  ~lost => \A k \in DOMAIN played :
    \/ played[k].rtp = 0 \/ ~played[k].timed
    \/ k \in DOMAIN srv /\ srv[k].playing
    \/ UnderWay({"TEARDOWN"}, k)
    \/ "coalesce" \in setup.faults /\ toggles > 0

\* What is open can still be closed.  A receiver with open sockets belongs to a
\* session, so that a TEARDOWN (or closeAll()) can reach it; refused SETUPs of two
\* tracks share one entry.  The server keeps no session the client has forgotten:
\* while the connection holds and answers come one by one, the session is in one of
\* the client's tables, with its receiver, or the answer to its SETUP is under way.
NoOrphans ==
  /\ "refuse" \notin setup.faults =>
       \A r \in running : \E t \in {setuped, played} : \E k \in DOMAIN t : t[k].rtp = r
  /\ (~lost /\ setup.faults \cap {"coalesce", "bind"} = {} /\ ~crashed) =>
       \A k \in DOMAIN srv :
         \/ \E t \in {setuped, played} : k \in DOMAIN t /\ t[k].rtp # 0
         \/ \E i \in DOMAIN back : back[i].type = "SETUP" /\ back[i].id = k

Clean == setup.faults \cap {"coalesce", "refuse", "bind", "lose"} = {}

\* Every track's session plays at the server and its receiver runs.
Streaming == /\ state = "STREAMING" /\ running = Receivers
             /\ Cardinality({k \in DOMAIN srv : srv[k].playing}) = Len(setup.receivers)

\* The application gets what it asked for last, unless the client crashes:
\* playASync() ends in a stream, however often the first connection fails and with
\* credentials asked for; teardownASync() ends with no session and no receiver, in
\* whatever state it is called: before the first answer, while tracks are set up,
\* while PLAY is under way.
Obeys ==
  /\ (Clean /\ asyncPlay) ~> (~asyncPlay \/ crashed \/ Streaming)
  /\ (Clean /\ ~asyncPlay) ~> (asyncPlay \/ crashed \/ (DOMAIN srv = {} /\ running = {}))

\* The comment in timeout(): "if we're disconnected from device, we restart next
\* time we connected".
RestartsAfterLoss == lost ~> (state = "UNKNOWN" \/ crashed)
=============================================================================
