----------------------- MODULE JobDistributorElement -----------------------
(***************************************************************************)
(* JobDistributorElement (lmm/jobdistributorelement.cpp): an element that  *)
(* gives its buffers to other elements, each run by a DistHandlerThread,   *)
(* and collects their output in a queue that one ReduceThread empties.     *)
(* DIST_SEQUENTIAL gives a buffer to the first free handler; DIST_ALL      *)
(* gives every buffer to all of them and waits until they are idle.        *)
(*                                                                         *)
(* The threads are the pipeline's (processBuffer()), the handlers, the     *)
(* reducer, and the one that starts and stops the pipeline, which waits    *)
(* for the pipeline's thread in between.  A stretch with dlock or with a   *)
(* handler's own lock held is one action.  Numbers are the buffers'        *)
(* streamBufferNo, which sources that do not count leave as they find it   *)
(* in memory.  Left out: the elements behind the handlers (one output for  *)
(* each buffer), and torn accesses to `free' by a stop() without the lock. *)
(***************************************************************************)
EXTENDS Integers, Sequences, FiniteSets, SequencesExt

CONSTANTS
  Handlers,
  MaxBuffers,  \* bound: buffers in a run
  Setups

\* The method, the numbers of the buffers, and what the controller calls.
Setup == [method: {"SEQUENTIAL", "ALL"}, nos: Seq(Int), script: Seq({"start", "stop"})]

ASSUME DistAssumption ==
  /\ IsFiniteSet(Handlers) /\ Handlers # {} /\ MaxBuffers \in Nat
  /\ Setups \subseteq Setup /\ \A s \in Setups : Len(s.nos) <= MaxBuffers

VARIABLES
  setup,   \* the configuration
  at,      \* calls the controller has made
  stopping, \* stop() is under way
  vals,    \* busy.values() as it has read it
  ending,  \* the element's input queue is stopped
  ppc,     \* where the pipeline's thread is
  buf,     \* buffers it was given, the last of them now
  index,   \* its place in `free', with DIST_ALL
  held,    \* the handler it has taken from `free' and that is still busy
  free,    \* handlers, in the order they became free
  busy,    \* QHash: handlers by number of their buffer
  hpc,     \* where each handler is
  flag,    \* DistHandlerThread::busy
  active,
  wsem,    \* permits in each handler's semaphore
  cur,     \* currentBuf, 0 for none
  rpc,     \* the reducer is "off", at its "begin", or running
  exit,    \* its flag exit
  rq,      \* the queue it empties
  done,    \* history: what was worked on, by whom, in order
  out,     \* history: buffers handed downstream
  early    \* history: a buffer was given to a handler whose thread had not begun

ctl == <<at, stopping, vals, ending>>
pipe == <<ppc, buf, index, held>>
hand == <<hpc, flag, active, wsem, cur>>
red == <<rpc, exit, out>>
vars == <<setup, ctl, pipe, free, busy, hand, red, rq, done, early>>

Bufs == 1..Len(setup.nos)
No(b) == setup.nos[b]
Sequential == setup.method = "SEQUENTIAL"
Put(t, k, v) == [x \in DOMAIN t \cup {k} |-> IF x = k THEN v ELSE t[x]]
Drop(t, k) == [x \in DOMAIN t \ {k} |-> t[x]]
Count(h, s) == Cardinality({i \in DOMAIN s : s[i] = h})

\* No constructor sets a handler's flag.
Init ==
  /\ setup \in Setups
  /\ at = 0 /\ stopping = FALSE /\ vals = <<>> /\ ending = FALSE
  /\ ppc = "off" /\ buf = 0 /\ index = 1 /\ held = {}
  /\ free = SetToSeq(Handlers) /\ busy = <<>>
  /\ hpc = [h \in Handlers |-> "off"] /\ flag \in [Handlers -> BOOLEAN]
  /\ active = [h \in Handlers |-> FALSE]
  /\ wsem = [h \in Handlers |-> 0] /\ cur = [h \in Handlers |-> 0]
  /\ rpc = "off" /\ exit = FALSE /\ rq = <<>>
  /\ done = <<>> /\ out = <<>> /\ early = FALSE

-----------------------------------------------------------------------------
(* processBuffer() *)

Arrives ==
  /\ ppc = "idle" /\ ~ending /\ buf < Len(setup.nos)
  /\ buf' = buf + 1 /\ index' = 1
  /\ ppc' = IF Sequential THEN "take" ELSE "give"
  /\ UNCHANGED <<ctl, held, free, busy, hand, red, rq, done, early>>

PipeEnds ==
  /\ ppc = "idle" /\ ending
  /\ ppc' = "off"
  /\ UNCHANGED <<ctl, buf, index, held, free, busy, hand, red, rq, done, early>>

\* process() of a handler that is not busy.
Give(h) ==
  /\ ~flag[h]
  /\ flag' = [flag EXCEPT ![h] = TRUE] /\ cur' = [cur EXCEPT ![h] = buf]
  /\ wsem' = [wsem EXCEPT ![h] = @ + 1]
  /\ early' = (early \/ hpc[h] \in {"off", "begin"})
  /\ UNCHANGED <<ctl, buf, red, rq, done, hpc, active>>

Give1(h) == Give(h) /\ busy' = Put(busy, No(buf), h) /\ ppc' = "idle" /\ UNCHANGED index

TakeFree ==
  /\ ppc = "take" /\ held = {} /\ free # <<>>
  /\ free' = Tail(free)
  /\ \/ Give1(Head(free)) /\ UNCHANGED held
     \/ /\ flag[Head(free)] /\ held' = {Head(free)}
        /\ UNCHANGED <<ctl, ppc, buf, index, busy, hand, red, rq, done, early>>

\* A busy handler stays this thread's; free handlers are not looked at any more.
TakeAgain ==
  /\ ppc = "take"
  /\ \E h \in held : Give1(h)
  /\ held' = {} /\ UNCHANGED free

GiveAll ==
  /\ ppc = "give"
  /\ Give(free[index])
  /\ IF index < Len(free) THEN index' = index + 1 /\ UNCHANGED ppc
     ELSE index' = 1 /\ ppc' = "wait"
  /\ UNCHANGED <<free, busy, held>>

\* Deviation: waits for the first handler only.
WaitFirst ==
  /\ ppc = "wait" /\ ~flag[free[1]]
  /\ ppc' = "idle"
  /\ UNCHANGED <<ctl, buf, index, held, free, busy, hand, red, rq, done, early>>
WaitAll ==
  /\ ppc = "wait" /\ ~flag[free[index]]
  /\ IF index < Len(free) THEN index' = index + 1 /\ UNCHANGED ppc
     ELSE index' = 1 /\ ppc' = "idle"
  /\ UNCHANGED <<ctl, buf, held, free, busy, hand, red, rq, done, early>>

-----------------------------------------------------------------------------
(* DistHandlerThread *)

HandlerGoes(h, from, to) == hpc[h] = from /\ hpc' = [hpc EXCEPT ![h] = to]

Begins(h) ==
  /\ HandlerGoes(h, "begin", "sleep")
  /\ flag' = [flag EXCEPT ![h] = FALSE] /\ active' = [active EXCEPT ![h] = TRUE]
  /\ UNCHANGED <<ctl, pipe, free, busy, wsem, cur, red, rq, done, early>>

Acquire(h, n) ==
  /\ HandlerGoes(h, "sleep", "check")
  /\ wsem' = [wsem EXCEPT ![h] = @ - n]
  /\ UNCHANGED <<ctl, pipe, free, busy, flag, active, cur, red, rq, done, early>>
\* Deviations: does not wait for a permit; leaves the permit there.
WakesAny(h) == Acquire(h, 1)
WakesKeeping(h) == wsem[h] > 0 /\ Acquire(h, 0)
Wakes(h) == wsem[h] > 0 /\ Acquire(h, 1)

Checks(h) ==
  /\ HandlerGoes(h, "check", IF active[h] THEN "work" ELSE "off")
  /\ UNCHANGED <<ctl, pipe, free, busy, flag, active, wsem, cur, red, rq, done, early>>

\* The element refuses an empty buffer; else its output is the reducer's.
Works(h) ==
  /\ HandlerGoes(h, "work", "finish")
  /\ IF cur[h] = 0 THEN UNCHANGED <<rq, done>>
     ELSE rq' = Append(rq, cur[h]) /\ done' = Append(done, [by |-> h, buf |-> cur[h]])
  /\ UNCHANGED <<ctl, pipe, free, busy, flag, active, wsem, cur, red, early>>

\* An empty buffer's number is what was in memory.
Numbers(h) == IF cur[h] = 0 THEN DOMAIN busy \cup {0} ELSE {No(cur[h])}

Finished(h, f) ==
  /\ HandlerGoes(h, "finish", "unmark")
  /\ \/ /\ Sequential
        /\ \E n \in Numbers(h) :
             \/ n \in DOMAIN busy /\ free' = f[busy[n]] /\ busy' = Drop(busy, n)
             \/ n \notin DOMAIN busy /\ UNCHANGED <<free, busy>>
     \/ ~Sequential /\ UNCHANGED <<free, busy>>
  /\ UNCHANGED <<ctl, pipe, flag, active, wsem, cur, red, rq, done, early>>
Freed == [g \in Handlers |-> Append(free, g)]
\* Deviation: does not give the handler back.
FinishesKeeping(h) == Finished(h, [g \in Handlers |-> free])
\* finishBuffer(); "oh shite" for a number that is not in the table.
Finishes(h) == Finished(h, Freed)

Unmark(h, f) ==
  /\ HandlerGoes(h, "unmark", IF active[h] THEN "sleep" ELSE "off")
  /\ flag' = [flag EXCEPT ![h] = f]
  /\ UNCHANGED <<ctl, pipe, free, busy, active, wsem, cur, red, rq, done, early>>
\* Deviation: stays marked.
UnmarksNot(h) == Unmark(h, TRUE)
Unmarks(h) == Unmark(h, FALSE)

Handler(h) == Begins(h) \/ Wakes(h) \/ Checks(h) \/ Works(h) \/ Finishes(h) \/ Unmarks(h)

-----------------------------------------------------------------------------
(* ReduceThread *)

ReducerBegins ==
  /\ rpc = "begin"
  /\ rpc' = "on" /\ exit' = FALSE
  /\ UNCHANGED <<ctl, pipe, free, busy, hand, out, rq, done, early>>

\* stop() is seen after the buffer that wakes it: nobody stops the queue.
Reduces ==
  /\ rpc = "on" /\ rq # <<>>
  /\ rq' = Tail(rq) /\ out' = Append(out, Head(rq))
  /\ rpc' = IF exit THEN "off" ELSE "on"
  /\ UNCHANGED <<ctl, pipe, free, busy, hand, exit, done, early>>

-----------------------------------------------------------------------------
(* The controller *)

Calls(op) == at < Len(setup.script) /\ setup.script[at + 1] = op

\* A thread that still runs is not started again; the pipeline's thread is new.
Start ==
  /\ Calls("start") /\ ppc = "off" /\ ~stopping
  /\ at' = at + 1 /\ ending' = FALSE /\ ppc' = "idle"
  /\ rpc' = IF rpc = "off" THEN "begin" ELSE rpc
  /\ hpc' = [h \in Handlers |-> IF hpc[h] = "off" /\ Count(h, free) > 0 THEN "begin" ELSE hpc[h]]
  /\ UNCHANGED <<stopping, vals, buf, index, held, free, busy, flag, active, wsem, cur, exit, out, rq, done, early>>

\* reducer->stop(), then busy.values() without the lock ...
StopReads ==
  /\ Calls("stop") /\ ~stopping
  /\ stopping' = TRUE /\ exit' = TRUE
  /\ LET nos == SetToSeq(DOMAIN busy) IN vals' = [i \in DOMAIN nos |-> busy[nos[i]]]
  /\ UNCHANGED <<at, ending, pipe, free, busy, hand, rpc, out, rq, done, early>>

StopAll(permits) ==
  /\ stopping /\ stopping' = FALSE /\ vals' = <<>>
  /\ free' = free \o vals
  /\ active' = [h \in Handlers |-> active[h] /\ Count(h, free') = 0]
  /\ wsem' = [h \in Handlers |-> wsem[h] + permits * Count(h, free')]
  /\ ending' = TRUE /\ at' = at + 1
  /\ UNCHANGED <<pipe, busy, hpc, flag, cur, red, rq, done, early>>
\* Deviation: does not wake the handlers.
StopsQuietly == StopAll(0)
\* ... then appends them to the free handlers and stops these; `busy' stays.  The
\* element's own stop() ends the pipeline's thread when it asks for a buffer.
Stops == StopAll(1)

Controller == Start \/ StopReads \/ Stops

-----------------------------------------------------------------------------
Pipe == Arrives \/ PipeEnds \/ TakeFree \/ TakeAgain \/ GiveAll \/ WaitAll
Fixed(A) == A /\ UNCHANGED setup

Next == \/ Fixed(Controller) \/ Fixed(Pipe) \/ \E h \in Handlers : Fixed(Handler(h))
        \/ Fixed(ReducerBegins) \/ Fixed(Reduces)

\* Every thread gets on; a stop() need not come.
Fairness == /\ WF_vars(Fixed(Pipe)) /\ WF_vars(Fixed(Start)) /\ WF_vars(Fixed(Stops))
            /\ \A h \in Handlers : WF_vars(Fixed(Handler(h)))
            /\ WF_vars(Fixed(ReducerBegins \/ Reduces))

Spec == Init /\ [][Next]_vars
FairSpec == Spec /\ Fairness

-----------------------------------------------------------------------------
(* Properties *)

Distinct == \A i, j \in Bufs : No(i) = No(j) => i = j
NeverStopped == \A i \in DOMAIN setup.script : setup.script[i] = "start"
Handed == IF ppc \in {"take", "give"} THEN buf - 1 ELSE buf

\* Every variable stays in the set of values its C++ counterpart can have.
TypeOK ==
  /\ setup \in Setups
  /\ at \in 0..Len(setup.script) /\ vals \in Seq(Handlers)
  /\ {stopping, ending, exit, early} \subseteq BOOLEAN
  /\ ppc \in {"off", "idle", "take", "give", "wait"} /\ buf \in 0..Len(setup.nos)
  /\ index \in Nat \ {0} /\ held \subseteq Handlers
  /\ free \in Seq(Handlers) /\ \A n \in DOMAIN busy : busy[n] \in Handlers
  /\ hpc \in [Handlers -> {"off", "begin", "sleep", "check", "work", "finish", "unmark"}]
  /\ flag \in [Handlers -> BOOLEAN] /\ active \in [Handlers -> BOOLEAN]
  /\ wsem \in [Handlers -> Nat] /\ cur \in [Handlers -> 0..buf]
  /\ rpc \in {"off", "begin", "on"} /\ rq \in Seq(Bufs) /\ out \in Seq(Bufs)

\* A handler that works for nobody is on the free list once, and one that works is
\* in the table once or about to be: the list never runs dry (nor gives a handler
\* two buffers) because one was counted twice or not at all.  A stop() and restart
\* may put one there twice, but none disappears for good.
NoHandlerLost ==
  Distinct => \A h \in Handlers :
    /\ h \in Range(free) \cup held \cup {busy[n] : n \in DOMAIN busy}
    /\ Sequential /\ NeverStopped =>
         Count(h, free) + Cardinality({n \in DOMAIN busy : busy[n] = h})
           + Cardinality(held \cap {h}) = 1

\* The elements do their work as a JobPool: every buffer once, by one of them.
Once == Sequential /\ Distinct /\ NeverStopped
Pool == INSTANCE JobPool WITH
          Jobs <- 1..MaxBuffers, Workers <- Cardinality(Handlers),
          given <- IF Once THEN 1..Handed ELSE {},
          done <- IF Once THEN [i \in DOMAIN done |-> done[i].buf] ELSE <<>>
PoolSpec == Pool!Spec

\* With DIST_ALL processBuffer() returns when every element has worked on the
\* buffer, once and in order, provided that their threads had begun.
AllDone ==
  (~Sequential /\ NeverStopped /\ ~early /\ ppc = "idle") =>
    \A h \in Handlers :
      LET mine == {i \in DOMAIN done : done[i].by = h}
      IN  /\ {done[i].buf : i \in mine} = 1..buf
          /\ \A i, j \in mine : i < j => done[i].buf < done[j].buf

\* processBuffer() returns: a handler becomes free again, or idle, also when the
\* buffers have no numbers and handlers are lost: one is always left.  What an
\* element was given reaches the distributor's output.
Delivered ==
  /\ (NeverStopped /\ ppc \in {"take", "give", "wait"}) ~> (ppc = "idle")
  /\ \A b \in 1..MaxBuffers : (Once /\ b <= Handed) ~> (b \in Range(out))

\* stop() ends every handler it finds on the list or in the table and that runs,
\* whatever the handler is doing.
HandlersEnd ==
  \A h \in Handlers :
    (~active[h] /\ hpc[h] \notin {"off", "begin"}) ~> (active[h] \/ hpc[h] = "off")
=============================================================================
