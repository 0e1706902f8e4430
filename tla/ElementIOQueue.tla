--------------------------- MODULE ElementIOQueue ---------------------------
(***************************************************************************)
(* The queue between two elements: class ElementIOQueue of                 *)
(* lmm/baselmmelement.{h,cpp}.  Producer threads call addBuffer() (single  *)
(* or list form), consumer threads run processBlocking() -> getBuffer() or *)
(* process() -> getBufferNW(), and one controller thread calls start(),    *)
(* stop() and flush() -> clear() in the order Script gives.                *)
(*                                                                         *)
(* A stretch of code that runs with the mutex held is one action, except   *)
(* in clear(): it reads the semaphore and acquires it in two steps while   *)
(* other threads acquire and release it without the mutex.  `clearing' is  *)
(* the mutex while clear() holds it across those steps.                    *)
(*                                                                         *)
(* Left out: statistics (fps, bitrate, receivedCount, sentCount), time     *)
(* stamping, the event hook, and the time the interval limit waits.        *)
(***************************************************************************)
EXTENDS Integers, Sequences, FiniteSets, SequencesExt

CONSTANTS
  Producers,    \* threads that call addBuffer
  Consumers,    \* threads that take buffers
  Setups,       \* the ways a queue is configured and driven
  StopPermits,  \* permits stop() releases: 50 in the code
  Sizes,        \* buffer sizes in bytes, 0 for an empty RawBuffer
  MaxAdds       \* bound: buffers each producer hands over

Modes == {"NONE", "INTERVAL", "COUNT", "TOTAL", "DROP"}
CtlOps == {"flush", "start", "stop", "go", "join"}

\* What is set before the queue is used and stays: rlimit, limitBufferCount,
\* limitTotalSize, bufSizeLimit (0 for no limit), whether setRateReduction()
\* installed a RateReducto; the threads that add, the sizes of their buffers, the
\* longest list they give to addBuffer(list), those that also prepend, and the
\* argument of waitBuffers() (0: nobody calls it); the threads that take, those
\* of them that call getBufferNW() and use no semaphore; and what the
\* controller calls, in order.
Setup == [rlimit: Modes, count: Nat \ {0}, total: Nat, size: Nat, reduce: BOOLEAN,
          adding: SUBSET Producers, sizes: SUBSET Sizes, list: Nat,
          prepending: SUBSET Producers, less: Nat,
          getting: SUBSET Consumers, polling: SUBSET Consumers,
          script: Seq(CtlOps)]

ASSUME SetupAssumption == Setups \subseteq Setup
ASSUME ThreadAssumption == IsFiniteSet(Producers) /\ IsFiniteSet(Consumers)
ASSUME BoundAssumption == /\ StopPermits \in Nat
                          /\ Sizes \subseteq Nat
                          /\ MaxAdds \in Nat

Buffer == [by: Producers, no: 1..MaxAdds, size: Sizes]
Call == [todo: Seq(Buffer), permits: Nat, list: BOOLEAN]
NoCall == [todo |-> <<>>, permits |-> 0, list |-> FALSE]

VARIABLES
  setup,    \* how this queue is configured and driven
  queue,    \* the buffers, oldest first
  bufSize,  \* bytes the code believes are queued
  bufSem,   \* permits available in the semaphore
  state,    \* RunningState of the queue
  clearing, \* TRUE while clear() holds the mutex
  want,     \* the number of permits clear() read and is acquiring
  at,       \* index in Script of the controller's next call
  cpc,      \* where the controller is inside that call
  ppc,      \* where each producer is inside addBuffer
  call,     \* the arguments a producer still has to work off
  sent,     \* number of buffers each producer has created
  gpc,      \* where each consumer is inside getBuffer
  taken     \* history: the buffers taken from the queue, in order

ctlVars == <<clearing, want, at, cpc>>
prodVars == <<ppc, call, sent>>
vars == <<setup, queue, bufSize, bufSem, state, ctlVars, prodVars, gpc, taken>>

RLimit == setup.rlimit
LimitCount == setup.count
LimitTotal == setup.total
SizeLimit == setup.size
Reduce == setup.reduce
MaxList == setup.list
Polling == setup.polling
Script == setup.script

Init ==
  /\ setup \in Setups
  /\ queue = <<>> /\ bufSize = 0 /\ bufSem = 0 /\ state = "INIT"
  /\ clearing = FALSE /\ want = 0 /\ at = 1 /\ cpc = "next"
  /\ ppc = [p \in Producers |-> "idle"]
  /\ call = [p \in Producers |-> NoCall]
  /\ sent = [p \in Producers |-> 0]
  /\ gpc = [c \in Consumers |-> "off"]
  /\ taken = <<>>

-----------------------------------------------------------------------------
(* Producers *)

\* An element hands over one buffer, or a list of them.
CallAdd(p) ==
  /\ p \in setup.adding /\ ppc[p] = "idle"
  /\ \E n \in 1..MaxList, isList \in BOOLEAN :
       /\ n > 1 => isList
       /\ sent[p] + n <= MaxAdds
       /\ \E sz \in [1..n -> setup.sizes] :
            call' = [call EXCEPT ![p] =
                      [todo |-> [i \in 1..n |-> [by |-> p, no |-> sent[p] + i,
                                                 size |-> sz[i]]],
                       permits |-> n, list |-> isList]]
       /\ sent' = [sent EXCEPT ![p] = @ + n]
  /\ ppc' = [ppc EXCEPT ![p] = "enter"]
  /\ UNCHANGED <<queue, bufSize, bufSem, state, ctlVars, gpc, taken>>

\* prependBuffer() knows no limit and releases the permit with the mutex held
\* (an empty buffer would be taken for an empty queue).
Prepend(p) ==
  /\ p \in setup.prepending /\ ppc[p] = "idle" /\ ~clearing
  /\ sent[p] < MaxAdds
  /\ \E sz \in setup.sizes \ {0} :
       /\ queue' = <<[by |-> p, no |-> sent[p] + 1, size |-> sz]>> \o queue
       /\ bufSize' = bufSize + sz
  /\ bufSem' = bufSem + 1
  /\ sent' = [sent EXCEPT ![p] = @ + 1]
  /\ UNCHANGED <<state, ctlVars, ppc, call, gpc, taken>>

\* waitBuffers() of a producer that paces itself: it looks at the state, then
\* with the mutex at the queue, and sleeps on outWc, which nobody ever wakes.
WaitEnter(p) ==
  /\ p \in setup.adding /\ setup.less > 0
  /\ ppc[p] = "idle" /\ state # "STOPPED"
  /\ ppc' = [ppc EXCEPT ![p] = "wait"]
  /\ UNCHANGED <<queue, bufSize, bufSem, state, ctlVars, call, sent, gpc, taken>>

WaitTest(p) ==
  /\ ppc[p] = "wait" /\ ~clearing
  /\ ppc' = [ppc EXCEPT ![p] = IF Len(queue) >= setup.less THEN "asleep" ELSE "idle"]
  /\ UNCHANGED <<queue, bufSize, bufSem, state, ctlVars, call, sent, gpc, taken>>

\* The tail of addBuffer under the mutex, having made the queue q and its size
\* n: the next buffer of the list, or the release.
Handed(p, q, n, permits) ==
  /\ queue' = q /\ bufSize' = n
  /\ call' = [call EXCEPT ![p] = [todo |-> Tail(@.todo), permits |-> permits,
                                  list |-> @.list]]
  /\ ppc' = [ppc EXCEPT ![p] = IF Len(call[p].todo) > 1 THEN "enter" ELSE "release"]

\* Deviation: the buffer goes to the front.
PushFront(p, q) == LET b == Head(call[p].todo) IN
                     Handed(p, <<b>> \o q, bufSize + b.size, call[p].permits)

\* Appends to the queue q that rateLimit() left, unless the rate reducer skips.
Push(p, q) ==
  LET b == Head(call[p].todo) IN
    \/ Handed(p, Append(q, b), bufSize + b.size, call[p].permits)
    \/ Reduce /\ Handed(p, q, bufSize, IF call[p].list THEN call[p].permits ELSE 0)

CheckSizeLimits == SizeLimit = 0 \/ bufSize < SizeLimit

\* What LIMIT_BUFFER_COUNT_DROP leaves of the queue: its newest LimitCount - 1.
Evict(q) == IF Len(q) < LimitCount THEN q
            ELSE SubSeq(q, Len(q) - LimitCount + 2, Len(q))

\* -EINVAL for an empty buffer, -ENOSPC for a full queue; either also leaves
\* addBuffer(list), without releasing any permit.
AddRefused(p) ==
  /\ ppc[p] = "enter"
  /\ \/ Head(call[p].todo).size = 0
     \/ ~clearing /\ ~CheckSizeLimits
  /\ ppc' = [ppc EXCEPT ![p] = "idle"]
  /\ call' = [call EXCEPT ![p] = NoCall]
  /\ UNCHANGED <<queue, bufSize, bufSem, state, ctlVars, sent, gpc, taken>>

\* Lock, size check and rateLimit; the limits that wait give up the mutex (an
\* interval limit does not wait for a buffer without duration).
AddEnter(p) ==
  /\ ppc[p] = "enter" /\ ~clearing
  /\ Head(call[p].todo).size > 0 /\ CheckSizeLimits
  /\ \/ RLimit \in {"NONE", "INTERVAL"} /\ Push(p, queue)
     \/ RLimit = "DROP" /\ Push(p, Evict(queue))
     \/ RLimit = "COUNT" /\ Len(queue) < LimitCount /\ Push(p, queue)
     \/ /\ \/ RLimit = "COUNT" /\ Len(queue) >= LimitCount
           \/ RLimit \in {"TOTAL", "INTERVAL"}
        /\ ppc' = [ppc EXCEPT ![p] = "ratewait"]
        /\ UNCHANGED <<queue, bufSize, call>>
  /\ UNCHANGED <<bufSem, state, ctlVars, sent, gpc, taken>>

\* Deviation: appends after the sleep without looking again.
AddRetryBlind(p) ==
  /\ ppc[p] = "ratewait" /\ RLimit = "COUNT" /\ ~clearing
  /\ Push(p, queue)
  /\ UNCHANGED <<bufSem, state, ctlVars, sent, gpc, taken>>

\* LIMIT_BUFFER_COUNT looks again with the mutex held.
AddRetry(p) ==
  /\ ppc[p] = "ratewait" /\ RLimit = "COUNT" /\ ~clearing
  /\ Len(queue) < LimitCount
  /\ Push(p, queue)
  /\ UNCHANGED <<bufSem, state, ctlVars, sent, gpc, taken>>

\* Deviation: no test of the size.
AddWaitedNot(p) ==
  /\ ppc[p] = "ratewait" /\ RLimit \in {"TOTAL", "INTERVAL"}
  /\ ppc' = [ppc EXCEPT ![p] = "relock"]
  /\ UNCHANGED <<queue, bufSize, bufSem, state, ctlVars, call, sent, gpc, taken>>

\* LIMIT_TOTAL_SIZE reads bufSize, and LIMIT_INTERVAL the clock, without it.
AddWaited(p) ==
  /\ ppc[p] = "ratewait"
  /\ \/ RLimit = "TOTAL" /\ bufSize <= LimitTotal
     \/ RLimit = "INTERVAL"
  /\ ppc' = [ppc EXCEPT ![p] = "relock"]
  /\ UNCHANGED <<queue, bufSize, bufSem, state, ctlVars, call, sent, gpc, taken>>

AddRelock(p) ==
  /\ ppc[p] = "relock" /\ ~clearing
  /\ Push(p, queue)
  /\ UNCHANGED <<bufSem, state, ctlVars, sent, gpc, taken>>

Release(p, n) ==
  /\ ppc[p] = "release"
  /\ bufSem' = bufSem + n
  /\ ppc' = [ppc EXCEPT ![p] = "idle"]
  /\ call' = [call EXCEPT ![p] = NoCall]
  /\ UNCHANGED <<queue, bufSize, state, ctlVars, sent, gpc, taken>>

\* Deviations: a permit too many; one permit for a whole list; none.
AddReleaseTwice(p) == Release(p, call[p].permits + 1)
AddReleaseOne(p) == Release(p, IF call[p].permits > 0 THEN 1 ELSE 0)
AddReleaseNone(p) == Release(p, 0)

\* After the unlock and the EV_ADD notification.
AddRelease(p) == Release(p, call[p].permits)

-----------------------------------------------------------------------------
(* Consumers *)

GoTo(c, l) == gpc' = [gpc EXCEPT ![c] = l]

\* acquireSem() up to the semaphore; a polling consumer skips it.
GetEnter(c) ==
  /\ gpc[c] = "idle"
  /\ GoTo(c, IF c \in Polling THEN "take"
             ELSE IF state = "STOPPED" THEN "quit" ELSE "acquire")
  /\ UNCHANGED <<queue, bufSize, bufSem, state, ctlVars, prodVars, taken>>

\* Deviation: takes a permit that is not there.
GetAcquireAny(c) ==
  /\ gpc[c] = "acquire"
  /\ bufSem' = bufSem - 1
  /\ GoTo(c, "recheck")
  /\ UNCHANGED <<queue, bufSize, state, ctlVars, prodVars, taken>>

GetAcquire(c) == bufSem > 0 /\ GetAcquireAny(c)

\* A permit acquired by a call that finds the queue stopped is not given back.
GetRecheck(c) ==
  /\ gpc[c] = "recheck"
  /\ GoTo(c, IF state = "STOPPED" THEN "quit" ELSE "take")
  /\ UNCHANGED <<queue, bufSize, bufSem, state, ctlVars, prodVars, taken>>

\* getBufferNW(): an empty result ends a blocking consumer's thread, because
\* processBlocking() returns -ENOENT; a polling one calls again.
GetTake(c) ==
  /\ gpc[c] = "take" /\ ~clearing
  /\ \/ /\ queue # <<>>
        /\ queue' = Tail(queue)
        /\ bufSize' = bufSize - Head(queue).size
        /\ taken' = Append(taken, Head(queue))
        /\ GoTo(c, "idle")
     \/ /\ queue = <<>>
        /\ GoTo(c, IF c \in Polling THEN "idle" ELSE "quit")
        /\ UNCHANGED <<queue, bufSize, taken>>
  /\ UNCHANGED <<bufSem, state, ctlVars, prodVars>>

-----------------------------------------------------------------------------
(* The controller *)

CtlCalls(op) == cpc = "next" /\ at <= Len(Script) /\ Script[at] = op
CtlReturns == cpc' = "next" /\ at' = at + 1

CtlStart ==
  /\ CtlCalls("start")
  /\ state' = "STARTED"
  /\ CtlReturns
  /\ UNCHANGED <<queue, bufSize, bufSem, clearing, want, prodVars, gpc, taken>>

\* The pipeline creates and starts the consumers' threads.
CtlGo ==
  /\ CtlCalls("go")
  /\ gpc' = [c \in Consumers |-> IF c \in setup.getting /\ gpc[c] \in {"off", "quit"}
                              THEN "idle" ELSE gpc[c]]
  /\ CtlReturns
  /\ UNCHANGED <<queue, bufSize, bufSem, state, clearing, want, prodVars, taken>>

\* LmmThread::wait() on every consumer.
CtlJoin ==
  /\ CtlCalls("join")
  /\ \A c \in Consumers : gpc[c] \in {"off", "quit"}
  /\ CtlReturns
  /\ UNCHANGED <<queue, bufSize, bufSem, state, clearing, want, prodVars, gpc, taken>>

CtlStop ==
  /\ CtlCalls("stop")
  /\ state' = "STOPPED"
  /\ cpc' = "clear"
  /\ UNCHANGED <<queue, bufSize, bufSem, clearing, want, at, prodVars, gpc, taken>>

\* clear(): lock, then read available() ...
CtlClearRead ==
  /\ CtlCalls("flush") \/ cpc = "clear"
  /\ ~clearing
  /\ clearing' = TRUE
  /\ want' = bufSem
  /\ cpc' = "acquire"
  /\ UNCHANGED <<queue, bufSize, bufSem, state, at, prodVars, gpc, taken>>

\* ... then acquire that many, which waits when a consumer was faster.
CtlClearAcquire ==
  /\ cpc = "acquire" /\ bufSem >= want
  /\ bufSem' = bufSem - want
  /\ queue' = <<>> /\ bufSize' = 0
  /\ clearing' = FALSE
  /\ want' = 0
  /\ IF Script[at] = "flush" THEN CtlReturns ELSE cpc' = "release" /\ UNCHANGED at
  /\ UNCHANGED <<state, prodVars, gpc, taken>>

WakeUp(n) ==
  /\ cpc = "release"
  /\ bufSem' = bufSem + n
  /\ CtlReturns
  /\ UNCHANGED <<queue, bufSize, state, clearing, want, prodVars, gpc, taken>>

\* Deviation: wakes a single sleeper.
CtlStopReleaseOne == WakeUp(1)

CtlStopRelease == WakeUp(StopPermits)

Controller == /\ UNCHANGED setup
              /\ \/ CtlStart \/ CtlGo \/ CtlJoin \/ CtlStop
                 \/ CtlClearRead \/ CtlClearAcquire \/ CtlStopRelease

-----------------------------------------------------------------------------
CallQueue(p) == /\ UNCHANGED setup
                /\ CallAdd(p) \/ Prepend(p) \/ WaitEnter(p)
AddBuffer(p) == /\ UNCHANGED setup
                /\ \/ AddRefused(p) \/ AddEnter(p) \/ AddRetry(p) \/ AddWaited(p)
                   \/ AddRelock(p) \/ AddRelease(p) \/ WaitTest(p)
GetBuffer(c) == /\ UNCHANGED setup
                /\ GetEnter(c) \/ GetAcquire(c) \/ GetRecheck(c) \/ GetTake(c)

Next == \/ Controller
        \/ \E p \in Producers : CallQueue(p)
        \/ \E p \in Producers : AddBuffer(p)
        \/ \E c \in Consumers : GetBuffer(c)

\* A thread that can go on does, because the scheduler runs all of them; no
\* producer need ever make a call.  Weak fairness is enough: nobody is promised
\* the mutex, the semaphore or a free place while others keep taking them.
Fairness == /\ WF_vars(Controller)
            /\ \A p \in Producers : WF_vars(AddBuffer(p))
            /\ \A c \in Consumers : WF_vars(GetBuffer(c))

Spec == Init /\ [][Next]_vars
FairSpec == Spec /\ Fairness

-----------------------------------------------------------------------------
(* Properties *)

Bytes(q) == FoldLeft(LAMBDA n, b : n + b.size, 0, q)

\* Permits taken by consumers that have not reached the queue yet.
Held == Cardinality({c \in Consumers \ Polling : gpc[c] \in {"recheck", "take"}})

\* Permits addBuffer() will release for buffers it has already queued.
Pending == MapThenSumSet(LAMBDA p : call[p].permits - Len(call[p].todo), Producers)

NeverCleared == \A i \in DOMAIN Script : Script[i] \notin {"flush", "stop"}

\* Every variable stays in the set of values its C++ counterpart can have.
TypeOK ==
  /\ setup \in Setups
  /\ queue \in Seq(Buffer) /\ bufSize \in Int /\ bufSem \in Nat
  /\ state \in {"INIT", "STARTED", "STOPPED"}
  /\ clearing \in BOOLEAN /\ want \in Nat
  /\ at \in 1..(Len(Script) + 1) /\ cpc \in {"next", "clear", "acquire", "release"}
  /\ ppc \in [Producers -> {"idle", "enter", "ratewait", "relock", "release",
                          "wait", "asleep"}]
  /\ call \in [Producers -> Call]
  /\ sent \in [Producers -> 0..MaxAdds]
  /\ gpc \in [Consumers -> {"off", "idle", "acquire", "recheck", "take", "quit"}]
  /\ taken \in Seq(Buffer)

\* With a buffer count limit the queue never holds more than that many buffers,
\* however many producers slept in rateLimit() without the mutex and came back
\* (prependBuffer() knows no limits).
CountBound == RLimit \in {"COUNT", "DROP"} /\ setup.prepending = {}
                => Len(queue) <= LimitCount

\* No buffer of a running queue is stranded: each is covered by a permit that is
\* available, held by a consumer on its way, or about to be released.
NoStranded == state = "STARTED" => Len(queue) <= bufSem + Held + Pending

\* While nobody clears the queue, getBuffer() of a queue that is not stopped does
\* not come back empty: a permit stands for a buffer (an empty result ends the
\* consuming thread).
EmptyOnlyWhenStopped ==
  [][NeverCleared => \A c \in Consumers \ Polling :
       gpc[c] = "take" /\ gpc'[c] = "quit" => state = "STOPPED"]_vars

\* getTotalSize() is the number of queued bytes.  Dropping buffers in rateLimit()
\* does not subtract their size, so there it is only an upper bound.
SizeAccounting == /\ bufSize >= Bytes(queue)
                  /\ RLimit # "DROP" => bufSize = Bytes(queue)

\* The total size limit is tested without the mutex: all producers may pass the
\* test on the same size, and each of them then adds one buffer, but no more; and
\* the size is that of the queued bytes.
TotalBound ==
  /\ SizeAccounting
  /\ RLimit = "TOTAL" /\ setup.prepending = {} =>
       \A m \in Sizes : (\A s \in Sizes : s <= m) =>
         bufSize <= LimitTotal + m * Cardinality(Producers)

\* stop() wakes the threads sleeping in getBuffer(): once it has released its
\* permits every consuming thread comes to its end (or is started again).
StopWakes ==
  \A c \in Consumers :
    (c \notin Polling /\ cpc = "release") ~> (state # "STOPPED" \/ gpc[c] \in {"off", "quit"})

\* While nobody clears the queue every queued buffer is taken.
Delivered ==
  \A p \in Producers, n \in 1..MaxAdds :
    (NeverCleared /\ \E i \in DOMAIN queue : queue[i].by = p /\ queue[i].no = n) ~>
      (\E i \in DOMAIN taken : taken[i].by = p /\ taken[i].no = n)

\* clear(), called by flush() and stop(), returns.
ClearReturns == (cpc = "acquire") ~> (cpc # "acquire")

\* The queue is a MediaFifo: buffers leave in their producer's order, once each,
\* but for those a producer that prepends put in front.
Fifo == INSTANCE MediaFifo WITH
          fifo <- queue, delivered <- taken, prepending <- setup.prepending,
          handed <- [p \in Producers |-> sent[p] - Len(call[p].todo)]
FifoSpec == Fifo!Spec

=============================================================================
