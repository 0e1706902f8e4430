--------------------------- MODULE BaseLmmPipeline ---------------------------
(***************************************************************************)
(* A pipeline's life: BaseLmmPipeline::start() and stop(), the threads     *)
(* they make (LmmThread::run() around BaseLmmElement::processBlocking()),  *)
(* threadFinished(), and PipelineManager, whose own thread reads the       *)
(* pipeline's output.  Files lmm/baselmmpipeline.cpp, lmm/lmmthread.cpp,   *)
(* lmm/baselmmelement.cpp and lmm/pipeline/pipelinemanager.cpp.            *)
(*                                                                         *)
(* Element i reads queue i-1 and writes queue i; element 1 is a source,    *)
(* which looks at its state itself, and the manager reads queue N.  A      *)
(* queue is reduced to its state and its buffers, of which only the start  *)
(* of the pipeline they were made after matters; module ElementIOQueue     *)
(* has its mutex and semaphore.                                            *)
(***************************************************************************)
EXTENDS Integers, Sequences, FiniteSets

CONSTANTS
  N,          \* elements of the pipeline
  QuitOnThreadError,
  Script,     \* what the manager is told: "start" and "stop"
  MayFail,    \* elements whose start() and processBuffer() may return an error
  Joins,      \* TRUE when the next call waits until the threads have ended
  MaxQueue    \* bound: buffers in a queue

ASSUME PipelineAssumption ==
  /\ N \in Nat \ {0} /\ MaxQueue \in Nat \ {0}
  /\ QuitOnThreadError \in BOOLEAN /\ Joins \in BOOLEAN
  /\ Script \in Seq({"start", "stop"})
  /\ MayFail \subseteq 1..N

Elements == 1..N
Queues == 0..N
Sessions == 1..Len(Script)     \* a session is the index of its start in Script

VARIABLES
  el,         \* RunningState of each element
  qstate,     \* RunningState of each queue
  queue,      \* the sessions of the buffers in each queue
  state,      \* RunningState of the pipeline
  threads,    \* the elements that have a thread in `threads'
  th,         \* where each element's thread is
  exit,       \* the thread's exit flag
  hand,       \* session of the buffer the thread is working on
  finished,   \* finishedThreadCount
  emitted,    \* TRUE after playbackFinished of this session
  session,    \* index in Script of the last start
  dead,       \* "no", "quit" after exit(233), "crash" after a fatal error
  quitting,   \* the manager's flag
  reader,     \* the manager's thread of each session
  at, cpc, ci \* the manager's caller: call, place in it, element

ctl == <<at, cpc, ci>>
thVars == <<th, exit, hand>>
vars == <<el, qstate, queue, state, threads, thVars, finished, emitted, session,
          dead, quitting, reader, ctl>>

Init ==
  /\ el = [i \in Elements |-> "INIT"]
  /\ qstate = [q \in Queues |-> "STARTED"]     \* createQueues starts them
  /\ queue = [q \in Queues |-> <<>>]
  /\ state = "INIT" /\ threads = {}
  /\ th = [i \in Elements |-> "none"]
  /\ exit = [i \in Elements |-> FALSE]
  /\ hand = [i \in Elements |-> 0]
  /\ finished = 0 /\ emitted = FALSE /\ dead = "no" /\ quitting = FALSE
  /\ session = 0
  /\ reader = [s \in Sessions |-> "none"]
  /\ at = 1 /\ cpc = "next" /\ ci = 1

Alive == dead = "no"
Ended(i) == th[i] \in {"none", "done"}
-----------------------------------------------------------------------------
(* start *)

Calls(op) ==
  /\ Alive /\ cpc = "next" /\ at <= Len(Script) /\ Script[at] = op
  /\ Joins => \A i \in Elements : Ended(i)

\* finishedThreadCount after start().  Deviation: it goes on counting.
CountKept == finished
CountReset == 0

\* Deletes the threads of the last session: deleting a QThread that still runs
\* is fatal.
CallStart ==
  /\ Calls("start")
  /\ dead' = IF \A i \in threads : Ended(i) THEN "no" ELSE "crash"
  /\ threads' = {} /\ finished' = CountReset /\ emitted' = FALSE /\ quitting' = FALSE
  /\ cpc' = "flush" /\ ci' = 1 /\ session' = at
  /\ UNCHANGED <<el, qstate, queue, state, thVars, reader, at>>

\* Deviation: the output queue is left as it is.
StartFlushInput ==
  /\ Alive /\ cpc = "flush" /\ cpc' = "start"
  /\ queue' = [queue EXCEPT ![ci - 1] = <<>>]
  /\ UNCHANGED <<el, qstate, state, threads, thVars, finished, emitted, session, dead,
                 quitting, reader, at, ci>>

StartFlush ==
  /\ Alive /\ cpc = "flush" /\ cpc' = "start"
  /\ queue' = [queue EXCEPT ![ci - 1] = <<>>, ![ci] = <<>>]
  /\ UNCHANGED <<el, qstate, state, threads, thVars, finished, emitted, session, dead,
                 quitting, reader, at, ci>>

\* The element's start(), or its error: the pipeline's start() returns and
\* leaves the elements and threads before it running.
StartElement ==
  /\ Alive /\ cpc = "start"
  /\ \/ /\ cpc' = "thread" /\ UNCHANGED at
        /\ el' = [el EXCEPT ![ci] = "STARTED"]
        /\ qstate' = [qstate EXCEPT ![ci - 1] = "STARTED", ![ci] = "STARTED"]
     \/ /\ ci \in MayFail /\ cpc' = "next" /\ at' = at + 1
        /\ UNCHANGED <<el, qstate>>
  /\ UNCHANGED <<queue, state, threads, thVars, finished, emitted, session, dead, quitting, reader, ci>>

StartThread ==
  /\ Alive /\ cpc = "thread"
  /\ threads' = threads \cup {ci}
  /\ th' = [th EXCEPT ![ci] = "created"]
  /\ cpc' = IF ci = N THEN "started" ELSE "flush"
  /\ ci' = IF ci = N THEN 1 ELSE ci + 1
  /\ UNCHANGED <<el, qstate, queue, state, exit, hand, finished, emitted, session, dead,
                 quitting, reader, at>>

\* BaseLmmElement::start() of the pipeline, and the manager's thread.
StartReader ==
  /\ Alive /\ cpc = "started" /\ cpc' = "next" /\ at' = at + 1
  /\ state' = "STARTED" /\ qstate' = [qstate EXCEPT ![N] = "STARTED"]
  /\ reader' = [reader EXCEPT ![at] = "loop"]
  /\ UNCHANGED <<el, queue, threads, thVars, finished, emitted, session, dead, quitting, ci>>

-----------------------------------------------------------------------------
(* stop *)

CallStop ==
  /\ Alive /\ cpc = "next" /\ at <= Len(Script) /\ Script[at] = "stop"
  /\ quitting' = TRUE /\ cpc' = "stop" /\ ci' = 1
  /\ UNCHANGED <<el, qstate, queue, state, threads, thVars, finished, emitted,
                 session, dead, reader, at>>

\* prepareStop() of the element, which stops and clears the queues around it.
\* Deviation: only the queue it reads is stopped.
StopQueuesInput == /\ qstate' = [qstate EXCEPT ![ci - 1] = "STOPPED"]
                   /\ queue' = [queue EXCEPT ![ci - 1] = <<>>]
StopQueues == /\ qstate' = [qstate EXCEPT ![ci - 1] = "STOPPED", ![ci] = "STOPPED"]
              /\ queue' = [queue EXCEPT ![ci - 1] = <<>>, ![ci] = <<>>]

StopElement ==
  /\ Alive /\ cpc = "stop"
  /\ el' = [el EXCEPT ![ci] = "STOPPED"]
  /\ IF el[ci] = "STOPPED" THEN UNCHANGED <<qstate, queue>> ELSE StopQueues
  /\ cpc' = IF ci = N THEN "exit" ELSE "stop"
  /\ ci' = IF ci = N THEN 1 ELSE ci + 1
  /\ UNCHANGED <<state, threads, thVars, finished, emitted, session, dead, quitting, reader, at>>

\* LmmThread::stop() of every thread, then BaseLmmElement::stop() of the
\* pipeline, which stops its output queue too.
StopThreads ==
  /\ Alive /\ cpc = "exit" /\ cpc' = "wait"
  /\ exit' = [i \in Elements |-> IF i \in threads THEN TRUE ELSE exit[i]]
  /\ state' = "STOPPED"
  /\ IF state = "STOPPED" THEN UNCHANGED <<qstate, queue>>
     ELSE /\ qstate' = [qstate EXCEPT ![N] = "STOPPED"]
          /\ queue' = [queue EXCEPT ![N] = <<>>]
  /\ UNCHANGED <<el, threads, th, hand, finished, emitted, session, dead, quitting, reader, at, ci>>

\* waitForFinished(100) ends when the count is right or its time is over.
StopWait ==
  /\ Alive /\ cpc = "wait" /\ cpc' = "next" /\ at' = at + 1
  /\ UNCHANGED <<el, qstate, queue, state, threads, thVars, finished, emitted,
                 session, dead, quitting, reader, ci>>

-----------------------------------------------------------------------------
(* An element's thread: LmmThread::run() *)

GoTo(i, l) == th' = [th EXCEPT ![i] = l]
ThreadOnly == UNCHANGED <<el, qstate, state, threads, session, dead, quitting, reader, ctl>>

\* run() clears the flag: a stop() that came before is forgotten.
Begin(i) ==
  /\ Alive /\ th[i] = "created" /\ GoTo(i, "loop")
  /\ exit' = [exit EXCEPT ![i] = FALSE]
  /\ ThreadOnly /\ UNCHANGED <<queue, hand, finished, emitted>>

Loop(i) ==
  /\ Alive /\ th[i] = "loop" /\ GoTo(i, IF exit[i] THEN "ending" ELSE "op")
  /\ ThreadOnly /\ UNCHANGED <<queue, exit, hand, finished, emitted>>

\* processBlocking() of the source, which makes a buffer unless it is stopped,
\* and of an element that reads a queue and sleeps while it is empty.
Ready(i) == IF i = 1 THEN el[1] # "STOPPED" ELSE queue[i - 1] # <<>>
\* Deviation: only the source sees that it was stopped.
StoppedSourceOnly(i) == i = 1 /\ el[1] = "STOPPED"
Stopped(i) == IF i = 1 THEN el[1] = "STOPPED" ELSE qstate[i - 1] = "STOPPED"

Take(i) ==
  /\ Alive /\ th[i] = "op"
  /\ IF Stopped(i)
       THEN GoTo(i, "ending") /\ UNCHANGED <<queue, hand>>
       ELSE /\ Ready(i) /\ GoTo(i, "got")
            /\ hand' = [hand EXCEPT ![i] = IF i = 1 THEN session ELSE Head(queue[i - 1])]
            /\ queue' = IF i = 1 THEN queue ELSE [queue EXCEPT ![i - 1] = Tail(@)]
  /\ ThreadOnly /\ UNCHANGED <<exit, finished, emitted>>

\* processBuffer() and newOutputBuffer(): addBuffer() does not look at the
\* queue's state.  The element may also return an error.
Put(i) ==
  /\ Alive /\ th[i] = "got"
  /\ \/ /\ Len(queue[i]) < MaxQueue
        /\ queue' = [queue EXCEPT ![i] = Append(@, hand[i])]
        /\ GoTo(i, "loop")
     \/ i \in MayFail /\ GoTo(i, "ending") /\ UNCHANGED queue
  /\ hand' = [hand EXCEPT ![i] = 0]
  /\ ThreadOnly /\ UNCHANGED <<exit, finished, emitted>>

\* threadFinished(): counts with thLock.
Count(i) ==
  /\ Alive /\ th[i] = "ending" /\ GoTo(i, "counted")
  /\ finished' = finished + 1
  /\ ThreadOnly /\ UNCHANGED <<queue, exit, hand, emitted>>

\* What is compared without the lock.
\* Deviation: one too early.
AllCountedEarly == finished + 1 >= Cardinality(threads)
AllCounted == finished = Cardinality(threads)

\* Compares, and quits the process when told to; then run() returns.
Finish(i) ==
  /\ Alive /\ th[i] = "counted" /\ GoTo(i, "done")
  /\ emitted' = (emitted \/ AllCounted)
  /\ dead' = IF QuitOnThreadError THEN "quit" ELSE dead
  /\ UNCHANGED <<el, qstate, state, threads, session, quitting, reader, ctl,
                 queue, exit, hand, finished>>

\* PipelineManager::pipelineThread(): an empty buffer does not end it.
Read(s) ==
  /\ Alive /\ reader[s] = "loop"
  /\ IF quitting
       THEN reader' = [reader EXCEPT ![s] = "done"] /\ UNCHANGED queue
       ELSE \/ qstate[N] = "STOPPED" /\ UNCHANGED <<reader, queue>>
            \/ /\ qstate[N] # "STOPPED" /\ queue[N] # <<>>
               /\ queue' = [queue EXCEPT ![N] = Tail(@)] /\ UNCHANGED reader
  /\ UNCHANGED <<el, qstate, state, threads, thVars, finished, emitted, session,
                 dead, quitting, ctl>>

-----------------------------------------------------------------------------
Thread(i) == Begin(i) \/ Loop(i) \/ Take(i) \/ Put(i) \/ Count(i) \/ Finish(i)
Start == StartFlush \/ StartElement \/ StartThread \/ StartReader
Stop == StopElement \/ StopThreads \/ StopWait

Next == \/ CallStart \/ Start \/ CallStop \/ Stop
        \/ \E i \in Elements : Thread(i)
        \/ \E s \in Sessions : Read(s)

Spec == Init /\ [][Next]_vars

\* Every thread that can go on does, and so does a call once it is made.
FairSpec == /\ Spec
            /\ \A i \in Elements : WF_vars(Thread(i))
            /\ \A s \in Sessions : WF_vars(Read(s))
            /\ WF_vars(Start) /\ WF_vars(Stop)

-----------------------------------------------------------------------------
States == {"INIT", "STARTED", "STOPPED"}

\* Every variable has its type.
TypeOK ==
  /\ el \in [Elements -> States] /\ qstate \in [Queues -> States] /\ state \in States
  /\ queue \in [Queues -> Seq(Sessions)] /\ \A q \in Queues : Len(queue[q]) <= MaxQueue
  /\ threads \subseteq Elements
  /\ th \in [Elements -> {"none", "created", "loop", "op", "got", "ending", "counted", "done"}]
  /\ exit \in [Elements -> BOOLEAN] /\ hand \in [Elements -> Sessions \cup {0}]
  /\ finished \in 0..N /\ emitted \in BOOLEAN /\ session \in Sessions \cup {0}
  /\ dead \in {"no", "quit", "crash"} /\ quitting \in BOOLEAN
  /\ reader \in [Sessions -> {"none", "loop", "done"}]
  /\ at \in 1..Len(Script) + 1 /\ ci \in Elements
  /\ cpc \in {"next", "flush", "start", "thread", "started", "stop", "exit", "wait"}

\* After stop() no element and no queue runs, also when start() had failed half
\* way and the states differ from element to element: prepareStop() skips a
\* stopped element, whose queues its neighbours may have started (498-510).
StopSettles ==
  cpc = "wait" => /\ \A i \in Elements : el[i] = "STOPPED"
                  /\ \A q \in Queues : qstate[q] = "STOPPED"

\* A queue that runs holds buffers of this start only, although threads may put
\* a buffer in a queue that was stopped and cleared: start() flushes each queue
\* before the first element that starts it (baselmmpipeline.cpp 65-74).
FreshQueues ==
  \A q \in Queues : qstate[q] = "STARTED" => \A k \in 1..Len(queue[q]) : queue[q][k] = session

\* playbackFinished is emitted when the last thread has counted itself, however
\* the counts and the unlocked comparisons of the threads interleave (262-269),
\* and never while a thread of the pipeline still works.
EmittedAtEnd ==
  /\ [](threads # {} /\ (\A i \in threads : th[i] = "done") => emitted)
  /\ [][~emitted /\ emitted' => \A i \in threads : th[i] \in {"counted", "done"}]_vars

\* Every thread ends after stop(), although run() may forget the flag that
\* LmmThread::stop() set before it began (lmmthread.cpp 25-28, 57), and the
\* manager's threads after the last stop(), also the one a quick restart kept
\* alive (pipelinemanager.cpp 286-287).
ThreadsEnd ==
  /\ cpc = "wait" ~> \A i \in Elements : Ended(i)
  /\ (at > Len(Script) /\ quitting) ~> \A s \in Sessions : reader[s] # "loop"
=============================================================================
