# Verification of the LMM library

LMM ("Linux MultiMedia", `src/lmm`) is a Qt library of media elements: sources, decoders,
scalers, encoders, packetizers and outputs that are connected by queues into pipelines and
players, each element run by a thread of its own, with an RTP/RTSP stack on top. This directory
holds TLA+ models of its platform independent core, TLC configurations that check them on small
instances, and proofs checked by TLAPS. `PROJECT.json` lists the runs, the lines each definition
stands for, the mutants that show what each property is sensitive to, and the hazards.

## 1. The system's parts

Modelled:

| component | source (`src/lmm/`) | state | operations |
|---|---|---|---|
| ElementIOQueue | `baselmmelement.{h,cpp}` | buffer list, byte count, mutex, counting semaphore, running state, rate limit | `addBuffer` (one buffer, a list), `prependBuffer`, `getBuffer`, `getBufferNW`, `waitBuffers`, `clear`, `start`, `stop` |
| LmmBufferPool | `lmmbufferpool.{h,cpp}`, with its users `videoscaler.cpp`, `ffmpeg/ffmpegcolorspace.cpp`, `ffmpeg/ffmpegdecoder.cpp`, `genericvideotestsource.cpp` | free list, used map, mutex, wait condition, `finalized` | `addBuffer`, `take`, `give` (by index, by buffer), `finalize`; `aboutToDeleteBuffer` of the elements |
| pipeline life | `baselmmpipeline.cpp`, `lmmthread.cpp`, `baselmmelement.cpp`, `pipeline/pipelinemanager.cpp` | running state of elements, queues and pipeline, threads, finished count, `quitting` | `start`, `stop`, `run`, `processBlocking`, `threadFinished`, the manager's reader thread |
| RTSP server | `rtsp/basertspserver.{h,cpp}`, `rtp/rtptransmitter.{h,cpp}` (its channels) | sessions, siblings, client counts, channels, AVP mappings, the session file | SETUP, PLAY, TEARDOWN, GET/SET_PARAMETER, `setEnabled`, RTCP and RTSP time-outs, disconnects, `saveSessions`, `loadSessions` |
| RTP link | `rtp/rtptransmitter.cpp` (H.264), `rtp/rtpreceiver.cpp` | sequence numbers, packets that wait, the NAL unit put together so far | `processBuffer`, `sendNalUnit`, `start`/`stop`, `processRtpData`, `processh264Payload` |
| traffic shaping | `tools/tokenbucket.{h,cpp}` | tokens, the clock they were last counted at, whether the sender sleeps | `get`, `checkTime`, `releaseLeakyTokens`, `setPars`, `setParsLeaky` |
| RTSP client | `rtsp/rtspclient.{h,cpp}` | state of the connection, sessions set up and played, receivers, requests under way | the timer's `timeout`, `aSyncDataReady`, `aSyncConnected`, `aSyncDisConnected`, `playASync`, `teardownASync` |
| JobDistributorElement | `jobdistributorelement.{h,cpp}` | free handlers, table of busy ones, each handler's lock, semaphore and flags, the reducer's queue | `processBuffer` (sequential, all), `start`, `stop`, `finishBuffer`, the handler and reducer threads |

How they interact. `BaseLmmPipeline::createQueues()` puts an `ElementIOQueue` between each two
elements. An element's thread (`LmmThread`) loops over `processBlocking()`, which takes a buffer
from the input queue, works on it - with memory from an `LmmBufferPool` - and adds the result to
the output queue. Buffers are reference counted; when the last reference of an output buffer goes,
in whatever thread that is, its destructor calls `aboutToDeleteBuffer()` of the element that made
it, which gives the memory back to the pool. `stop()` of an element stops and flushes its queues,
and this is how a thread that sleeps in a queue learns that it has to end. `PipelineManager` reads the last
queue with a thread of its own. The RTSP server lives in the event loop; it makes channels in the
`RtpTransmitter` elements of a pipeline and switches them on and off. An `RtpReceiver` is a source
element whose thread reads packets from a socket and adds frames to its own queue.

`RtspClient` speaks to any RTSP server, with one asynchronous socket, and starts and stops the `RtpReceiver` of each
track. The `JobDistributorElement` stands in a pipeline as one element and runs several others, each in
a thread of its own; a reducer thread collects their output.

Not modelled (the same list, with sources, is in `PROJECT.json`):

* Of the modelled parts: the wiring of a pipeline (`createQueues`, `append`, `insert`) and its watchdog; RTCP, PCM, JPEG
  and metadata in RTP, which have no state that outlives a packet; answers the RTSP client receives in two
  pieces, and its blocking calls, which use sockets of their own and have no caller; in the
  server, ports, addresses and the text of requests.
* `BufferSyncer` (no program makes one), `CircularBuffer` (its only user is the DMAI decoder of one board), `BufferQueue` (a delay
  line with every access under one mutex), `BasePlayer` and `SimpleVideoPlayer` (what they do to queues is the
  script `ScriptPlayer` of `eioq`). `V4l2Input` and `PipelineDebugger` (with its UDP server) have
  control of their own and are the next candidates (section 8).
* The rest of `BaseLmmElement` (statistics, parameters, event hooks), `RawBuffer` and `LmmCommon`:
  bookkeeping without control of its own.
* RTP (de)packetizer elements other than the above and SRTP: a function of one packet around a library.
* Sources, codecs, FFmpeg, GStreamer, ALSA and platform (TI DM36x, DM81xx, Tegra) code: calls of a
  driver or library in a row, whose behaviour is not in the repository. `streamtime`, outputs, metrics, tools,
  applications and tests.
* Vendored and generated text: the OpenGL and NVIDIA headers (`tx1/nvidia`), `dm365_ipstr/miniz.c`, `neon/libyuv.c`,
  the protobuf files (`pipeline.pb.cc`). Together with the tables and box writers of
  `mpegdashserver.cpp` and the platform code they are most of the repository's lines, so that the modelled
  share of all lines stays small whatever is added from the core.

What is hard in this code: two threads per queue besides whoever stops the pipeline; a
semaphore that is used partly inside and partly outside the mutex that guards the list it counts;
`stop()`, which wakes sleepers by releasing 50 permits that stand for no buffer; limits read
before the mutex is taken; destructors that call back into a locked pool; restarts; sessions
with several owners and five ways to end; packets that are lost, overtake or roll over; a sender that sleeps with a
lock held; requests, answers and timer ticks that cross; threads that mark themselves free before they are idle.
The 40 entries of `hazards` in `PROJECT.json` give the lines.

## 2. Modules

Conventions. A stretch of code with its mutex held, or one callback of the event loop, is one
action; a place where another thread can come in between is a value of a program counter. What a
component is configured with and does not change is a record in the variable `setup`, chosen in `Init` from the
constant `Setups` and never changed: a run checks many configurations at once, and the theorems
hold for every one. `MC*` modules only name such setups. Variables have the source's names where
it has one.

| module | models | state and actions |
|---|---|---|
| `ElementIOQueue` | the queue | `queue`, `bufSize`, `bufSem`, `state`; `ppc`, `gpc`, `cpc` say where producers are in `addBuffer`, `prependBuffer` or `waitBuffers`, consumers in `getBuffer`, and the controller in its call. `clear()` is two actions, because it reads the semaphore and acquires in two steps that others may enter |
| `MediaFifo` | what a queue promises | buffers come out once and in order, or are flushed or dropped, and only a producer in `prepending` may put one in front; `ElementIOQueue!FifoSpec` is this module under a refinement mapping |
| `LmmBufferPool` | the pool and the elements around it | `free`, `used`, `finalized`; a taker's steps through `processBuffer`, downstream's `give`, the controller's `finalize`. `stuck` says that `finalize()` waits for the mutex it holds |
| `BaseLmmPipeline` | start, stop, threads | element, queue and pipeline states, `threads`, `finished`; one action per loop iteration stage of a thread and per statement of `start`/`stop` that others can observe. Queues are reduced to a state and the session their buffers were made in |
| `BaseRtspServer` | sessions | one action per request, timer or signal, and `Die`, `Save`, `Load` of the process; `siblings`, `count`, `keep`, `channel`, `avp`; `saved` is the session file. A session makes one channel per medium when it is set up, so both have one name |
| `TokenBucket` | the shaper and its clock | operators over `left`, `since`, `sleeping`: `Get`, `Sleep`, `Elapse`. `exact` and `window` are history: what a bucket with an exact clock would hold, and what a window was given |
| `RtpLink` | sender, network, receiver | extends `TokenBucket`. `Send` makes the packets of a buffer, `SendPacket` lets one go when `Get` does, `Throttle` sleeps; `Time`; `Play`; `Lose`; `Receive`, `Stop`, `Miss`, `Start`; `net` is a sequence from which packets are taken up to `reorder` places out of order; `units`, `hit` and `cut` are history: the NAL units sent, and those that lost a packet, or their last one |
| `RtspClient` | the client, and any server | one action per slot: `Tick`, `Read`, `Connected`, `ConnectFails`, `Lose`, `PlayASync`, `TeardownASync`; `Serve` and `Pass` are the server and its clock; `wire` and `back` hold requests and answers |
| `JobPool` | what a distributor promises | jobs are given while a worker is free, and each is done once |
| `JobDistributorElement` | the distributor's threads | `free`, `busy`, `held`; `ppc`, `hpc`, `rpc` say where the pipeline's thread, each handler and the reducer are; `PoolSpec` is `JobPool` under a refinement mapping |

`ElementIOQueue_proofs`, `LmmBufferPool_proofs`, `BaseLmmPipeline_proofs`, `BaseRtspServer_proofs`, `RtpLink_proofs`
(with the bucket), `RtspClient_proofs` and `JobDistributorElement_proofs` hold the theorems; `FoldTheorems` has what several need of the
community modules' folds: induction on the size of a set, that a sum does not depend on the order in which
`MapThenSumSet` takes its elements, that `FoldLeft` takes one element after the other, and what `SetToSeq` has.

`RtpLink` composes the bucket with the transmitter. The other models are separate: each takes from its neighbours only what it needs. `BaseLmmPipeline`
uses what `ElementIOQueue` guarantees (a stopped queue wakes its consumers, buffers stay in order)
with a queue reduced accordingly; `BaseRtspServer` and `RtpLink` meet in the channel's state
(0 none, 1 set up, 2 playing), which is `channel` in one and `playing` in the other; `RtspClient` has a server of
its own, reduced to what every RTSP server does, because the client is used with cameras of other makes.

## 3. Runs and what they show

| run | instance | shows |
|---|---|---|
| `eioq` | 2 producers, 1 or 2 consumers, 2 buffers each, 6 setups: count limit; interval limit with lists; a producer that prepends and one that waits for room; a player's flush-start-stop-join-restart; byte limit with a polling consumer; dropping limit with size limit and rate reduction | `CountBound`; `NoStranded`: a buffer in the queue has a permit that will wake a consumer; `TotalBound`: the byte limit, read without the mutex, is exceeded by at most one buffer per producer, and the size it counts is the queue's (`SizeAccounting`); `EmptyOnlyWhenStopped`: nobody gets an empty buffer from a running queue that is never flushed; `FifoSpec`: the refinement of `MediaFifo`; `StopWakes`; `Delivered` |
| `pool_elements` | scaler, source with three channels, decoder, a finalized pool, a finalized pool of one buffer; 2 deleters, 6 allocations | `Exclusive`: no memory in two hands and no index for two buffers (`IndexUnique`); `Accounted`: none lost; `NoLostWakeup`; `TakeReturns` |
| `pipe_life` | 2 elements, start-stop-start-stop with joins, errors anywhere | `StopSettles`: after `stop()` all is stopped; `FreshQueues`: no buffer of an old session; `EmittedAtEnd`: the end is announced when the last thread has ended and not before; `ThreadsEnd`: elements' and the manager's threads end |
| `rtsp_sessions` | 10 setups: 1 or 2 clients, 1 or 2 media, UDP, TCP and multicast, 2 to 3 sessions; clients that wait or vanish, disabling, a crash and restart | `StreamsMatch`: a channel sends exactly while its session plays; `UsersServed`: a client that reports keeps its session whatever the others do (`Served`: over UDP or multicast, without aggregates and faults); `FileFits`: the saved sessions fit the limits they are restored under; `Reclaimed`: a session nobody uses is closed |
| `rtp_link` | 11 streams and networks, 5 to 7 NAL units; one through a plain bucket, one through a leaky one | `WholeFrames`: what is delivered is made of whole NAL units; `InOrder`; `LossCost`: a lost packet costs its own frame, and the next one only when it was the last packet of its frame; `WaitBound`; `RateBound`: overflow, cut division and silence make no bytes; `Sent`: a buffer whose packets fit the bucket is sent and `streamLock` given up |
| `rtsp_client` | 9 setups, 1 or 2 tracks: credentials, a server that is hard to reach, answers that come together, refused SETUPs, a receiver that cannot start, a lost connection, no receiver; up to 3 changes of mind | `ServerAgrees`: the keep-alive is in time; `NoOrphans`: a running receiver can be reached by a TEARDOWN, and the client forgets no session of the server; `Obeys`: `playASync()` ends in a stream, `teardownASync()` with nothing, in whatever state it comes |
| `dist_jobs` | 2 handlers, up to 3 buffers, 6 setups: more buffers than handlers, stop and restart, DIST_ALL, a source that does not number and still gives a buffer when a handler is lost | `NoHandlerLost`: a handler is free, busy or being taken, and only once, and none disappears through stop and restart; `AllDone`: DIST_ALL returns when all have worked on the buffer; `PoolSpec`: the refinement of `JobPool`; `Delivered`: `processBuffer()` returns, also after equal numbers have lost a handler, and a numbered buffer reaches the output; `HandlersEnd` |

Five runs look for a violation, and each stands for a finding in `PROJECT.json`:

| run | property | what happens |
|---|---|---|
| `eioq_stop_hang` | `ClearReturns` | a second `stop()` of a shared queue: a consumer takes one of the first one's permits between `available()` and `acquire()` at line 689; `clear()` waits for ever with the mutex held |
| `pool_finalize` | `FinalizeReturns` | `finalize()` destroys, under the mutex, buffers whose destructor calls `give()`, which takes the mutex |
| `rtsp_leak` | `SlotsMatch` | a session closed before its PLAY leaves its channel in the transmitter, where it counts for ever |
| `rtp_loss` | `OneFrameLost` | comments say that a lost single packet, or a lost end of fragments, costs one frame; the jump is seen by the packet after it, so the next frame is dropped too, although all of it came |
| `rtsp_client_reconnect` | `RestartsAfterLoss` | a comment says that the client starts over when the connection was lost; `aSyncDisConnected()` connects again without marking the device dead, so the state stays and the client goes on with sessions the server may not have |

`CHECK_DEADLOCK FALSE` is set in every cfg because every instance comes to rest: producers, clients and
streams run out of things to do (the bounds below) and whoever is left sleeps, which is how the
system idles. What must not sleep for ever is said by liveness properties instead.

## 4. Bounds

* `StopPermits` 2 for the 50 permits of `stop()` (3 in `eioq_stop_hang`): as many as there are consumers, which is
  all the code relies on. `MaxAdds` 2 per producer: enough for a full queue, a sleeper and a
  second round. `Sizes` 0 to 2 and limits of 2 and 3: one buffer may or may not exceed a limit. Lists have two buffers.
* `MaxMem` 6: a scaler's pool of three that is filled twice. `Deleters` 2: two threads downstream
  that give at once.
* `N` = 2: the first element is a source, which looks at its state, the last one waits in its
  input queue; a third one would be a second of that kind. `MaxQueue` 2: a buffer in front of an old one.
* `MaxIds` 3: two sessions to interact and one to come after. `MaxSiblings` 1: a session is appended to
  another's siblings once; twice needs a shared multicast session that does not play yet.
  `MaxCrashes` 1: the process that dies after a restore has the state of one that dies before.
* `SeqModulus` 16 for 65536, so that the rollover can be reached; `MaxWait` 2 for 50,
  `MaxPayload` 5 for 1460: units of one to five packets. The first packet of a stream does not
  arrive late (`MayArrive`; section 6 says what happens when it does).
* `Second` 4 for 1000, `Pause` 2 for 10, `IntMax` 31, `MaxSince` 6, `HeaderSize` 1 for 12: the product of the rate and a silence
  of 6 overflows, the division cuts, and the bucket of 6 bytes just holds the largest packet; the leaky one is
  smaller than it.
* `MaxSessions` 4: two tracks twice. `Timeout` 3 units of 5 s, for the 60 s servers announce: the keep-alive is due in the
  last unit only, and units in which none is due come before it. The timer, which ticks every 100 ms, ticks at least once in a
  unit. `MaxPending` 2: it does not tick while more than two requests are unanswered.
* 2 handlers and `MaxBuffers` 3: one buffer has to wait for a handler.

Where a property is restricted to some setups the restriction is an explicit antecedent, named
and commented at the property: `Emptied` (pools that `finalize()` empties in use, which no element
of the library has), `NeverCleared` (queues nobody flushes), `Apart` (sessions that do not take
another client's as sibling), `Once`, `Distinct` and `NeverStopped` (a distributor that is not stopped and whose buffers
have numbers of their own), `Served` (no session of an aggregate, of a client that dies, or interleaved: the server reads no reports of those), `Clean` (a client whose requests are granted and answered one by one), and for `LossCost` networks that lose only or
overtake no farther than the receiver waits. Section 6 says what happens in the others.

## 5. Fairness

Weak fairness only, and only of what a scheduler or event loop gives: the controller, each
producer's `addBuffer` and each consumer's `getBuffer` (threads the system schedules; a step that
waits for a mutex or a permit is not enabled until it is there); each taker, downstream and the
wake-up call of the pool; each element thread, reader and the caller of `start` and `stop`; the
timers of the RTSP server. Clients, the network, errors and crashes are never fair. `TakeReturns` is
claimed for the single taker of its pool: with several, `QWaitCondition` promises no order and one may
always be overtaken. Of the RTP link the sender's thread and the clock are fair, for `Sent`; nothing promises
arrival. Of the RTSP client the timer, the socket's signals and the server's answers are fair, the
application and what goes wrong are not. Of the distributor each thread is, and `Start` and `Stops`, the steps of a call
that has begun; a `stop()` need not come.

## 6. What modelling showed besides the findings

Found with the models or while reading for them. They have no run of their own: most contradict no text
of the repository, and the runs are kept for one disagreement per mechanism.

Queue (`baselmmelement.cpp`)
* `clear()` between a producer's append (625) and its release leaves a permit without a buffer: a
  later `getBuffer()` on a running queue returns an empty one. `LIMIT_BUFFER_COUNT_DROP` leaves a
  permit for each buffer dropped (775-778), to the same effect.
* `addBuffer(list)` with an empty buffer in it returns before the permits of the earlier ones are released (633).
* `addBuffer(list)` waits for a place in a count limited queue before it has released a permit for the buffers in front
  (769): producer and consumer wait for each other. TLC finds it when the count limited setup
  of the run `eioq` is given `list` 2.
* `waitBuffers()` (579) sleeps on `outWc`, which nothing in the library wakes: a producer that has to wait there
  waits for ever, whatever is taken out.
* `sentCount++` (666) is not under the mutex.

Pool: `take()` reads `finalized` without the mutex (72), and `give(int)` (101) not at all. A pool finalized in use would take an
index of before for one of after. The constructor that makes a pool fill itself has no caller.

Pipeline (`baselmmpipeline.cpp`)
* `start()` deletes the threads of the last session; if one still runs Qt ends the process. The
  model reaches this with `Joins = FALSE` and the calls start, stop, start.
* With `quitOnThreadError`, the default, an ordinary `stop()` ends the process with exit code 233 (270), because a
  thread that finds its queue stopped ends like one that failed. The runs have it off.
* `insert()` and `appendJoin()` do not append to `pipesChannels`, which `start()` reads for every pipe (70). Neither has a caller.
* `threads.size()` grows during `start()` while `threadFinished()` compares with it; `stop()` reads it
  without the mutex. `processBlocking()` returning `-EAGAIN` (312) loops without a wait.

RTSP server (`basertspserver.cpp`)
* Two SETUPs of a multicast before a PLAY: both PLAYs are answered 200 and nothing streams (948).
* An aggregate PLAY takes every session of the stream as sibling, another client's too (977), so that
  client's TEARDOWN ends it as well. After the TEARDOWN of one medium the other's sibling list
  points to a deleted session (1018), and so does `avpTcpMappings` after a disconnect
  with two media (708). The model lets the process die at such a use (`UsesDeleted`).
* An interleaved client's RTCP reports are not read (`readPendingRtcpDatagrams()` of `rtptransmitter.cpp` knows UDP sockets only), so its
  session times out while it is used; hence `Served`.
* GET_PARAMETER switches the siblings' RTSP time-out on but sets its value only for the session
  it names; a client that joins a silent multicast
  session does not restart its RTCP time (911); the limit is per transmitter; `closeSession` does
  not take `sessionLock`.
* `loadSessions()` reads `currentSocket` before anything sets it (408), restores TCP sessions as UDP,
  and restores the `clientCount` of when the file was written.

RTP (`rtpreceiver.cpp`, `rtptransmitter.cpp`)
* The loop that should drain the waiting packets (242) never runs, because the key it has just
  taken is still first: after one overtaking the receiver stays behind until the next gap.
* A lost packet is noticed at the next one (270), so the last packet of a frame takes the next frame with it. The comments at
  296-300 and 312-314 say one frame: the run `rtp_loss`. `LossCost` states what does hold: the next frame is lost in this case only.
* `start()` clears the counters and flags, but not `currentNal` (89), and the first packet after it is no jump: a receiver
  stopped in the middle of a fragmented unit joins the old fragments to the end of a later one and delivers them as
  one frame (TLC finds it when the stream `Stream` gets `stops` 1; the run `rtp_link` stops it between units of one packet).
* A second rollover while packets wait loses them, or takes them for packets 65536 later; a
  duplicate stays first in the map and blocks it until more than 50 packets wait; if the
  first two packets are swapped, 50 more pass before anything does.
* Across a rollover the map's order is not that of the numbers: when a packet is lost near the end, overtakers wait behind
  the gap while numbers 0 and 1 are handled as the next ones, and come out after them when the map is full (TLC, with a
  span of 16, `MaxWait = reorder = 3` and one loss). So `FramesInOrder` asks for `Calm`.
* The transmitter clears its own input queue when that holds more than 2 MB (263).
* The transmitter's wait for an SPS is counted once per transmitter, not per channel, the SPS may go
  out before a channel's PLAY, and aggregates do not wait for it.

Traffic shaping (`tokenbucket.cpp`)
* A packet larger than `b` = T * (burst - average), every packet when burst is not above average, waits for ever in `get()`, and with
  it `streamLock`: PLAY and TEARDOWN wait too. `Sent` is checked with packets that fit.
* Each look restarts the clock, so that what the division cuts is lost: below 100 bytes a second
  the bucket may never fill. `RateBound` therefore is one-sided.
* The leaky bucket forgets its debt (79-95): packets larger than the bytes of a window exceed the rate. `1000 / M` is
  an integer division, and 0 for `M` above 1000.

RTSP client (`rtspclient.cpp`)
* A keep-alive answered after the TEARDOWN of its session makes a new session without receiver, whose own teardown uses NULL; so does
  a SETUP of a track for which `getTrackReceiver()` finds none. The model lets the process die there (`crashed`).
* All that is readable at once is taken for one answer: with two in it the second is lost.
* A refused SETUP makes a session with an empty id. A wrong password is tried for ever. When the attempt to reconnect fails no
  other follows, because `devstatus` stays ALIVE.

Distributor (`jobdistributorelement.cpp`)
* A handler's `run()` clears `busy` (15), perhaps after its first buffer was handed over: DIST_ALL then returns early, and
  the next buffer overwrites one. `AllDone` excepts it (`early`).
* `streamBufferNo` is the key of the table (163-170): when buffers have the same number, or none, handlers disappear
  from it. One is always left, so the element slows down to one thread (`Delivered`, with three buffers of one number for two handlers).
* After a stop and restart a handler works once more on the buffer it had, and may be twice on the free list; the reducer keeps its flag
  `exit` and ends after its first buffer. A `processBuffer()` that waits across a `stop()` may wait for ever.

## 7. What is proved

For every value of the constants that satisfies the modules' named assumptions, and the hypotheses in the third column, if any:

| theorem | says | hypotheses | argument |
|---|---|---|---|
| **`ElementIOQueue_proofs`** | | | |
| `TypeCorrect` | `Spec => []TypeOK` | | `IInv` adds `InCall`: a producer inside `addBuffer()` has a buffer left, without which `Head` of its call has no type |
| `CountBounded` | `Spec => []CountBound`: the count limit | | `CountInv` adds `Waits`, in which limit modes a producer can be at which wait: one that comes back from the wait for the mutex (`relock`) appends without a test, and is never one of a count limited queue |
| `ImplementsFifo` | `Spec => FifoSpec` | | `Ordered`: what a producer has in its call, in the queue and behind it are its buffers in order; each action is one of `MediaFifo` or a stutter |
| `NoneStranded` | `Spec => []NoStranded` | `Whole`, `Orderly` | `Permits`: permits in the semaphore, in producers' hands (`Owing`) and with woken consumers cover the list while the queue is not stopped |
| `EmptyMeansStopped` | `Spec => EmptyOnlyWhenStopped` | `Exact` | `Backed`, the converse: a permit stands for a buffer until the queue is stopped |
| `TotalBounded` | `Spec => []TotalBound` | | the byte account is the sum over the list at every step (`SizeAccounting`, with the sum lemmas of `FoldTheorems`), and `Room`: a producer that has passed the test without the mutex adds one buffer more |
| **`LmmBufferPool_proofs`** | | | |
| `PoolTypeCorrect`, `BuffersExclusive`, `BuffersAccounted` | `TypeOK`, `Exclusive`, `Accounted` | | one inductive invariant `IInv`: `Places` (which elements can be where), `Numbered` (the indices are the first numbers, so the length of the free list is a new one when nothing is used) and `Two` (the buffer a decoder holds keeps `finalize()` from emptying its pool) |
| `WakeupsKept` | `NoLostWakeup` | | inductive with `IInv` |
| **`BaseLmmPipeline_proofs`** | | | |
| `PipelineTypeCorrect` | `Spec => []TypeOK` | | `Calling`: where the caller is decides which elements it has reached |
| `StopAlwaysSettles` | `Spec => []StopSettles` | | `Running`: a queue that runs lies beside an element that was not stopped |
| `QueuesAlwaysFresh` | `Spec => []FreshQueues` | `Alternates` | `Fresh`: what is in the queues when nobody calls, and in a thread's hand, is of this session |
| `PlaybackFinishes` | `Spec => EmittedAtEnd` | | who has counted is who `finished` counts; both conjuncts from it |
| **`BaseRtspServer_proofs`** | | | |
| `ServerTypeCorrect` | `Spec => []TypeOK` | | `TypeInv`, with `Sleeps`: what is left of a session that is not alive |
| `StreamsAlwaysMatch` | `Spec => []StreamsMatch` | | `StreamInv` adds the types of `state` and `channel` and of the saved states, from which `Load` makes channels |
| `FileAlwaysFits` | `Spec => []FileFits` | | `FileInv`: the live sessions and those of the file are within the limit separately, at any moment of a crash |
| `UsersAlwaysServed` | `Spec => []UsersServed` | | `ShareInv`: `count` is the number of clients that hold the session, so the last TEARDOWN only closes it, and no held channel has been quiet |
| **`RtpLink_proofs`** | | | |
| `WaitBounded` | `Spec => []WaitBound` | | `WInv` adds that the waiting packets are finitely many; `WaitStep` counts what one packet adds and removes |
| `BucketConforms` | a sender behind any shaper conforms to it for ever | | `BInv` relates the code's tokens to an exact bucket: that one is full, or holds what the code's has and all that the clock has not been asked for. An overflowed product is no larger than the true one (`WrapBelow`) and the cut quotient gives nothing away (`QuotientBelow`) |
| `LinkTypeCorrect`, `LinkRateBounded` | `TypeOK`, `RateBound` | | `IInv`: `BInv`, and every packet that waits to be sent fits (`Outgoing`). The packetizer is a `FoldLeft` over the units: `PacketizeGood` shows that one unit keeps `Goods` - finished packets of at most `MaxPayload` bytes, and an aggregate whose counted size is its payload - and `PayloadSums`, that the size of a packet is the sum over its pieces |
| `FramesWhole` | `WholeFrames` of a receiver that is not stopped | the numbers have not come round | `FramesInv`: a packet that leaves a NAL unit begun is followed by the fragment that goes on with it - among the packets to be sent (`InSeries`), and by number among those under way or waiting (`LinksKept`) - and so is what the receiver has put together and not marked as bad (`FrameKept`). So a packet that neither jumps in number nor is badly framed goes on with the frame. `PacketizedOrderly` shows that packetizing makes such series |
| `FramesInOrder` | `InOrder` of a receiver that is not stopped | the numbers have not come round; `Calm` | `OrderInv`: the NAL units of packets ascend with their numbers (`SentInRow`, from `PacketizedRows`: packetizing keeps the units in a row); what is under way has numbers after the last handled, and what waits too, unless a rollover left it behind (`NetInRow`); the frames, the one being put together and what is still to come are in this order (`OutInRow`). `HandledNext` shows that what is handled comes before all that is under way: when more packets wait than the network lets overtake, none that is missing can still come |
| `LossCostBounded`, `OwnFrameLost` | `LossCost` of a receiver that is not stopped; the same for networks that lose and overtake at once | the numbers have not come round; `Calm` | `CostInv`: the packets carry one unit after the other (`Lined`, from `PacketizedUniform` and `FlattenedLined`), so the number before each packet that is pending, under way or waiting is `Known`: the last handled, a packet still to come, or one its unit has lost - the last one, when the packet begins the next unit (`SentLined`). The frame being put together is the beginning of its unit, and the receiver at its end has nothing missing, unless that unit is `Hurt`, which is to have lost a packet or to have one that a rollover left behind, or the one before it `CutOff`, which is the same of its last packet (`FrameLined`). A jump in number that the receiver sees therefore always has a hurt unit or a cut off one before it, and a unit that is not hurt, after one that is not cut off, ends up in `out`. Rests on `FramesInv` and `OrderInv` |
| **`RtspClient_proofs`** | | | |
| `ClientTypeCorrect` | `Spec => []TypeOK` | | `Typed`: the answers on their way and the requests written are one line; each state waits for answers of its own kind (`Phases`), no PLAY or DESCRIBE is in it twice (`Once`), and there are no more SETUPs and sessions than tracks (`Counted`). Without it `described` could grow twice and `Put` make keys nobody gave |
| `SessionsKept` | `Spec => []NoOrphans` | | `Tidy`: a session in a SETUP's answer is none that is or was played (`Apart`), so no answer overwrites another session's entry; what an answer on its way says of the server's session is still so (`Recent`) |
| `KeepAliveInTime` | `Spec => []ServerAgrees` | `Timeout >= 2` | `Agreed`: the server has waited no longer than the client's own count says, and after a tick a session near its end has its keep-alive in the line (`PlayedKept`); a session that is set up need not be kept alive because its PLAY follows at once, or never (`SetupKept`, `Stuck`) |
| **`JobDistributorElement_proofs`** | | | |
| `JobTypeCorrect`, `HandlersKept` | `TypeOK`, `NoHandlerLost` | | `DistInv`: `Linked` and `Covers` hold across `stop()` and restart; `Tidy`, that a handler is free exactly when it has nothing pending and is in the table under its buffer's number otherwise, while none stops |
| `ImplementsPool` | `Spec => PoolSpec` | | `Logged` and `Worked`: what was done is what was handed over and is no longer pending |
| `AllWorked` | `Spec => []AllDone` | | `Rounds`, how far the round of a DIST_ALL buffer has come at each handler, and `Histories`, what each has written into `done` |

The hypotheses but `Timeout >= 2` are about the configuration, the calls or the length of a stream, and each is a place where the code does break the property; all are listed
among the hazards:

* `Whole`: lists of one buffer, or buffers that the queue cannot refuse. An empty buffer in the middle of a list makes `addBuffer()` return
  without releasing the permits of those before it (633).
* `Orderly`: between a `stop()` and the next `start()` of a queue the consumers are joined and then the queue is flushed, which is what
  `BaseLmmPipeline` does. A consumer that sees the stop too late has taken a permit of the new session.
* `Exact`: no dropping limit, no rate reduction, no `getBufferNW()`, which take buffers and permits apart (775).
* `Alternates`: no `start()` of a pipeline that runs; a second one makes new threads beside the old (section 6).

* `stops = 0` and `seq' # f` of `FramesWhole`, `FramesInOrder` and the `LossCost` theorems: a restart in the middle of a unit joins its old fragments to a new end (section 6), and a packet
  that waits while the numbers come round is taken for one of the new round.
* `Calm` of `FramesInOrder` and the `LossCost` theorems: the network overtakes nothing, or no farther than the receiver waits (`reorder <= MaxWait`) and the numbers have
  not rolled over since the first. A packet that overtakes farther is handled first and the overtaken one after it; for the
  rollover see section 6.

`Timeout >= 2` is of another kind: time advances by units of 5 seconds in the model of the client, the span in which the code sends its
keep-alives, and a session whose whole time-out is one unit would end between two ticks (TLC shows it). RTSP's default is 60 seconds, 12 units.

All setups of `eioq` satisfy `Whole` and `Orderly`, those without the dropping limit and the poller `Exact`, and the script of
`pipe_life` satisfies `Alternates`. Assumptions: `SetupAssumption`, `ThreadAssumption`, `BoundAssumption` (queue), `PoolAssumption` (a pool
that keeps a reference has one taker: only the element's own thread takes from it), `RtspAssumption`,
`RtpAssumption`, `BufferAssumption` (a buffer begins where the one before it ended), `BucketAssumption`, `ClientAssumption`, and those of the pipeline and the distributor. They type the constants and ask no more than the code's configuration does.
TLC evaluates them in every run, and checked the inductive invariants before they were proved.

Proof attempts have corrected the models: `TotalBound` had a conjunct that did not bind as it was indented, so that `SizeAccounting` was not
asserted; `UsersServed` was claimed of interleaved clients, whose reports nobody reads; `Emptied` left out the finalized
pool of one buffer (`Single`); and two takers of a pool with references, which no element has, could fill it at once.

Only model-checked is liveness (`StopWakes`, `Delivered`, `TakeReturns`, `ThreadsEnd`, `Reclaimed`, `Sent`, `Obeys`, `HandlersEnd`): fairness and `ENABLED` are
out of the prover's reach. Every invariant and action property of the runs is stated by a theorem.

Induction over data is done by hand: `NatSetInduction` of `FoldTheorems` is induction in the form of a set of numbers, from the well-foundedness of `<`, because
the library's theorems with an operator parameter cannot be instantiated. The modules have no RECURSIVE operator.

## 8. Plan

Done: 1. `ElementIOQueue` with `MediaFifo`; 2. `LmmBufferPool`; 3. `BaseLmmPipeline`;
4. `BaseRtspServer`; 5. `RtpLink`; 6. `JobDistributorElement` with `JobPool`; 7. `RtspClient`; 8. `TokenBucket`, composed
with `RtpLink`; 9. the proofs of section 7.

What is left to prove is liveness, which this prover cannot do.

Candidates for a model: `PipelineDebugger` (requests, time-outs and duplicates over UDP), `V4l2Input` (buffers between
driver, element and consumers).
