---------------------------- MODULE LmmBufferPool ----------------------------
(***************************************************************************)
(* The pool an element takes its output buffers from: class LmmBufferPool  *)
(* of lmm/lmmbufferpool.{h,cpp}, with the code of the elements around it.  *)
(*                                                                         *)
(* With KeepRef the element is a VideoScaler, FFmpegColorSpace or          *)
(* FFmpegDecoder: it fills the pool when it finds it empty, takes a buffer *)
(* the pool keeps in buffersUsed, and sends an output buffer that refers   *)
(* to the same memory; aboutToDeleteBuffer() gives the index back.         *)
(* Without KeepRef it is a GenericVideoTestSource, whose channels share a  *)
(* pool filled beforehand: it sends the pool's buffer itself, and          *)
(* aboutToDeleteBuffer() gives back a new buffer with the same memory.     *)
(*                                                                         *)
(* A stretch of code with the mutex held is one action.  `stuck' is the    *)
(* mutex while finalize() holds it and waits for it.  The buffers'         *)
(* contents, sizes and formats are left out.                               *)
(***************************************************************************)
EXTENDS Integers, Sequences, FiniteSets

CONSTANTS
  Takers,       \* threads that call take
  Deleters,     \* threads downstream that delete output buffers
  MaxMem,       \* bound: buffers ever allocated
  Setups        \* the elements around the pool

\* What an element fixes: the threads that take, the argument of take, whether
\* the pool's buffers have the element as parent, the buffers it adds when it
\* fills the pool, whether its stop() calls finalize (GenericVideoTestSource has
\* no stop of its own), and a bound on the buffers it allocates.
Setup == [takers: SUBSET Takers, keepRef: BOOLEAN, owned: BOOLEAN,
          count: Nat \ {0}, finalizes: BOOLEAN, mem: 0..MaxMem]

ASSUME PoolAssumption ==
  /\ IsFiniteSet(Takers) /\ Deleters \in Nat \ {0} /\ MaxMem \in Nat
  /\ Setups \subseteq {s \in Setup : /\ s.finalizes => s.keepRef
                                     /\ s.keepRef => \A t, u \in s.takers : t = u
                                     /\ ~s.keepRef => s.count <= s.mem}

Memory == 1..MaxMem
Null == [mem |-> 0, idx |-> -1]                 \* RawBuffer()
Pooled == [mem: Memory, idx: Nat]
Buffer == Pooled \cup {Null}

VARIABLES
  setup,      \* the element around this pool
  free,       \* buffersFree, the next one to take first
  used,       \* buffersUsed, at most one entry for an index
  finalized,
  pc,         \* where each taker is in its processBuffer
  buf,        \* the buffer take gave it
  todo,       \* buffers it still has to add
  out,        \* output buffers sent down the pipeline and not yet deleted
  wakes,      \* deleters inside give that have not reached wakeAll
  allocs,     \* buffers allocated so far
  cpc,        \* the thread that stops the element
  stuck       \* TRUE when that thread waits for the mutex it holds

poolVars == <<free, used, finalized>>
vars == <<setup, poolVars, pc, buf, todo, out, wakes, allocs, cpc, stuck>>

KeepRef == setup.keepRef
Owned == setup.owned
BufferCount == setup.count
Finalizes == setup.finalizes

Entries(s) == {s[i] : i \in 1..Len(s)}
Held == {buf[t] : t \in {u \in Takers : pc[u] = "got"}} \ {Null}
Sent == out \ {Null}

\* The constructor, and addBufferToPool for an element that fills it at once.
Init ==
  /\ setup \in Setups
  /\ free = IF KeepRef THEN <<>>
            ELSE [i \in 1..BufferCount |-> [mem |-> i, idx |-> i - 1]]
  /\ used = {} /\ finalized = FALSE
  /\ pc = [t \in Takers |-> "idle"]
  /\ buf = [t \in Takers |-> Null]
  /\ todo = [t \in Takers |-> 0]
  /\ out = {} /\ wakes = 0 /\ cpc = "run" /\ stuck = FALSE
  /\ allocs = IF KeepRef THEN 0 ELSE BufferCount

-----------------------------------------------------------------------------
(* processBuffer of the element, one taker *)

GoTo(t, l) == pc' = [pc EXCEPT ![t] = l]

\* The element looks at the free buffers first, when it fills the pool itself.
Process(t) ==
  /\ t \in setup.takers /\ pc[t] = "idle" /\ ~stuck
  /\ GoTo(t, IF KeepRef /\ free = <<>> THEN "check" ELSE "take")
  /\ UNCHANGED <<poolVars, buf, todo, out, wakes, allocs, cpc, stuck>>

\* usedBufferCount() is another call, with the mutex given up in between.
CheckUsed(t) ==
  /\ pc[t] = "check" /\ ~stuck
  /\ used = {} => allocs + BufferCount <= setup.mem
  /\ GoTo(t, IF used = {} THEN "fill" ELSE "take")
  /\ todo' = [todo EXCEPT ![t] = IF used = {} THEN BufferCount ELSE 0]
  /\ allocs' = IF used = {} THEN allocs + BufferCount ELSE allocs
  /\ UNCHANGED <<poolVars, buf, out, wakes, cpc, stuck>>

\* The index addBuffer() gives a buffer.
NextIndex == Len(free)

\* Whether a taker adds its last buffer.  Deviation: one too many.
LastAddedLate(t) == todo[t] = 0
LastAdded(t) == todo[t] = 1

\* addBuffer() revives a finalized pool.
AddBuffer(t) ==
  /\ pc[t] = "fill" /\ ~stuck
  /\ free' = Append(free, [mem |-> allocs - todo[t] + 1, idx |-> NextIndex])
  /\ finalized' = FALSE
  /\ todo' = [todo EXCEPT ![t] = @ - 1]
  /\ GoTo(t, IF LastAdded(t) THEN "take" ELSE "fill")
  /\ UNCHANGED <<used, buf, out, wakes, allocs, cpc, stuck>>

\* take() reads finalized without the mutex.
TakeEnter(t) ==
  /\ pc[t] = "take"
  /\ GoTo(t, IF finalized THEN "got" ELSE "lock")
  /\ buf' = [buf EXCEPT ![t] = IF finalized THEN Null ELSE @]
  /\ UNCHANGED <<poolVars, todo, out, wakes, allocs, cpc, stuck>>

\* buffersUsed after insert(b.idx, b).
Insert(b) == {u \in used : u.idx # b.idx} \cup {b}

\* buffersFree after takeFirst().  Deviation: it stays in the list.
RestKept == free
Rest == Tail(free)

TakeFirst(t) ==
  /\ free # <<>>
  /\ free' = Rest
  /\ used' = IF KeepRef THEN Insert(Head(free)) ELSE used
  /\ buf' = [buf EXCEPT ![t] = Head(free)]
  /\ GoTo(t, "got")

\* With the mutex: sleeps, takes, or finds the pool finalized after a sleep.
TakeLocked(t) ==
  /\ pc[t] \in {"lock", "woken"} /\ ~stuck
  /\ \/ /\ pc[t] = "woken" /\ finalized
        /\ GoTo(t, "got") /\ buf' = [buf EXCEPT ![t] = Null]
        /\ UNCHANGED <<free, used>>
     \/ /\ pc[t] = "woken" => ~finalized
        /\ \/ free = <<>> /\ GoTo(t, "wait") /\ UNCHANGED <<free, used, buf>>
           \/ TakeFirst(t)
  /\ UNCHANGED <<finalized, todo, out, wakes, allocs, cpc, stuck>>

\* newOutputBuffer() with the output buffer; the taker's own references end.
Send(t) ==
  /\ pc[t] = "got"
  /\ out' = out \cup {buf[t]}
  /\ buf' = [buf EXCEPT ![t] = Null]
  /\ GoTo(t, "idle")
  /\ UNCHANGED <<poolVars, todo, wakes, allocs, cpc, stuck>>

-----------------------------------------------------------------------------
(* The last reference to an output buffer goes: aboutToDeleteBuffer *)

\* The buffer is free again, and its deleter goes on to wakeAll.
\* Deviation: nobody is woken.
ReturnQuietly(b) == free' = Append(free, b) /\ UNCHANGED wakes
Return(b) == free' = Append(free, b) /\ wakes' = wakes + 1

\* give(int).  An index that is not in use is refused and wakes nobody.
GiveIndex(i) ==
  /\ ~stuck
  /\ \/ \E b \in used : b.idx = i /\ Return(b) /\ used' = used \ {b}
     \/ (\A b \in used : b.idx # i) /\ UNCHANGED <<free, used, wakes>>

\* give(RawBuffer), whose users never finalize the pool.
GiveBuffer(b) == Return(b) /\ used' = {u \in used : u.idx # b.idx}

\* Deviation: the buffer is not given back.
DeleteSilent(b) ==
  /\ b \in out /\ wakes < Deleters /\ out' = out \ {b}
  /\ UNCHANGED <<poolVars, wakes, pc, buf, todo, allocs, cpc, stuck>>

Delete(b) ==
  /\ b \in out /\ wakes < Deleters /\ out' = out \ {b}
  /\ IF KeepRef THEN GiveIndex(b.idx) ELSE GiveBuffer(b)
  /\ UNCHANGED <<finalized, pc, buf, todo, allocs, cpc, stuck>>

WakeAll == pc' = [t \in Takers |-> IF pc[t] = "wait" THEN "woken" ELSE pc[t]]

GiveWake ==
  /\ wakes > 0 /\ wakes' = wakes - 1
  /\ WakeAll
  /\ UNCHANGED <<poolVars, buf, todo, out, allocs, cpc, stuck>>

-----------------------------------------------------------------------------
(* The element's stop(), called while its threads run: finalize *)

CallFinalize ==
  /\ Finalizes /\ cpc = "run" /\ cpc' = "finalize"
  /\ UNCHANGED <<poolVars, pc, buf, todo, out, wakes, allocs, stuck>>

\* Clearing the lists deletes every buffer no taker refers to.  A buffer whose
\* parent is the element calls give(int), which waits for finalize()'s mutex.
DeletesOwned == Owned /\ (Entries(free) \cup used) \ Held # {}

FinalizeClear ==
  /\ cpc = "finalize" /\ ~stuck
  /\ finalized' = TRUE
  /\ IF DeletesOwned
       THEN stuck' = TRUE /\ UNCHANGED <<free, used, cpc>>
       ELSE free' = <<>> /\ used' = {} /\ cpc' = "wake" /\ UNCHANGED stuck
  /\ UNCHANGED <<pc, buf, todo, out, wakes, allocs>>

FinalizeWake ==
  /\ cpc = "wake" /\ cpc' = "run"
  /\ WakeAll
  /\ UNCHANGED <<poolVars, buf, todo, out, wakes, allocs, stuck>>

-----------------------------------------------------------------------------
Work(t) == /\ UNCHANGED setup
           /\ \/ CheckUsed(t) \/ AddBuffer(t) \/ TakeEnter(t) \/ TakeLocked(t)
              \/ Send(t)
Downstream == UNCHANGED setup /\ \E b \in out : Delete(b)
Wake == UNCHANGED setup /\ GiveWake
Finalize == UNCHANGED setup /\ (FinalizeClear \/ FinalizeWake)

Next == \/ \E t \in Takers : UNCHANGED setup /\ Process(t)
        \/ \E t \in Takers : Work(t)
        \/ Downstream
        \/ Wake
        \/ UNCHANGED setup /\ CallFinalize
        \/ Finalize

Spec == Init /\ [][Next]_vars

\* A thread that has work goes on, and downstream lets go of what it was sent.
FairSpec ==
  /\ Spec
  /\ \A t \in Takers : WF_vars(Work(t))
  /\ WF_vars(Downstream) /\ WF_vars(Wake) /\ WF_vars(Finalize)

-----------------------------------------------------------------------------
\* Every variable has its type.
TypeOK ==
  /\ setup \in Setups
  /\ free \in Seq(Pooled) /\ used \subseteq Pooled /\ finalized \in BOOLEAN
  /\ pc \in [Takers -> {"idle", "check", "fill", "take", "lock", "wait", "woken", "got"}]
  /\ buf \in [Takers -> Buffer] /\ todo \in [Takers -> 0..BufferCount]
  /\ out \subseteq Buffer
  /\ wakes \in 0..Deleters /\ allocs \in 0..MaxMem
  /\ cpc \in {"run", "finalize", "wake"} /\ stuck \in BOOLEAN

\* An element whose stop() may empty a pool in use: no element of the library has
\* one, FFmpegDecoder's finalize() does not get that far with more than one buffer.
Emptied == Finalizes /\ (Owned => BufferCount = 1)

\* An index names one buffer of the pool, also when the element found the pool
\* empty between two calls and filled it again, or stop() emptied it half way:
\* give(int) returns the buffer it means (addBuffer 48, take 84).
IndexUnique ==
  KeepRef =>
    /\ \A i, j \in 1..Len(free) : free[i].idx = free[j].idx => i = j
    /\ \A b \in Entries(free), u \in used : b.idx # u.idx
    /\ \A u, v \in used : u.idx = v.idx => u = v

\* One piece of memory has one user: it is free once, or held by one taker, or
\* in one output buffer, and the index it is given back under is its own
\* (take 82-84, give 94-95 and 106-108).
Exclusive ==
  IndexUnique /\ (Emptied \/
    /\ \A i, j \in 1..Len(free) : free[i].mem = free[j].mem => i = j
    /\ \A b \in Entries(free), c \in Sent \cup Held : b.mem # c.mem
    /\ \A b \in Sent, c \in Held : b.mem # c.mem
    /\ \A b, c \in Sent : b.mem = c.mem => b = c
    /\ \A t, u \in Takers : pc[t] = "got" /\ pc[u] = "got" /\ buf[t].mem = buf[u].mem
                           => t = u \/ buf[t] = Null)

\* No buffer is lost: what the pool calls used is what takers hold and what is
\* on its way, so that an empty pool always means buffers that will come back.
\* Without references, every buffer is free, held or on its way.
Accounted ==
  Emptied \/
    IF KeepRef THEN used = Sent \cup Held
    ELSE {b.mem : b \in Entries(free) \cup Sent \cup Held} = 1..BufferCount

\* A taker sleeps beside a free buffer only while a call of give is on its way
\* to wakeAll: the wake up is not lost although it follows the unlock (97, 110).
NoLostWakeup == (\E t \in Takers : pc[t] = "wait") /\ free # <<>> => wakes > 0

\* The only taker of a pool that is not finalized gets its buffer when downstream
\* lets go of what it was sent; with several takers one may always be overtaken
\* (75-81).
TakeReturns ==
  \A t \in Takers : KeepRef /\ ~Finalizes /\ pc[t] = "wait" ~> pc[t] = "got"

\* finalize() returns, so that the element's stop() does (114-123).
FinalizeReturns == cpc = "finalize" ~> cpc = "run"
=============================================================================
