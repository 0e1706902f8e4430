------------------------------ MODULE MediaFifo ------------------------------
(***************************************************************************)
(* What a media queue promises to the elements on both sides, without its  *)
(* mutex, semaphore and threads: buffers of one producer leave in the      *)
(* order they were handed over, none of them twice, unless the producer    *)
(* is one that may put a buffer in front.  A buffer may be lost            *)
(* at the entrance (refused or rate reduced), evicted from the old end, or *)
(* flushed.  ElementIOQueue implements this.                               *)
(***************************************************************************)
EXTENDS Naturals, Sequences

CONSTANTS Producers, Buffer     \* buffers are records with `by' and `no'

VARIABLES
  fifo,       \* the queued buffers, oldest first
  handed,     \* number of the last buffer each producer handed over
  delivered,  \* the buffers taken so far, in order
  prepending  \* the producers that may put a buffer in front

fifoVars == <<fifo, handed, delivered, prepending>>

Init == /\ fifo = <<>>
        /\ handed = [p \in Producers |-> 0]
        /\ delivered = <<>>
        /\ prepending \subseteq Producers

\* The newest buffer goes to the end; the k oldest ones may have to leave.
Put(b) == /\ b.no > handed[b.by]
          /\ handed' = [handed EXCEPT ![b.by] = b.no]
          /\ \E k \in 0..Len(fifo) :
               fifo' = Append(SubSeq(fifo, k + 1, Len(fifo)), b)
          /\ UNCHANGED <<delivered, prepending>>

\* A buffer that is to be the next one out.
PutFirst(b) == /\ b.by \in prepending
               /\ b.no > handed[b.by]
               /\ handed' = [handed EXCEPT ![b.by] = b.no]
               /\ fifo' = <<b>> \o fifo
               /\ UNCHANGED <<delivered, prepending>>

\* Buffers that are refused or skipped use up their numbers.
Lose(p) == /\ \E n \in {b.no : b \in Buffer} :
                n > handed[p] /\ handed' = [handed EXCEPT ![p] = n]
           /\ UNCHANGED <<delivered, prepending>>
           /\ \E k \in 0..Len(fifo) : fifo' = SubSeq(fifo, k + 1, Len(fifo))

Take == /\ fifo # <<>>
        /\ fifo' = Tail(fifo)
        /\ delivered' = Append(delivered, Head(fifo))
        /\ UNCHANGED <<handed, prepending>>

Flush == fifo' = <<>> /\ UNCHANGED <<handed, delivered, prepending>>

Next == \/ \E b \in Buffer : Put(b) \/ PutFirst(b)
        \/ \E p \in Producers : Lose(p)
        \/ Take
        \/ Flush

Spec == Init /\ [][Next]_fifoVars
=============================================================================
