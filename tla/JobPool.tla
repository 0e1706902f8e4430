------------------------------- MODULE JobPool -------------------------------
(***************************************************************************)
(* What JobDistributorElement promises of the buffers it spreads over its  *)
(* elements: each is worked on by one of them, once, and there are never   *)
(* more under way than elements; the order in which they are done is free. *)
(***************************************************************************)
EXTENDS Integers, Sequences, FiniteSets, SequencesExt

CONSTANTS Jobs, Workers

VARIABLES
  given,  \* the jobs taken so far
  done    \* those that were worked on, in the order they were finished

Init == given = {} /\ done = <<>>

Give == \E j \in Jobs \ given :
          /\ Cardinality(given) - Len(done) < Workers
          /\ given' = given \cup {j} /\ UNCHANGED done

Finish == \E j \in given \ Range(done) :
            done' = Append(done, j) /\ UNCHANGED given

Spec == Init /\ [][Give \/ Finish]_<<given, done>>
=============================================================================
