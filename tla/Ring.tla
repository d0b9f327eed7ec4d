-------------------------------- MODULE Ring --------------------------------
(***************************************************************************)
(* The ring between the feeding thread and the engine thread,              *)
(* src/crates/shell/src/ring.rs: crossbeam's ArrayQueue, external and      *)
(* modelled as the linearizable bounded queue it is used as, and a closed  *)
(* flag that the producer's Drop stores with Release and recv() loads with *)
(* Acquire, so whoever sees the flag set sees all that was pushed before.  *)
(*                                                                         *)
(* Each atomic access is a step.  The consumer's thread calls recv() until *)
(* it returns None, as the engine loop does.                               *)
(***************************************************************************)
EXTENDS Integers, Sequences

CONSTANTS Capacity, MaxItems

ASSUME RingAssumption == Capacity \in Nat \ {0} /\ MaxItems \in Nat

VARIABLES
  q,          \* the queue; items are numbered as they are sent
  closed,     \* the flag
  sent,       \* items pushed so far
  pc,         \* recv(): "pop", "load" the flag, "last" pop, or None was "returned"
  received    \* items recv() has returned

vars == <<q, closed, sent, pc, received>>

TypeOK == /\ q \in Seq(1 .. MaxItems)
          /\ Len(q) <= Capacity
          /\ closed \in BOOLEAN
          /\ sent \in 0 .. MaxItems
          /\ pc \in {"pop", "load", "last", "returned"}
          /\ received \in Seq(1 .. MaxItems)

Init == /\ q = <<>>
        /\ closed = FALSE
        /\ sent = 0
        /\ pc = "pop"
        /\ received = <<>>

(* Mutant: a full queue takes one more.                                    *)
SendMut == /\ ~ closed
           /\ sent < MaxItems
           /\ Len(q) <= Capacity
           /\ q' = Append(q, sent + 1)
           /\ sent' = sent + 1
           /\ UNCHANGED <<closed, pc, received>>
(* send() spins while the queue is full; the push that succeeds is the     *)
(* step.  (try_send() is the same step, given up instead of repeated.)     *)
Send == /\ ~ closed
        /\ sent < MaxItems
        /\ Len(q) < Capacity
        /\ q' = Append(q, sent + 1)
        /\ sent' = sent + 1
        /\ UNCHANGED <<closed, pc, received>>

(* The producer is dropped, after its last item or before.                 *)
DropProducer == /\ ~ closed
                /\ closed' = TRUE
                /\ UNCHANGED <<q, sent, pc, received>>

(* A pop by recv(): Some(v) is returned and recv() called again.           *)
Take == /\ q # <<>>
        /\ received' = Append(received, Head(q))
        /\ q' = Tail(q)
        /\ pc' = "pop"
        /\ UNCHANGED <<closed, sent>>

PopEmpty == /\ pc = "pop"
            /\ q = <<>>
            /\ pc' = "load"
            /\ UNCHANGED <<q, closed, sent, received>>

(* Mutant: an empty ring is taken for a closed one.                        *)
LoadFlagMut == /\ pc = "load"
               /\ pc' = "last"
               /\ UNCHANGED <<q, closed, sent, received>>
(* An open ring sends recv() back to its loop, past the spin hint.         *)
LoadFlag == /\ pc = "load"
            /\ pc' = IF closed THEN "last" ELSE "pop"
            /\ UNCHANGED <<q, closed, sent, received>>

(* Mutant: the flag alone is the end; what raced it is not drained.        *)
LastEmptyMut == /\ pc = "last"
                /\ pc' = "returned"
                /\ UNCHANGED <<q, closed, sent, received>>
(* The pop after the flag was seen: None is final.                         *)
LastEmpty == /\ pc = "last"
             /\ q = <<>>
             /\ pc' = "returned"
             /\ UNCHANGED <<q, closed, sent, received>>

Recv == \/ pc \in {"pop", "last"} /\ Take
        \/ PopEmpty
        \/ LoadFlag
        \/ LastEmpty

Next == Send \/ DropProducer \/ Recv

(* The engine thread keeps running; nothing is asked of the producer.      *)
Spec == Init /\ [][Next]_vars /\ WF_vars(Recv)

-----------------------------------------------------------------------------
(* Properties.                                                             *)

(* The ring is a FIFO channel: nothing is lost, duplicated or reordered in *)
(* whatever way pushes, the close and recv() interleave, None comes only   *)
(* after the last item, and both the items and the end do come.            *)
Channel == INSTANCE FifoChannel WITH ended <- pc = "returned"

ImplementsChannel == Channel!Spec

(* A producer that waits for room gets it: send() does not spin for ever   *)
(* as long as the consumer receives.                                       *)
FullRingDrains == Len(q) = Capacity ~> Len(q) < Capacity

=============================================================================
