----------------------------- MODULE FifoChannel -----------------------------
(***************************************************************************)
(* What the ring promises the two threads at its ends: the consumer gets   *)
(* what the producer has sent, each item once and in order, and is told of *)
(* the end when, and only when, the producer has hung up and nothing is    *)
(* left.  Items are numbered in the order they are sent.                   *)
(***************************************************************************)
EXTENDS Integers, Sequences

CONSTANT MaxItems

VARIABLES sent, closed, received, ended

vars == <<sent, closed, received, ended>>

Init == /\ sent = 0
        /\ closed = FALSE
        /\ received = <<>>
        /\ ended = FALSE

Send == /\ ~ closed
        /\ sent < MaxItems
        /\ sent' = sent + 1
        /\ UNCHANGED <<closed, received, ended>>

Close == /\ ~ closed
         /\ closed' = TRUE
         /\ UNCHANGED <<sent, received, ended>>

Deliver == /\ Len(received) < sent
           /\ received' = Append(received, Len(received) + 1)
           /\ UNCHANGED <<sent, closed, ended>>

End == /\ closed
       /\ Len(received) = sent
       /\ ended' = TRUE
       /\ UNCHANGED <<sent, closed, received>>

Next == Send \/ Close \/ Deliver \/ End

(* Nobody makes the producer send; what is sent arrives, and so does the   *)
(* end.                                                                    *)
Spec == Init /\ [][Next]_vars /\ WF_vars(Deliver) /\ WF_vars(End)

=============================================================================
