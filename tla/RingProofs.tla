------------------------------ MODULE RingProofs ------------------------------
(***************************************************************************)
(* Every step of Ring is a step of FifoChannel, for every capacity and     *)
(* number of items.  That the items and the end do come is left to TLC.    *)
(***************************************************************************)
EXTENDS Ring, SequenceTheorems, TLAPS

(* Items are numbered: what was received are the first ones, in order, and *)
(* what is queued are the ones that follow, up to the last that was sent.  *)
Numbered == /\ Len(received) + Len(q) = sent
            /\ \A i \in 1 .. Len(q) : q[i] = Len(received) + i

(* recv() is past the flag only when the flag is set, and has returned     *)
(* None only when nothing was left.                                        *)
EndInOrder == /\ pc \in {"last", "returned"} => closed
              /\ pc = "returned" => q = <<>>

IInv == TypeOK /\ Numbered /\ EndInOrder

LEMMA InitInv == Init => IInv
<1> SUFFICES ASSUME Init PROVE IInv
  OBVIOUS
<1>1. <<>> \in Seq(1 .. MaxItems) /\ Len(<<>>) = 0
  OBVIOUS
<1>2. TypeOK
  <2>1. q \in Seq(1 .. MaxItems) /\ received \in Seq(1 .. MaxItems) /\ Len(q) = 0
    BY <1>1 DEF Init
  <2>2. 0 <= Capacity /\ 0 \in 0 .. MaxItems
    BY RingAssumption
  <2> QED BY <2>1, <2>2 DEF Init, TypeOK
<1>3. Numbered
  <2>1. q = <<>> /\ received = <<>> /\ sent = 0
    BY DEF Init
  <2>2. Len(q) = 0 /\ Len(received) = 0
    BY <1>1, <2>1
  <2> QED BY <2>1, <2>2 DEF Numbered
<1> QED BY <1>2, <1>3 DEF Init, IInv, EndInOrder

LEMMA Lengths == ASSUME TypeOK PROVE Len(q) \in Nat /\ Len(received) \in Nat
BY LenProperties DEF TypeOK

LEMMA SendInv == ASSUME IInv, Send PROVE IInv'
<1>1. /\ q \in Seq(1 .. MaxItems) /\ sent \in Nat /\ sent + 1 \in 1 .. MaxItems
      /\ Len(q) \in Nat /\ Len(received) \in Nat
  BY Lengths, RingAssumption DEF IInv, TypeOK, Send
<1>2. /\ q' \in Seq(1 .. MaxItems) /\ Len(q') = Len(q) + 1
      /\ \A i \in 1 .. Len(q) : q'[i] = q[i]
      /\ q'[Len(q) + 1] = sent + 1
  BY <1>1, AppendProperties DEF Send
<1>3. sent' = sent + 1 /\ received' = received /\ pc' = pc /\ closed' = closed /\ ~ closed
  BY DEF Send
<1>4. TypeOK'
  BY <1>1, <1>2, <1>3, RingAssumption DEF IInv, TypeOK, Send
<1>5. Numbered'
  <2>1. Len(received') + Len(q') = sent'
    BY <1>1, <1>2, <1>3 DEF IInv, Numbered
  <2>2. ASSUME NEW i \in 1 .. Len(q) + 1 PROVE q'[i] = Len(received) + i
    <3>1. CASE i = Len(q) + 1
      BY <1>1, <1>2, <3>1 DEF IInv, Numbered
    <3>2. CASE i # Len(q) + 1
      BY <1>1, <1>2, <3>2 DEF IInv, Numbered
    <3> QED BY <3>1, <3>2
  <2> QED BY <1>2, <1>3, <2>1, <2>2 DEF Numbered
<1>6. EndInOrder'
  BY <1>3 DEF IInv, EndInOrder
<1> QED BY <1>4, <1>5, <1>6 DEF IInv

(* The item that a pop returns is the one after the last received.         *)
LEMMA TakeFacts ==
  ASSUME IInv, Take
  PROVE  /\ Len(received) < sent
         /\ Head(q) = Len(received) + 1
         /\ q' \in Seq(1 .. MaxItems) /\ Len(q') = Len(q) - 1
         /\ \A i \in 1 .. Len(q) - 1 : q'[i] = q[i + 1]
         /\ received' \in Seq(1 .. MaxItems) /\ Len(received') = Len(received) + 1
<1>1. q \in Seq(1 .. MaxItems) /\ q # <<>> /\ received \in Seq(1 .. MaxItems)
  BY DEF IInv, TypeOK, Take
<1>2. Len(q) \in Nat /\ Len(q) > 0 /\ Len(received) \in Nat
  BY <1>1, EmptySeq, Lengths DEF IInv
<1>3. /\ Head(q) = q[1] /\ Head(q) \in 1 .. MaxItems
      /\ Tail(q) \in Seq(1 .. MaxItems) /\ Len(Tail(q)) = Len(q) - 1
      /\ \A i \in 1 .. Len(Tail(q)) : Tail(q)[i] = q[i + 1]
  <2> DEFINE S == 1 .. MaxItems
  <2>1. q \in Seq(S) /\ q # <<>>
    BY <1>1
  <2> HIDE DEF S
  <2>2. /\ Head(q) \in S /\ Tail(q) \in Seq(S) /\ Len(Tail(q)) = Len(q) - 1
        /\ \A i \in 1 .. Len(Tail(q)) : Tail(q)[i] = q[i + 1]
    BY <2>1, HeadTailProperties, Zenon
  <2>3. Head(q) = q[1]
    OBVIOUS
  <2> QED BY <2>2, <2>3 DEF S
<1>4. received' \in Seq(1 .. MaxItems) /\ Len(received') = Len(received) + 1
  BY <1>1, <1>3, AppendProperties DEF Take
<1>5. Len(received) < sent /\ q[1] = Len(received) + 1
  BY <1>2 DEF IInv, Numbered
<1> QED BY <1>3, <1>4, <1>5 DEF Take

LEMMA TakeInv == ASSUME IInv, pc \in {"pop", "last"}, Take PROVE IInv'
<1>1. Len(q) \in Nat /\ Len(received) \in Nat
  BY Lengths DEF IInv
<1>2. closed' = closed /\ sent' = sent /\ pc' = "pop"
  BY DEF Take
<1>3. TypeOK'
  BY <1>1, <1>2, TakeFacts, RingAssumption DEF IInv, TypeOK
<1>4. Numbered'
  <2>1. Len(received') + Len(q') = sent'
    BY <1>1, <1>2, TakeFacts DEF IInv, Numbered
  <2>2. ASSUME NEW i \in 1 .. Len(q) - 1 PROVE q'[i] = Len(received) + 1 + i
    <3>1. q'[i] = q[i + 1] /\ i + 1 \in 1 .. Len(q)
      BY <1>1, TakeFacts
    <3> QED BY <1>1, <3>1 DEF IInv, Numbered
  <2> QED BY <1>1, <2>1, <2>2, TakeFacts DEF Numbered
<1>5. EndInOrder'
  BY <1>2 DEF EndInOrder
<1> QED BY <1>3, <1>4, <1>5 DEF IInv

LEMMA InvStep == IInv /\ [Next]_vars => IInv'
<1> SUFFICES ASSUME IInv, [Next]_vars PROVE IInv'
  OBVIOUS
<1>1. CASE Send
  BY <1>1, SendInv
<1>2. CASE pc \in {"pop", "last"} /\ Take
  BY <1>2, TakeInv
<1>3. CASE DropProducer \/ PopEmpty \/ LoadFlag \/ LastEmpty \/ UNCHANGED vars
  <2>1. UNCHANGED <<q, sent, received>>
    BY <1>3 DEF DropProducer, PopEmpty, LoadFlag, LastEmpty, vars
  <2>2. Numbered' /\ TypeOK'
    BY <1>3, <2>1 DEF IInv, Numbered, TypeOK, DropProducer, PopEmpty, LoadFlag, LastEmpty, vars
  <2>3. EndInOrder'
    BY <1>3, <2>1 DEF IInv, TypeOK, EndInOrder, DropProducer, PopEmpty, LoadFlag, LastEmpty, vars
  <2> QED BY <2>2, <2>3 DEF IInv
<1> QED BY <1>1, <1>2, <1>3 DEF Next, Recv

(* The ring never holds more than it was made for, and its items are those *)
(* that were sent.                                                         *)
THEOREM RingTyped == Spec => []TypeOK
<1>1. IInv => TypeOK
  BY DEF IInv
<1> QED BY <1>1, InitInv, InvStep, PTL DEF Spec

-----------------------------------------------------------------------------
(* The refinement.                                                         *)

ChannelSafety == Channel!Init /\ [][Channel!Next]_(Channel!vars)

LEMMA InitMaps == Init => Channel!Init
BY DEF Init, Channel!Init

LEMMA StepMaps == IInv /\ [Next]_vars => [Channel!Next]_(Channel!vars)
<1> SUFFICES ASSUME IInv, [Next]_vars PROVE Channel!Next \/ UNCHANGED Channel!vars
  OBVIOUS
<1>1. CASE Send
  BY <1>1 DEF Send, Channel!Next, Channel!Send
<1>2. CASE DropProducer
  BY <1>2 DEF DropProducer, Channel!Next, Channel!Close
<1>3. CASE pc \in {"pop", "last"} /\ Take
  <2>1. Len(received) < sent /\ Head(q) = Len(received) + 1
    BY <1>3, TakeFacts
  <2>2. pc # "returned" /\ pc' # "returned"
    BY <1>3 DEF Take
  <2> QED BY <1>3, <2>1, <2>2 DEF Take, Channel!Next, Channel!Deliver
<1>4. CASE PopEmpty \/ LoadFlag
  BY <1>4 DEF PopEmpty, LoadFlag, Channel!vars
<1>5. CASE LastEmpty
  <2>1. closed /\ Len(received) = sent
    BY <1>5, Lengths, EmptySeq DEF LastEmpty, IInv, EndInOrder, Numbered
  <2> QED BY <1>5, <2>1 DEF LastEmpty, Channel!Next, Channel!End
<1>6. CASE UNCHANGED vars
  BY <1>6 DEF vars, Channel!vars
<1> QED BY <1>1, <1>2, <1>3, <1>4, <1>5, <1>6 DEF Next, Recv

(* Whatever way pushes, the close and recv() interleave, the consumer gets *)
(* every item once and in order, and None only after the last.             *)
THEOREM RingIsAChannel == Spec => ChannelSafety
BY InitInv, InvStep, InitMaps, StepMaps, PTL DEF Spec, ChannelSafety

=============================================================================
