------------------------------ MODULE MCJournal ------------------------------
(* Journal for TLC, and the events on which the codec is checked: every    *)
(* discriminant, and each integer at the ends of its range.                *)
EXTENDS Journal

Top == B ^ 8 - 1

(* An event with each value of one field at a time.                        *)
NewOrder == [type |-> "New", seq |-> 1, id |-> Top, trader |-> 3, price |-> -2, qty |-> B,
             side |-> "Ask", tif |-> "Fok", stp |-> "CancelBoth"]
CancelOrder == [type |-> "Cancel", seq |-> 2, id |-> Top, trader |-> 3]
ModifyOrder == [type |-> "Modify", seq |-> 3, id |-> Top, trader |-> 3, price |-> -2, qty |-> B]

With(ev, field, values) == {[ev EXCEPT ![field] = v] : v \in values}

InputEvents ==
  UNION {With(NewOrder, "side", ToSet(SideNames)), With(NewOrder, "tif", ToSet(TifNames)),
         With(NewOrder, "stp", ToSet(StpNames))}
    \cup UNION {With(ev, "seq", {0, Top}) \cup With(ev, "id", {0, B})
                  \cup With(ev, "trader", {0, B ^ 4 - 1}) : ev \in {NewOrder, CancelOrder, ModifyOrder}}
    \cup UNION {With(ev, "price", {I64Low, -1, 0, I64High})
                  \cup With(ev, "qty", {0, Top}) : ev \in {NewOrder, ModifyOrder}}

AckOut == [type |-> "Ack", seq |-> 1, id |-> Top]
FillOut == [type |-> "Fill", seq |-> Top, id |-> B, maker |-> Top, price |-> -2, qty |-> 1, side |-> "Ask"]
CancelledOut == [type |-> "Cancelled", seq |-> 1, id |-> B, remaining |-> Top, reason |-> "Ioc"]
RejectedOut == [type |-> "Rejected", seq |-> 1, id |-> B, reason |-> "WrongTrader"]

OutputEvents ==
  UNION {With(ev, "seq", {0, Top}) \cup With(ev, "id", {0, Top})
           : ev \in {AckOut, FillOut, CancelledOut, RejectedOut}}
    \cup With(FillOut, "maker", {0, Top}) \cup With(FillOut, "price", {I64Low, -1, 0, I64High})
    \cup With(FillOut, "qty", {1, Top}) \cup With(FillOut, "side", ToSet(SideNames))
    \cup With(CancelledOut, "remaining", {0, Top})
    \cup With(CancelledOut, "reason", ToSet(CancelReasons))
    \cup With(RejectedOut, "reason", ToSet(RejectReasons))

(* The session that is journalled, and what an engine may answer: a long   *)
(* record before a short one.                                              *)
SessionEvents == {NewOrder, CancelOrder}
SessionOutputs == (NewOrder :> <<FillOut, AckOut>> @@ CancelOrder :> <<RejectedOut>>)

SessionConfig == [minPrice |-> -3, tickSize |-> 2, numLevels |-> B + 1, maxLiveOrders |-> 3]
Configs == UNION {With(SessionConfig, "minPrice", {I64Low, -1, 0, I64High}),
                  With(SessionConfig, "tickSize", {1, I64High}),
                  With(SessionConfig, "numLevels", {1, B ^ 4 - 1}),
                  With(SessionConfig, "maxLiveOrders", {0, 1, B ^ 4 - 1})}

(* Constants, which TLC evaluates once.                                    *)
InputsComeBack == \A ev \in InputEvents : DecodeInput(RecordOf(ev)) = ev
HeadersComeBack == \A c \in Configs : DecodeHeader(HeaderOf(c)) = c
FreshBytes == [ev \in OutputEvents |-> EncodeOutput(ev, Zeros(OUTPUT_RECORD))]
OutputsComeBack == \A ev \in OutputEvents : DecodeOutput(FreshBytes[ev]) = ev

(* Every event, and the configuration, comes back from its record.  An output's bytes,   *)
(* which go into the fingerprint of a replay, are those it would have in a *)
(* fresh buffer, whatever replay() has left in the one it uses             *)
(* (journal.rs:111-115): equal outputs, equal fingerprints.                *)
RecordsRoundTrip ==
  /\ InputsComeBack
  /\ HeadersComeBack
  /\ OutputsComeBack
  /\ \A ev \in OutputEvents : EncodeOutput(ev, rec) = FreshBytes[ev]

=============================================================================
