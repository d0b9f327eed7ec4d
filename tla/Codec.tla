-------------------------------- MODULE Codec --------------------------------
(***************************************************************************)
(* The wire codec, src/crates/shell/src/codec.rs: an event as a record of  *)
(* fixed size, 40 bytes for an input and 48 for an output, every field at  *)
(* an offset of its own, little-endian.                                    *)
(*                                                                         *)
(* A record is a function from offsets to bytes.  Offsets and widths are   *)
(* the code's; a byte has B values, 256 in the code, so that TLC can reach *)
(* the largest integers: what is said of a u64 is said of a number of      *)
(* eight digits in base B.                                                 *)
(***************************************************************************)
EXTENDS Integers, Sequences, FiniteSetsExt

CONSTANT B    \* values of a byte

(* Seven reasons of a rejection need seven values; two's complement needs  *)
(* an even number of them.                                                 *)
ASSUME CodecAssumption == B \in Nat /\ B > 6 /\ B % 2 = 0

Bytes == 0 .. B - 1
I64Low == -(B ^ 8 \div 2)
I64High == B ^ 8 \div 2 - 1

(* What decode returns for bytes that no encoder wrote.                    *)
CodecError == [type |-> "CodecError"]

-----------------------------------------------------------------------------
(* Discriminants: a name stands for its place in the table, from zero.     *)

InputTags == <<"New", "Cancel", "Modify">>
OutputTags == <<"Ack", "Fill", "Cancelled", "Rejected">>
SideNames == <<"Bid", "Ask">>
TifNames == <<"Gtc", "Ioc", "Fok">>
StpNames == <<"None", "CancelResting", "CancelAggressor", "CancelBoth">>
CancelReasons == <<"User", "Ioc", "SelfTradePrevention">>
RejectReasons == <<"DuplicateOrderId", "UnknownOrderId", "PriceOutOfBounds",
                   "ZeroQty", "FokUnfillable", "ArenaFull", "WrongTrader">>

Code(names, name) == (CHOOSE i \in DOMAIN names : names[i] = name) - 1
Known(names, byte) == byte + 1 \in DOMAIN names
Name(names, byte) == names[byte + 1]

-----------------------------------------------------------------------------
(* Fields: `width` bytes from offset `at`, the lowest first.  An i64 is    *)
(* written as the u64 of the same bits.                                    *)

Field(at, width, n) == [at |-> at, width |-> width, n |-> n]

TwosComplement(n) == IF n < 0 THEN n + B ^ 8 ELSE n

Unsigned(rec, at, width) ==
  MapThenSumSet(LAMBDA k : rec[at + k] * B ^ k, 0 .. width - 1)

Signed(rec, at) ==
  LET n == Unsigned(rec, at, 8) IN IF n > I64High THEN n - B ^ 8 ELSE n

(* Mutant: the buffer keeps what the last event left in it.                *)
FilledMut(out) == out
(* out.fill(0)                                                             *)
Filled(out) == [i \in DOMAIN out |-> 0]

(* The fields written over a buffer of zeros; none overlaps another.       *)
Written(fields, out) ==
  [i \in DOMAIN out |->
     IF \E f \in fields : i \in f.at .. f.at + f.width - 1
     THEN LET f == CHOOSE f \in fields : i \in f.at .. f.at + f.width - 1
          IN  (f.n \div B ^ (i - f.at)) % B
     ELSE Filled(out)[i]]

-----------------------------------------------------------------------------
(* Inputs.                                                                 *)

INPUT_RECORD == 0 .. 39

InputFields(ev) ==
  {Field(0, 1, Code(InputTags, ev.type)), Field(4, 4, ev.trader),
   Field(8, 8, ev.seq), Field(16, 8, ev.id)}
    \cup (IF ev.type = "Cancel" THEN {}
          ELSE {Field(24, 8, TwosComplement(ev.price)), Field(32, 8, ev.qty)})
    \cup (IF ev.type # "New" THEN {}
          ELSE {Field(1, 1, Code(SideNames, ev.side)),
                Field(2, 1, Code(TifNames, ev.tif)),
                Field(3, 1, Code(StpNames, ev.stp))})

EncodeInput(ev, out) == Written(InputFields(ev), out)

DecodeInput(rec) ==
  LET seq == Unsigned(rec, 8, 8)
      id == Unsigned(rec, 16, 8)
      trader == Unsigned(rec, 4, 4)
      tag == IF Known(InputTags, rec[0]) THEN Name(InputTags, rec[0]) ELSE "unknown"
  IN  IF tag = "Cancel"
      THEN [type |-> tag, seq |-> seq, id |-> id, trader |-> trader]
      ELSE IF tag = "Modify"
      THEN [type |-> tag, seq |-> seq, id |-> id, trader |-> trader,
            price |-> Signed(rec, 24), qty |-> Unsigned(rec, 32, 8)]
      ELSE IF /\ tag = "New"
              /\ Known(SideNames, rec[1])
              /\ Known(TifNames, rec[2])
              /\ Known(StpNames, rec[3])
      THEN [type |-> tag, seq |-> seq, id |-> id, trader |-> trader,
            price |-> Signed(rec, 24), qty |-> Unsigned(rec, 32, 8),
            side |-> Name(SideNames, rec[1]), tif |-> Name(TifNames, rec[2]),
            stp |-> Name(StpNames, rec[3])]
      ELSE CodecError

-----------------------------------------------------------------------------
(* Outputs.  `id` is the taker of a Fill.                                  *)

OUTPUT_RECORD == 0 .. 47

OutputFields(ev) ==
  {Field(0, 1, Code(OutputTags, ev.type)), Field(8, 8, ev.seq), Field(16, 8, ev.id)}
    \cup (CASE ev.type = "Ack" -> {}
            [] ev.type = "Fill" ->
                 {Field(1, 1, Code(SideNames, ev.side)), Field(24, 8, ev.maker),
                  Field(32, 8, TwosComplement(ev.price)), Field(40, 8, ev.qty)}
            [] ev.type = "Cancelled" ->
                 {Field(1, 1, Code(CancelReasons, ev.reason)), Field(40, 8, ev.remaining)}
            [] ev.type = "Rejected" -> {Field(1, 1, Code(RejectReasons, ev.reason))})

EncodeOutput(ev, out) == Written(OutputFields(ev), out)

DecodeOutput(rec) ==
  LET seq == Unsigned(rec, 8, 8)
      id == Unsigned(rec, 16, 8)
      tag == IF Known(OutputTags, rec[0]) THEN Name(OutputTags, rec[0]) ELSE "unknown"
  IN  IF tag = "Ack" THEN [type |-> tag, seq |-> seq, id |-> id]
      ELSE IF tag = "Fill" /\ Known(SideNames, rec[1])
      THEN [type |-> tag, seq |-> seq, id |-> id, maker |-> Unsigned(rec, 24, 8),
            price |-> Signed(rec, 32), qty |-> Unsigned(rec, 40, 8),
            side |-> Name(SideNames, rec[1])]
      ELSE IF tag = "Cancelled" /\ Known(CancelReasons, rec[1])
      THEN [type |-> tag, seq |-> seq, id |-> id, remaining |-> Unsigned(rec, 40, 8),
            reason |-> Name(CancelReasons, rec[1])]
      ELSE IF tag = "Rejected" /\ Known(RejectReasons, rec[1])
      THEN [type |-> tag, seq |-> seq, id |-> id,
            reason |-> Name(RejectReasons, rec[1])]
      ELSE CodecError

=============================================================================
