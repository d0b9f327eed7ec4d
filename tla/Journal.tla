------------------------------- MODULE Journal -------------------------------
(***************************************************************************)
(* The journal file, src/crates/shell/src/journal.rs, from the first write *)
(* to its replay: a writer that appends records through a BufWriter, which *)
(* writes its buffer out when a record does not fit and when it is         *)
(* flushed, a process that may fail or be killed between any two writes,   *)
(* and a reader in another process, replay(), that may open the file at    *)
(* any time.                                                               *)
(*                                                                         *)
(* The bytes of the file are always a prefix of the header and the records *)
(* appended so far, so the file is its length, which is counted in fewer   *)
(* units than bytes; what is in a whole record is Codec's, and the header  *)
(* is read whole or not at all.  BufWriter and the file are external; a    *)
(* write takes any number of bytes, as write(2) may.  What is written      *)
(* stays written (the code never calls fsync; a loss of power is not       *)
(* modelled).                                                              *)
(***************************************************************************)
EXTENDS Codec, SequencesExt

CONSTANTS Events,       \* input events of the session, as Codec's records
          Config,       \* BookConfig of the session
          Magic,        \* "TSRAJRN1", as the number its eight bytes make
          Outputs,      \* what the engine answers to each: external here
          MaxAppends,   \* bound: calls of append in a behaviour
          MaxReplays,   \* bound: times the journal is opened
          HeaderLen,    \* 32 in the code
          RecordLen,    \* INPUT_RECORD, 40 in the code
          BufCap        \* capacity of a BufWriter, 8192 in the code

(* A session has a book, and a book a tick and a level.                    *)
ASSUME JournalAssumption == /\ BufCap \in Nat
                            /\ Config.tickSize > 0 /\ Config.numLevels > 0
                            /\ Magic \in 1 .. B ^ 8 - 1
                            /\ HeaderLen \in 1 .. BufCap
                            /\ RecordLen \in 1 .. BufCap

VARIABLES
  log,       \* events whose append() has returned Ok
  buf,       \* bytes in the BufWriter
  disk,      \* bytes in the file
  writer,    \* "open", "finished" (finish() returned Ok), "failed", "dead"
  call,      \* the event or FinishCall for which the buffer is being written out
  reader,    \* "closed", "open", "error" (open() returned Err) or "eof"
  pos,       \* bytes the reader has consumed
  replayed,  \* events next_event() has returned
  outs,      \* outputs of the last of them that are still to be hashed
  rec,       \* replay()'s buffer for the record of an output
  cfg,       \* the reader's BookConfig, Nothing before it is known
  replays    \* times the journal was opened

file == <<log, buf, disk, writer, call>>
reading == <<reader, pos, replayed, outs, rec, cfg, replays>>
vars == <<log, buf, disk, writer, call, reader, pos, replayed, outs, rec, cfg, replays>>

(* A fresh buffer for a record.                                            *)
Zeros(offsets) == [i \in offsets |-> 0]

(* What `call` is besides an event.                                        *)
Nothing == [type |-> "Nothing"]
FinishCall == [type |-> "Finish"]

TypeOK == /\ log \in Seq(Events)
          /\ buf \in 0 .. BufCap
          /\ disk \in Nat
          /\ writer \in {"open", "finished", "failed", "dead"}
          /\ call \in Events \cup {FinishCall, Nothing}
          /\ reader \in {"closed", "open", "error", "eof"}
          /\ pos \in 0 .. disk
          /\ replayed \in Seq(Events)
          /\ outs \in Seq(UNION {ToSet(Outputs[e]) : e \in Events})
          /\ rec \in [OUTPUT_RECORD -> Bytes]
          /\ cfg \in {Config, Nothing}
          /\ replays \in 0 .. MaxReplays

(* create() has truncated the file and put the header into the buffer.     *)
Init == /\ log = <<>>
        /\ buf = HeaderLen
        /\ disk = 0
        /\ writer = "open"
        /\ call = Nothing
        /\ reader = "closed"
        /\ pos = 0
        /\ replayed = <<>>
        /\ outs = <<>>
        /\ rec = Zeros(OUTPUT_RECORD)
        /\ cfg = Nothing
        /\ replays = 0

-----------------------------------------------------------------------------
(* The writer.                                                             *)

Idle == writer = "open" /\ call = Nothing

(* A record that fits stays in memory.                                     *)
AppendFits(e) == /\ Idle
                 /\ Len(log) < MaxAppends
                 /\ buf + RecordLen <= BufCap
                 /\ log' = Append(log, e)
                 /\ buf' = buf + RecordLen
                 /\ UNCHANGED <<disk, writer, call, reading>>

(* One that does not waits until all of the buffer is written out.         *)
AppendSpills(e) == /\ Idle
                   /\ Len(log) < MaxAppends
                   /\ buf + RecordLen > BufCap
                   /\ call' = e
                   /\ UNCHANGED <<log, buf, disk, writer, reading>>

Finish == /\ Idle
          /\ call' = FinishCall
          /\ UNCHANGED <<log, buf, disk, writer, reading>>

WriteOut(n) == /\ writer = "open" /\ call # Nothing
               /\ n \in 1 .. buf
               /\ disk' = disk + n
               /\ buf' = buf - n
               /\ UNCHANGED <<log, writer, call, reading>>

AppendReturns == /\ writer = "open" /\ call \in Events
                 /\ buf = 0
                 /\ log' = Append(log, call)
                 /\ buf' = RecordLen
                 /\ call' = Nothing
                 /\ UNCHANGED <<disk, writer, reading>>

(* Mutant: finish() does not flush.                                        *)
FinishReturnsMut == /\ writer = "open" /\ call = FinishCall
                    /\ writer' = "finished"
                    /\ call' = Nothing
                    /\ UNCHANGED <<log, buf, disk, reading>>
FinishReturns == /\ writer = "open" /\ call = FinishCall
                 /\ buf = 0
                 /\ writer' = "finished"
                 /\ call' = Nothing
                 /\ UNCHANGED <<log, buf, disk, reading>>

(* Mutant: the error of append() is ignored, and the record with it.       *)
WriteFailsMut == /\ writer = "open" /\ call \in Events
                 /\ buf > 0
                 /\ log' = Append(log, call)
                 /\ call' = Nothing
                 /\ UNCHANGED <<buf, disk, writer, reading>>
(* A write fails: the call returns Err and its caller gives up             *)
(* (main.rs:88-100).                                                       *)
WriteFails == /\ writer = "open" /\ call # Nothing
              /\ buf > 0
              /\ writer' = "failed"
              /\ call' = Nothing
              /\ UNCHANGED <<log, buf, disk, reading>>

(* The dropped BufWriter tries once more and ignores what comes of it.     *)
DropBuffer(n) == /\ writer = "failed"
                 /\ n \in 0 .. buf
                 /\ disk' = disk + n
                 /\ buf' = 0
                 /\ writer' = "dead"
                 /\ UNCHANGED <<log, call, reading>>

(* The process is killed; its buffer is lost, what it has written is not.  *)
Kill == /\ writer \in {"open", "failed"}
        /\ writer' = "dead"
        /\ buf' = 0
        /\ call' = Nothing
        /\ UNCHANGED <<log, disk, reading>>

-----------------------------------------------------------------------------
(* The reader.                                                             *)

(* The header: create() writes the configuration after the magic bytes,    *)
(* open() reads it back and refuses what cannot be one.                    *)
HEADER == 0 .. 31

HeaderOf(c) ==
  Written({Field(0, 8, Magic), Field(8, 8, TwosComplement(c.minPrice)),
           Field(16, 8, TwosComplement(c.tickSize)), Field(24, 4, c.numLevels),
           Field(28, 4, c.maxLiveOrders)}, Zeros(HEADER))

DecodeHeader(h) ==
  LET c == [minPrice |-> Signed(h, 8), tickSize |-> Signed(h, 16),
            numLevels |-> Unsigned(h, 24, 4), maxLiveOrders |-> Unsigned(h, 28, 4)]
  IN  IF Unsigned(h, 0, 8) # Magic \/ c.tickSize < 1 \/ c.numLevels = 0
      THEN CodecError ELSE c

(* open(): a file shorter than the header is an error.                     *)
Open == LET c == DecodeHeader(HeaderOf(Config))
            good == disk >= HeaderLen /\ c # CodecError
        IN  /\ reader \in {"closed", "error", "eof"}
            /\ replays < MaxReplays
            /\ replays' = replays + 1
            /\ reader' = IF good THEN "open" ELSE "error"
            /\ pos' = IF disk >= HeaderLen THEN HeaderLen ELSE disk
            /\ cfg' = IF good THEN c ELSE Nothing
            /\ replayed' = <<>>
            /\ outs' = <<>>
            /\ UNCHANGED <<file, rec>>

(* append() and next_event() start from a record of zeros.                 *)
RecordOf(e) == EncodeInput(e, Zeros(INPUT_RECORD))

(* Mutant: the zeroed rest of a short record is decoded with it; nothing    *)
(* but the discriminants could be refused, and zeros are a New.            *)
NextEventMut ==
  /\ reader = "open" /\ outs = <<>>
  /\ pos < disk
  /\ pos' = IF disk - pos >= RecordLen THEN pos + RecordLen ELSE disk
  /\ replayed' = Append(replayed, DecodeInput(IF disk - pos >= RecordLen
                                              THEN RecordOf(log[Len(replayed) + 1])
                                              ELSE Zeros(INPUT_RECORD)))
  /\ UNCHANGED <<file, reader, outs, rec, cfg, replays>>
(* read_exact gets all of a record, which was written whole from one       *)
(* append; its bytes are decoded, the event is applied, and replay() takes *)
(* a new buffer for the outputs.                                           *)
NextEvent ==
  LET ev == DecodeInput(RecordOf(log[Len(replayed) + 1]))
  IN  /\ reader = "open" /\ outs = <<>>
      /\ disk - pos >= RecordLen
      /\ pos' = pos + RecordLen
      /\ IF ev = CodecError
         THEN reader' = "error" /\ UNCHANGED <<replayed, outs, rec>>
         ELSE /\ replayed' = Append(replayed, ev)
              /\ outs' = Outputs[ev]
              /\ rec' = Zeros(OUTPUT_RECORD)
              /\ UNCHANGED reader
      /\ UNCHANGED <<file, cfg, replays>>

(* The record of an output goes into the hash, in the buffer of the one    *)
(* before it.                                                              *)
HashOutput == /\ reader = "open" /\ outs # <<>>
              /\ rec' = EncodeOutput(Head(outs), rec)
              /\ outs' = Tail(outs)
              /\ UNCHANGED <<file, reader, pos, replayed, cfg, replays>>

(* Mutant: the rest of a short record is waited for.                       *)
ReachEofMut == /\ reader = "open" /\ outs = <<>>
               /\ disk = pos
               /\ reader' = "eof"
               /\ UNCHANGED <<file, pos, replayed, outs, rec, cfg, replays>>
(* read_exact consumes what there is and returns UnexpectedEof, which      *)
(* next_event turns into Ok(None) whether or not something was there.      *)
ReachEof == /\ reader = "open" /\ outs = <<>>
            /\ disk - pos < RecordLen
            /\ reader' = "eof"
            /\ pos' = disk
            /\ UNCHANGED <<file, replayed, outs, rec, cfg, replays>>

Write == \/ \E e \in Events : AppendFits(e) \/ AppendSpills(e)
         \/ Finish
         \/ \E n \in 1 .. BufCap : WriteOut(n)
         \/ AppendReturns
         \/ FinishReturns
         \/ WriteFails
         \/ \E n \in 0 .. BufCap : DropBuffer(n)
         \/ Kill

Read == Open \/ NextEvent \/ HashOutput \/ ReachEof

Next == Write \/ Read

(* A replay, once begun, is carried on to its end.                         *)
Spec == Init /\ [][Next]_vars /\ WF_vars(NextEvent \/ HashOutput \/ ReachEof)

-----------------------------------------------------------------------------
(* Properties.                                                             *)

(* Whenever and wherever the writer stopped and whenever the reader looks, *)
(* a replay feeds an engine of the same configuration a prefix of the      *)
(* session, never a damaged or a missing event in its middle.              *)
ReplaysPrefix == /\ reader \in {"open", "eof"} => cfg = Config
                 /\ Len(replayed) <= Len(log)
                 /\ replayed = SubSeq(log, 1, Len(replayed))

(* Once finish() has returned Ok, a replay that ends has seen the whole    *)
(* session, also one that was begun before ("replay it anywhere",          *)
(* journal.rs:2-3).                                                        *)
FinishedReplaysWhole ==
  [][(reader = "open" /\ reader' = "eof" /\ writer = "finished")
       => replayed = log]_vars

(* A writer that dies takes with it at most one buffer of what append()    *)
(* had answered Ok to.                                                     *)
LossBounded == HeaderLen + RecordLen * Len(log) <= disk + BufCap

(* A replay comes to an end whatever state the writer left the file in: a  *)
(* partial record at the end of it does not hold the reader up.            *)
ReplayEnds == reader = "open" ~> reader # "open"

(* "error on truncation/corruption" (journal.rs:76): next_event() says     *)
(* Ok(None) only where no part of a record is left.                        *)
TruncationIsAnError ==
  [][(reader = "open" /\ reader' = "eof") => pos = disk]_vars

=============================================================================
