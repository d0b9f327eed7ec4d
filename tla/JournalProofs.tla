----------------------------- MODULE JournalProofs -----------------------------
(***************************************************************************)
(* What a journal keeps of a session, for every buffer, every length of    *)
(* the records and of the session, and every moment at which the writer    *)
(* stops and the reader looks.                                             *)
(*                                                                         *)
(* Bytes are counted in whole records.  That a record decodes to what was  *)
(* encoded is an assumption where it is needed: the codec sums digits by a *)
(* fold, and TLC checks it (RecordsRoundTrip).                             *)
(***************************************************************************)
EXTENDS Journal, SequenceTheorems, TLAPS

(* The length of a file with n whole records.                              *)
Whole(n) == HeaderLen + RecordLen * n

(* Until the buffer is dropped, the file and the buffer together are the   *)
(* session; afterwards at most a buffer of it is missing.                  *)
WriterInv == /\ log \in Seq(Events)
             /\ buf \in 0 .. BufCap
             /\ disk \in Nat
             /\ writer \in {"open", "finished", "failed", "dead"}
             /\ disk <= Whole(Len(log))
             /\ Whole(Len(log)) <= disk + BufCap
             /\ writer # "dead" => disk + buf = Whole(Len(log))
             /\ writer = "finished" => buf = 0

(* A reader stands behind a whole record, and has read every record before *)
(* the one it stands at.                                                   *)
ReaderInv == /\ replayed \in Seq(Events)
             /\ reader \in {"closed", "open", "error", "eof"}
             /\ Len(replayed) <= Len(log)
             /\ \A i \in 1 .. Len(replayed) : replayed[i] = log[i]
             /\ reader \in {"open", "eof"} => cfg = Config
             /\ reader = "open" => pos = Whole(Len(replayed))

(* The codec's promise: of events, and of the header.                      *)
EventsComeBack == \A e \in Events : DecodeInput(RecordOf(e)) = e
HeaderComesBack == DecodeHeader(HeaderOf(Config)) = Config

-----------------------------------------------------------------------------
LEMMA Sizes == /\ BufCap \in Nat
               /\ HeaderLen \in Nat /\ HeaderLen <= BufCap
               /\ RecordLen \in Nat /\ 0 < RecordLen /\ RecordLen <= BufCap
BY JournalAssumption

(* The whole lengths are a record apart.                                   *)
LEMMA WholeLengths ==
  /\ Whole(0) = HeaderLen
  /\ \A n \in Nat : Whole(n) \in Nat /\ Whole(n + 1) = Whole(n) + RecordLen
  /\ \A m \in Nat, n \in Nat : m <= n => Whole(m) <= Whole(n)
  /\ \A m \in Nat, n \in Nat : m < n => Whole(m) + RecordLen <= Whole(n)
<1>1. Whole(0) = HeaderLen
  BY Sizes DEF Whole
<1>2. ASSUME NEW n \in Nat PROVE Whole(n) \in Nat /\ Whole(n + 1) = Whole(n) + RecordLen
  BY Sizes DEF Whole
<1>3. ASSUME NEW m \in Nat, NEW n \in Nat, m <= n PROVE Whole(m) <= Whole(n)
  <2>1. PICK d \in Nat : n = m + d
    <3>1. n - m \in Nat /\ n = m + (n - m)
      BY <1>3
    <3> QED BY <3>1
  <2>2. RecordLen * n = RecordLen * m + RecordLen * d /\ RecordLen * d \in Nat /\ RecordLen * m \in Nat
    BY Sizes, <2>1
  <2> QED BY Sizes, <2>2 DEF Whole
<1>4. ASSUME NEW m \in Nat, NEW n \in Nat, m < n PROVE Whole(m) + RecordLen <= Whole(n)
  <2>1. m + 1 \in Nat /\ m + 1 <= n
    BY <1>4
  <2>2. Whole(m + 1) <= Whole(n)
    BY <1>3, <2>1
  <2> QED BY <1>2, <2>2
<1> QED BY <1>1, <1>2, <1>3, <1>4

-----------------------------------------------------------------------------
(* The writer.                                                             *)

LEMMA InitWriter == Init => WriterInv
<1> SUFFICES ASSUME Init PROVE WriterInv
  OBVIOUS
<1>1. <<>> \in Seq(Events) /\ Len(<<>>) = 0
  OBVIOUS
<1>2. log = <<>> /\ disk = 0 /\ buf = HeaderLen /\ writer = "open"
  BY DEF Init
<1>3. Whole(Len(log)) = HeaderLen
  BY <1>1, <1>2, WholeLengths
<1> QED BY <1>1, <1>2, <1>3, Sizes DEF WriterInv

(* The record of an event goes behind the session.                         *)
LEMMA Appended ==
  ASSUME WriterInv, NEW e \in Events, log' = Append(log, e)
  PROVE  /\ log' \in Seq(Events) /\ Len(log') = Len(log) + 1
         /\ \A i \in 1 .. Len(log) : log'[i] = log[i]
         /\ Len(log) \in Nat
         /\ Whole(Len(log)) \in Nat
         /\ Whole(Len(log')) = Whole(Len(log)) + RecordLen
<1>1. log \in Seq(Events) /\ Len(log) \in Nat
  BY LenProperties DEF WriterInv
<1>2. log' \in Seq(Events) /\ Len(log') = Len(log) + 1 /\ \A i \in 1 .. Len(log) : log'[i] = log[i]
  BY <1>1, AppendProperties
<1> QED BY <1>1, <1>2, WholeLengths

LEMMA WriterStep == WriterInv /\ [Next]_vars => WriterInv'
<1> SUFFICES ASSUME WriterInv, [Next]_vars PROVE WriterInv'
  OBVIOUS
<1> USE Sizes
<1>0. Len(log) \in Nat /\ Whole(Len(log)) \in Nat
  BY LenProperties, WholeLengths DEF WriterInv
<1>1. ASSUME NEW e \in Events, AppendFits(e) PROVE WriterInv'
  <2>1. log' = Append(log, e) /\ buf' = buf + RecordLen /\ buf + RecordLen <= BufCap
        /\ disk' = disk /\ writer' = writer /\ writer = "open"
    BY <1>1 DEF AppendFits, Idle
  <2>2. log' \in Seq(Events) /\ Whole(Len(log')) = Whole(Len(log)) + RecordLen
    BY <2>1, Appended
  <2> QED BY <1>0, <2>1, <2>2 DEF WriterInv
<1>2. ASSUME writer = "open", call \in Events, AppendReturns PROVE WriterInv'
  <2>1. log' = Append(log, call) /\ buf' = RecordLen /\ buf = 0 /\ disk' = disk /\ writer' = writer
    BY <1>2 DEF AppendReturns
  <2>2. log' \in Seq(Events) /\ Whole(Len(log')) = Whole(Len(log)) + RecordLen
    BY <1>2, <2>1, Appended
  <2> QED BY <1>0, <1>2, <2>1, <2>2 DEF WriterInv
<1>3. ASSUME NEW n \in 1 .. BufCap, WriteOut(n) PROVE WriterInv'
  <2>1. writer = "open" /\ n \in 1 .. buf /\ disk' = disk + n /\ buf' = buf - n /\ log' = log
        /\ writer' = writer
    BY <1>3 DEF WriteOut
  <2> QED BY <1>0, <2>1 DEF WriterInv
<1>4. ASSUME FinishReturns PROVE WriterInv'
  <2>1. writer = "open" /\ buf = 0 /\ writer' = "finished" /\ log' = log /\ buf' = buf /\ disk' = disk
    BY <1>4 DEF FinishReturns
  <2> QED BY <1>0, <2>1 DEF WriterInv
<1>5. ASSUME WriteFails PROVE WriterInv'
  <2>1. writer = "open" /\ writer' = "failed" /\ log' = log /\ buf' = buf /\ disk' = disk
    BY <1>5 DEF WriteFails
  <2> QED BY <1>0, <2>1 DEF WriterInv
<1>6. ASSUME NEW n \in 0 .. BufCap, DropBuffer(n) PROVE WriterInv'
  <2>1. writer = "failed" /\ n \in 0 .. buf /\ disk' = disk + n /\ buf' = 0 /\ writer' = "dead" /\ log' = log
    BY <1>6 DEF DropBuffer
  <2> QED BY <1>0, <2>1 DEF WriterInv
<1>7. ASSUME Kill PROVE WriterInv'
  <2>1. writer # "dead" /\ writer' = "dead" /\ buf' = 0 /\ log' = log /\ disk' = disk
    BY <1>7 DEF Kill
  <2> QED BY <1>0, <2>1 DEF WriterInv
<1>8. ASSUME UNCHANGED <<log, buf, disk, writer>> PROVE WriterInv'
  BY <1>8 DEF WriterInv
<1>9. ASSUME NEW e \in Events, AppendSpills(e) PROVE UNCHANGED <<log, buf, disk, writer>>
  BY <1>9 DEF AppendSpills
<1>10. Finish => UNCHANGED <<log, buf, disk, writer>>
  BY DEF Finish
<1>11. Read => UNCHANGED <<log, buf, disk, writer>>
  BY DEF Read, Open, NextEvent, HashOutput, ReachEof, file
<1>12. UNCHANGED vars => UNCHANGED <<log, buf, disk, writer>>
  BY DEF vars
<1>13. AppendReturns => writer = "open" /\ call \in Events
  BY DEF AppendReturns
<1> QED BY <1>1, <1>2, <1>3, <1>4, <1>5, <1>6, <1>7, <1>8, <1>9, <1>10, <1>11, <1>12, <1>13
        DEF Next, Write

(* A writer that dies takes with it at most one buffer of what append()    *)
(* had answered Ok to (journal.rs:31-37).                                  *)
THEOREM LossIsBounded == Spec => []LossBounded
<1>1. Init => WriterInv
  BY InitWriter
<1>2. WriterInv /\ [Next]_vars => WriterInv'
  BY WriterStep
<1>3. WriterInv => LossBounded
  BY DEF WriterInv, LossBounded, Whole
<1> QED BY <1>1, <1>2, <1>3, PTL DEF Spec

-----------------------------------------------------------------------------
(* The reader.                                                             *)

LEMMA InitReader == Init => ReaderInv
<1> SUFFICES ASSUME Init PROVE ReaderInv
  OBVIOUS
<1>1. <<>> \in Seq(Events) /\ Len(<<>>) = 0
  OBVIOUS
<1>2. log = <<>> /\ replayed = <<>> /\ reader = "closed"
  BY DEF Init
<1> QED BY <1>1, <1>2 DEF ReaderInv

(* What was read stays at the front of a log that only grows.              *)
LEMMA LogGrows ==
  ASSUME WriterInv, ReaderInv, reading' = reading,
         log' = log \/ \E e \in Events : log' = Append(log, e)
  PROVE  ReaderInv'
<1>1. reader' = reader /\ pos' = pos /\ replayed' = replayed /\ cfg' = cfg
  BY DEF reading
<1>2. CASE log' = log
  BY <1>1, <1>2 DEF ReaderInv
<1>3. ASSUME NEW e \in Events, log' = Append(log, e) PROVE ReaderInv'
  <2>1. Len(log) \in Nat /\ Len(log') = Len(log) + 1 /\ \A i \in 1 .. Len(log) : log'[i] = log[i]
    BY <1>3, Appended
  <2>2. Len(replayed) \in Nat
    BY LenProperties DEF ReaderInv
  <2> QED BY <1>1, <2>1, <2>2 DEF ReaderInv
<1> QED BY <1>2, <1>3

LEMMA WriteKeepsReader == ASSUME WriterInv, ReaderInv, Write PROVE ReaderInv'
<1>1. reading' = reading
  BY DEF Write, AppendFits, AppendSpills, Finish, WriteOut, AppendReturns, FinishReturns,
         WriteFails, DropBuffer, Kill
<1>2. log' = log \/ \E e \in Events : log' = Append(log, e)
  BY DEF Write, AppendFits, AppendSpills, Finish, WriteOut, AppendReturns, FinishReturns,
         WriteFails, DropBuffer, Kill
<1> QED BY <1>1, <1>2, LogGrows

LEMMA OpenInv == ASSUME HeaderComesBack, WriterInv, ReaderInv, Open PROVE ReaderInv'
<1>1. replayed' = <<>> /\ log' = log /\ reader' \in {"open", "error"}
  BY DEF Open, file
<1>2. reader' = "open" => pos' = HeaderLen /\ cfg' = Config
  BY DEF Open, HeaderComesBack
<1>3. replayed' \in Seq(Events) /\ Len(replayed') = 0
  BY <1>1, EmptySeq
<1>4. Len(log) \in Nat /\ HeaderLen = Whole(Len(replayed'))
  BY <1>3, LenProperties, WholeLengths DEF WriterInv
<1> QED BY <1>1, <1>2, <1>3, <1>4 DEF ReaderInv

(* Where a whole record is left to read, it is that of an event that was   *)
(* appended.                                                               *)
LEMMA NextIsLogged ==
  ASSUME WriterInv, ReaderInv, reader = "open", disk - pos >= RecordLen
  PROVE  /\ Len(replayed) \in Nat /\ Len(replayed) + 1 \in 1 .. Len(log)
         /\ log[Len(replayed) + 1] \in Events
<1>1. Len(log) \in Nat /\ Len(replayed) \in Nat /\ log \in Seq(Events) /\ disk \in Nat
  BY LenProperties DEF WriterInv, ReaderInv
<1>2. pos = Whole(Len(replayed)) /\ disk <= Whole(Len(log))
  BY DEF WriterInv, ReaderInv
<1>3. Whole(Len(replayed)) \in Nat /\ Whole(Len(log)) \in Nat
  BY <1>1, WholeLengths
<1>4. ~ (Len(log) <= Len(replayed))
  <2>1. Len(log) <= Len(replayed) => Whole(Len(log)) <= Whole(Len(replayed))
    BY <1>1, WholeLengths
  <2> QED BY <1>1, <1>2, <1>3, <2>1, Sizes
<1>5. Len(replayed) + 1 \in 1 .. Len(log)
  BY <1>1, <1>4
<1> QED BY <1>1, <1>5, ElementOfSeq

LEMMA NextEventInv ==
  ASSUME EventsComeBack, WriterInv, ReaderInv, NextEvent PROVE ReaderInv'
<1>1. reader = "open" /\ disk - pos >= RecordLen /\ log' = log /\ cfg' = cfg /\ pos' = pos + RecordLen
  BY DEF NextEvent, file
<1>2. PICK k \in Nat : k = Len(replayed)
  BY LenProperties DEF ReaderInv
<1>3. k + 1 \in 1 .. Len(log) /\ log[k + 1] \in Events
  BY <1>1, <1>2, NextIsLogged
<1>4. PICK ev \in Events : ev = log[k + 1] /\ ev = DecodeInput(RecordOf(log[k + 1]))
  BY <1>3 DEF EventsComeBack
<1>5. \/ reader' = "error" /\ replayed' = replayed
      \/ reader' = reader /\ replayed' = Append(replayed, ev)
  BY <1>2, <1>4 DEF NextEvent
<1>6. CASE reader' = "error" /\ replayed' = replayed
  BY <1>1, <1>6 DEF ReaderInv
<1>7. CASE reader' = reader /\ replayed' = Append(replayed, ev)
  <2>1. /\ replayed' \in Seq(Events) /\ Len(replayed') = k + 1
        /\ \A i \in 1 .. k : replayed'[i] = replayed[i]
        /\ replayed'[k + 1] = ev
    BY <1>2, <1>7, AppendProperties DEF ReaderInv
  <2>2. \A i \in 1 .. k + 1 : replayed'[i] = log[i]
    <3>1. \A i \in 1 .. k : replayed[i] = log[i]
      BY <1>2 DEF ReaderInv
    <3>2. \A i \in 1 .. k + 1 : i \in 1 .. k \/ i = k + 1
      OBVIOUS
    <3> QED BY <1>4, <2>1, <3>1, <3>2
  <2>3. pos' = Whole(k + 1)
    BY <1>1, <1>2, WholeLengths DEF ReaderInv
  <2> QED BY <1>1, <1>3, <1>7, <2>1, <2>2, <2>3 DEF ReaderInv
<1> QED BY <1>5, <1>6, <1>7

LEMMA ReaderStep ==
  ASSUME EventsComeBack, HeaderComesBack, WriterInv, ReaderInv, [Next]_vars PROVE ReaderInv'
<1>1. CASE Open
  BY <1>1, OpenInv
<1>2. CASE NextEvent
  BY <1>2, NextEventInv
<1>3. CASE HashOutput
  BY <1>3 DEF HashOutput, ReaderInv, file
<1>4. CASE ReachEof
  BY <1>4 DEF ReachEof, ReaderInv, file
<1>5. CASE Write
  BY <1>5, WriteKeepsReader
<1>6. CASE UNCHANGED vars
  BY <1>6 DEF vars, ReaderInv
<1> QED BY <1>1, <1>2, <1>3, <1>4, <1>5, <1>6 DEF Next, Read

(* The invariant of a session and its replays.                             *)
LEMMA Inductive ==
  ASSUME EventsComeBack, HeaderComesBack PROVE Spec => [](WriterInv /\ ReaderInv)
<1>1. Init => WriterInv /\ ReaderInv
  BY InitWriter, InitReader
<1>2. WriterInv /\ ReaderInv /\ [Next]_vars => WriterInv' /\ ReaderInv'
  BY WriterStep, ReaderStep
<1> QED BY <1>1, <1>2, PTL DEF Spec

(* What next_event() has returned is a prefix of the session, in order and *)
(* without a gap, for a book of the session's configuration, however much  *)
(* of the last record the writer got to the file (journal.rs:77-88).       *)
THEOREM ReplayIsAPrefix ==
  ASSUME EventsComeBack, HeaderComesBack PROVE Spec => []ReplaysPrefix
<1>1. ASSUME WriterInv, ReaderInv PROVE ReplaysPrefix
  <2>1. PICK k \in Nat : k = Len(replayed)
    BY <1>1, LenProperties DEF ReaderInv
  <2>2. /\ k <= Len(log) /\ Len(log) \in Nat /\ log \in Seq(Events) /\ replayed \in Seq(Events)
        /\ \A i \in 1 .. k : replayed[i] = log[i]
    BY <1>1, <2>1, LenProperties DEF WriterInv, ReaderInv
  <2>3. \A i \in 1 .. k : log[i] \in Events
    BY <2>2, ElementOfSeq
  <2>4. /\ SubSeq(log, 1, k) \in Seq(Events)
        /\ Len(SubSeq(log, 1, k)) = IF 1 <= k THEN k - 1 + 1 ELSE 0
        /\ \A i \in 1 .. k - 1 + 1 : SubSeq(log, 1, k)[i] = log[1 + i - 1]
    BY <2>1, <2>3, SubSeqProperties
  <2> DEFINE front == SubSeq(log, 1, k)
  <2> HIDE DEF front
  <2>5. front \in Seq(Events) /\ Len(front) = k /\ \A i \in 1 .. k : front[i] = log[i]
    BY <2>1, <2>4 DEF front
  <2>6. front = replayed
    BY <2>1, <2>2, <2>5, SeqEqual
  <2>7. replayed = SubSeq(log, 1, Len(replayed))
    BY <2>1, <2>6 DEF front
  <2> QED BY <1>1, <2>7 DEF ReaderInv, ReplaysPrefix
<1>2. WriterInv /\ ReaderInv => ReplaysPrefix
  BY <1>1
<1> QED BY <1>2, Inductive, PTL

(* A replay that ends after finish() has returned Ok has seen the whole    *)
(* session, also one that was begun before (journal.rs:39-42).             *)
THEOREM FinishedSessionIsWhole ==
  ASSUME EventsComeBack, HeaderComesBack PROVE Spec => FinishedReplaysWhole
<1>1. ASSUME WriterInv, ReaderInv, [Next]_vars, reader = "open", reader' = "eof", writer = "finished"
      PROVE  replayed = log
  <2>1. ReachEof
    BY <1>1 DEF Next, vars, Read, Write, Open, NextEvent, HashOutput, AppendFits, AppendSpills, Finish,
                WriteOut, AppendReturns, FinishReturns, WriteFails, DropBuffer, Kill, reading
  <2>2. PICK k \in Nat, m \in Nat : k = Len(replayed) /\ m = Len(log)
    BY <1>1, LenProperties DEF WriterInv, ReaderInv
  <2>3. disk - pos < RecordLen /\ pos = Whole(k) /\ disk = Whole(m) /\ k <= m
    <3>1. disk + 0 = Whole(m) /\ disk \in Nat
      BY <1>1, <2>2 DEF WriterInv
    <3> QED BY <1>1, <2>1, <2>2, <3>1 DEF ReachEof, ReaderInv
  <2>4. ~ (k < m)
    <3>1. Whole(k) \in Nat /\ Whole(m) \in Nat /\ (k < m => Whole(k) + RecordLen <= Whole(m))
      BY WholeLengths
    <3> QED BY <2>3, <3>1, Sizes
  <2>5. Len(replayed) = Len(log) /\ \A i \in 1 .. Len(replayed) : replayed[i] = log[i]
    BY <1>1, <2>2, <2>3, <2>4 DEF ReaderInv
  <2> QED BY <1>1, <2>5, SeqEqual DEF WriterInv, ReaderInv
<1>2. WriterInv /\ ReaderInv /\ [Next]_vars
      => [(reader = "open" /\ reader' = "eof" /\ writer = "finished") => replayed = log]_vars
  BY <1>1
<1>3. Spec => [][Next]_vars
  BY PTL DEF Spec
<1>4. Spec => [](WriterInv /\ ReaderInv)
  BY Inductive
<1> QED BY <1>2, <1>3, <1>4, PTL DEF FinishedReplaysWhole

=============================================================================
