---------------------------- MODULE ReceivingProofs ---------------------------
(***************************************************************************)
(* Theorems about the receiving side.  First Recorder, for a channel of    *)
(* any capacity and calls of any length; then ReceivePath, for any stream, *)
(* any network and sequence numbers of any width: the jitter buffer plays  *)
(* in order and loses nothing that comes in time, and the statistics and   *)
(* the collected digits are exact while no packet overtakes another.       *)
(***************************************************************************)
EXTENDS Recorder, ReceivePath, FiniteSetTheorems, SequenceTheorems, TLAPS

USE DEF writeVars, tickVars, writerVars, finVars

\* The channel is closed by the finalizer and by nobody else, the writer
\* leaves only when it is closed and empty, and holds a frame exactly while
\* it writes.
Channel ==
    /\ ~onDisk => ~sending /\ ch = << >> /\ inHand = 0 /\ ~chClosed
    /\ chClosed => fin \in {"drain", "done"}
    /\ onDisk /\ fin \in {"drain", "done"} => chClosed
    /\ inHand # 0 <=> writer = "write"
    /\ onDisk /\ writer = "done" => chClosed /\ ch = << >>
    /\ fin = "done" => writer = "done"

\* Sent frames have numbers from 1 to taken, and the frame that is being sent
\* is later than all of them.
Numbered ==
    \A i \in 1 .. Len(Sent) : /\ Sent[i] \in 1 .. taken
                              /\ sending => Sent[i] < taken

\* The finalizer gets past the wait group only when the receiver has left.
Ordered ==
    /\ fin # "wait" => receiver = "gone"
    /\ played <= taken
    /\ SnapshotCoversPlayed

IInv == RecTypeOK /\ Channel /\ Numbered /\ Ordered /\ FramesAccounted

-----------------------------------------------------------------------------
\* The initial state satisfies the inductive invariant.
LEMMA InitIInv == RecInit => IInv
  <1> SUFFICES ASSUME RecInit PROVE IInv
      OBVIOUS
  <1>1. RecTypeOK
    <2>1. << >> \in Seq(Nat) /\ Len(<< >>) = 0
          BY EmptySeq
    <2>2. /\ onDisk \in BOOLEAN /\ sending \in BOOLEAN
          /\ chClosed \in BOOLEAN /\ panicked \in BOOLEAN
          BY Zenon DEF RecInit
    <2> QED
        BY <2>1, <2>2, RecorderAssumption DEF RecInit, RecTypeOK
  <1>2. Channel
        BY DEF RecInit, Channel
  <1>3. Sent = << >>
        BY DEF RecInit, Sent, Hand
  <1>4. Numbered /\ FramesAccounted
        BY <1>3 DEF RecInit, Numbered, FramesAccounted
  <1>5. Ordered
        BY DEF RecInit, Ordered, SnapshotCoversPlayed
  <1> QED
      BY <1>1, <1>2, <1>4, <1>5 DEF IInv

\* What Send may do to the channel and to the count.
LEMMA SendShape ==
    ASSUME Send
    PROVE  /\ file' = file /\ inHand' = inHand
           /\ \/ chClosed /\ ch' = ch /\ dropped' = dropped /\ sending' = sending
              \/ /\ ~chClosed /\ Len(ch) < Cap /\ sending' = FALSE
                 /\ ch' = Append(ch, taken) /\ dropped' = dropped
              \/ /\ ~chClosed /\ Len(ch) = Cap /\ sending' = FALSE
                 /\ ch' = ch /\ dropped' = dropped + 1
  BY Zenon DEF Send

\* Every step keeps the types; Send appends only when there is room.
LEMMA StepTypeOK == IInv /\ [RecNext]_recVars => RecTypeOK'
  <1> SUFFICES ASSUME IInv, [RecNext]_recVars PROVE RecTypeOK'
      OBVIOUS
  <1> USE RecorderAssumption DEF IInv, RecTypeOK
  <1>1. CASE Receiver
        BY <1>1 DEF Receiver, ReceiverCloses, ReceiverDone
  <1>2. CASE PlayTick
        BY <1>2 DEF PlayTick, Take
  <1>3. CASE FlushTick \/ FlushFrame \/ FlushEnds
        BY <1>3 DEF FlushTick, FlushFrame, FlushEnds, Take
  <1>4. CASE Send
    <2>1. Append(ch, taken) \in Seq(Nat) /\ Len(Append(ch, taken)) = Len(ch) + 1
          BY AppendProperties
    <2>2. ch' \in Seq(Nat) /\ Len(ch') <= Cap
      <3>1. ch' = ch \/ (Len(ch) < Cap /\ ch' = Append(ch, taken))
            BY <1>4, SendShape, Zenon
      <3>2. Len(ch) \in Nat
            BY LenProperties
      <3>3. CASE ch' = ch
            BY <3>3
      <3>4. CASE Len(ch) < Cap /\ ch' = Append(ch, taken)
            BY ONLY <2>1, <3>2, <3>4, RecorderAssumption
      <3> QED
          BY <3>1, <3>3, <3>4
    <2>3. sending' \in BOOLEAN /\ panicked' \in BOOLEAN
          BY <1>4, Zenon DEF Send
    <2>4. dropped' \in Nat
      <3>1. dropped' = dropped \/ dropped' = dropped + 1
            BY <1>4, SendShape, Zenon
      <3> QED
          BY <3>1
    <2> QED
        BY <1>4, <2>2, <2>3, <2>4 DEF Send
  <1>5. CASE WriterTakes
    <2>1. Head(ch) \in Nat /\ Tail(ch) \in Seq(Nat) /\ Len(Tail(ch)) = Len(ch) - 1
          BY <1>5, HeadTailProperties DEF WriterTakes
    <2> QED
        BY <1>5, <2>1 DEF WriterTakes
  <1>6. CASE WriterWrites
    <2>1. Append(file, inHand) \in Seq(Nat)
          BY AppendProperties
    <2> QED
        BY <1>6, <2>1 DEF WriterWrites
  <1>7. CASE WriterEnds
        BY <1>7 DEF WriterEnds
  <1>8. CASE Finalizer
        BY <1>8 DEF Finalizer, Advance, WaitWorkers, TakeBytes, CloseChannel, CloseFile
  <1>9. CASE UNCHANGED recVars
        BY <1>9 DEF recVars
  <1> QED
      BY <1>1, <1>2, <1>3, <1>4, <1>5, <1>6, <1>7, <1>8, <1>9 DEF RecNext, Flushing, Writer

-----------------------------------------------------------------------------
\* A frame that the writer takes has a number above 0, so that inHand tells
\* whether it holds one.
LEMMA HeadIsNumbered ==
    ASSUME IInv, ch # << >>, inHand = 0
    PROVE  Head(ch) \in Nat \ {0}
  <1>1. Sent = file \o ch
        BY ConcatEmptySeq DEF Sent, Hand, IInv, RecTypeOK
  <1>2. /\ Len(ch) \in Nat \ {0} /\ Len(file) \in Nat
        /\ Len(Sent) = Len(file) + Len(ch)
        /\ Sent[Len(file) + 1] = ch[1]
        BY <1>1, ConcatProperties, EmptySeq, LenProperties DEF IInv, RecTypeOK
  <1>3. Sent[Len(file) + 1] \in 1 .. taken
        BY <1>2 DEF IInv, Numbered
  <1>4. Head(ch) = ch[1]
        OBVIOUS
  <1> QED
      BY <1>2, <1>3, <1>4 DEF IInv, RecTypeOK

\* Every step keeps what relates finalizer, channel and writer.
LEMMA StepChannel == IInv /\ [RecNext]_recVars => Channel'
  <1> SUFFICES ASSUME IInv, [RecNext]_recVars PROVE Channel'
      OBVIOUS
  <1> USE DEF Channel
  <1>1. Channel /\ RecTypeOK
        BY DEF IInv
  <1>2. CASE Receiver
        BY <1>1, <1>2 DEF Receiver, ReceiverCloses, ReceiverDone
  <1>3. CASE PlayTick \/ FlushTick \/ FlushFrame \/ FlushEnds
        BY <1>1, <1>3 DEF PlayTick, FlushTick, FlushFrame, FlushEnds, Take
  <1>4. CASE Send
        BY <1>1, <1>4 DEF Send
  <1>5. CASE WriterTakes
    <2>1. inHand = 0
          BY <1>1, <1>5 DEF WriterTakes
    <2>2. inHand' # 0
          BY <1>5, <2>1, HeadIsNumbered DEF WriterTakes
    <2> QED
        BY <1>1, <1>5, <2>2 DEF WriterTakes
  <1>6. CASE WriterWrites \/ WriterEnds
        BY <1>1, <1>6 DEF WriterWrites, WriterEnds
  <1>7. CASE Finalizer
        BY <1>1, <1>7 DEF Finalizer, Advance, WaitWorkers, TakeBytes, CloseChannel, CloseFile, RecTypeOK
  <1>8. CASE UNCHANGED recVars
        BY <1>1, <1>8 DEF recVars
  <1> QED
      BY <1>2, <1>3, <1>4, <1>5, <1>6, <1>7, <1>8 DEF RecNext, Flushing, Writer

\* Every step keeps the frames sent in the order of Write.
LEMMA StepOrdered == IInv /\ [RecNext]_recVars => Ordered'
  <1> SUFFICES ASSUME IInv, [RecNext]_recVars PROVE Ordered'
      OBVIOUS
  <1> USE DEF IInv, Ordered, SnapshotCoversPlayed, RecTypeOK
  <1>1. CASE Receiver
        BY <1>1 DEF Receiver, ReceiverCloses, ReceiverDone
  <1>2. CASE PlayTick \/ FlushTick \/ FlushFrame \/ FlushEnds
        BY <1>2 DEF PlayTick, FlushTick, FlushFrame, FlushEnds, Take
  <1>3. CASE Send
        BY <1>3 DEF Send
  <1>4. CASE Writer
        BY <1>4 DEF Writer, WriterTakes, WriterWrites, WriterEnds
  <1>5. CASE Finalizer
        BY <1>5 DEF Finalizer, Advance, WaitWorkers, TakeBytes, CloseChannel, CloseFile
  <1>6. CASE UNCHANGED recVars
        BY <1>6 DEF recVars
  <1> QED
      BY <1>1, <1>2, <1>3, <1>4, <1>5, <1>6 DEF RecNext, Flushing

-----------------------------------------------------------------------------
\* Lengths and types of the sequence of sent frames.
LEMMA SentType ==
    ASSUME RecTypeOK
    PROVE  /\ Hand \in Seq(Nat) /\ Sent \in Seq(Nat)
           /\ file \in Seq(Nat) /\ ch \in Seq(Nat)
  <1>1. file \in Seq(Nat) /\ ch \in Seq(Nat) /\ inHand \in Nat
        BY DEF RecTypeOK
  <1>2. Hand \in Seq(Nat)
        BY <1>1 DEF Hand
  <1>3. file \o Hand \in Seq(Nat)
        BY <1>1, <1>2, ConcatProperties
  <1> QED
      BY <1>1, <1>2, <1>3, ConcatProperties DEF Sent

\* Concatenation is associative on frame numbers.
LEMMA Regroup == \A s, t, u \in Seq(Nat) : (s \o t) \o u = s \o (t \o u)
  <1> SUFFICES ASSUME NEW s \in Seq(Nat), NEW t \in Seq(Nat), NEW u \in Seq(Nat)
               PROVE  (s \o t) \o u = s \o (t \o u)
      OBVIOUS
  <1> QED
      BY ConcatAssociative, SMTT(60)

\* A sequence that is not empty is its head in front of its tail.
LEMMA HeadThenTail ==
    ASSUME NEW s \in Seq(Nat), s # << >>
    PROVE  s = <<Head(s)>> \o Tail(s)
  <1>1. /\ Head(s) \in Nat /\ Tail(s) \in Seq(Nat) /\ Len(Tail(s)) = Len(s) - 1
        /\ \A i \in 1 .. Len(Tail(s)) : Tail(s)[i] = s[i + 1]
        BY HeadTailProperties
  <1>2. Len(s) \in Nat \ {0} /\ Head(s) = s[1]
        BY EmptySeq
  <1>3. <<Head(s)>> \in Seq(Nat) /\ Len(<<Head(s)>>) = 1 /\ <<Head(s)>>[1] = s[1]
        BY <1>1, <1>2
  <1> DEFINE t == <<Head(s)>> \o Tail(s)
  <1>4. /\ t \in Seq(Nat) /\ Len(t) = Len(s)
        /\ \A i \in 1 .. Len(s) :
              t[i] = IF i <= 1 THEN <<Head(s)>>[i] ELSE Tail(s)[i - 1]
        BY <1>1, <1>2, <1>3, ConcatProperties
  <1>5. \A i \in 1 .. Len(s) : t[i] = s[i]
        BY <1>1, <1>2, <1>3, <1>4
  <1> QED
      BY <1>4, <1>5, SeqEqual

\* What a step does to the sent frames and to the counts: nothing, a frame is
\* taken, one is dropped, or the one being sent is appended.
LEMMA SentStep ==
    ASSUME IInv, [RecNext]_recVars
    PROVE  /\ onDisk' = onDisk
           /\ \/ Sent' = Sent /\ taken' = taken /\ dropped' = dropped /\ sending' = sending
              \/ Sent' = Sent /\ taken' = taken + 1 /\ dropped' = dropped /\ ~sending
                 /\ sending' = onDisk
              \/ Sent' = Sent /\ taken' = taken /\ dropped' = dropped + 1 /\ sending /\ ~sending'
              \/ Sent' = Append(Sent, taken) /\ taken' = taken /\ dropped' = dropped
                 /\ sending /\ ~sending'
  <1> USE DEF IInv
  <1>0. /\ Hand \in Seq(Nat) /\ Sent \in Seq(Nat) /\ file \in Seq(Nat) /\ ch \in Seq(Nat)
        /\ file \o Hand \in Seq(Nat)
        BY SentType, ConcatProperties
  <1>1. CASE /\ UNCHANGED <<file, inHand, ch, taken, dropped, sending, onDisk>>
        BY <1>1, Zenon DEF Sent, Hand
  <1>2. CASE PlayTick \/ FlushFrame
        BY <1>2, Zenon DEF Sent, Hand, PlayTick, FlushFrame, Take
  <1>3. CASE Send
    <2>1. taken' = taken /\ sending /\ onDisk' = onDisk
          BY <1>3, Zenon DEF Send
    <2>2. CASE chClosed /\ ch' = ch /\ dropped' = dropped /\ sending' = sending
          BY <1>3, <2>1, <2>2, SendShape, Zenon DEF Sent, Hand
    <2>3. CASE sending' = FALSE /\ ch' = ch /\ dropped' = dropped + 1
          BY <1>3, <2>1, <2>3, SendShape, Zenon DEF Sent, Hand
    <2>4. CASE sending' = FALSE /\ ch' = Append(ch, taken) /\ dropped' = dropped
      <3>1. taken \in Nat /\ <<taken>> \in Seq(Nat)
            BY DEF RecTypeOK
      <3>2. Sent' = (file \o Hand) \o Append(ch, taken)
            BY <1>3, <2>4, SendShape, Zenon DEF Sent, Hand
      <3>3. Append(ch, taken) = ch \o <<taken>>
            BY <1>0, <3>1, AppendIsConcat
      <3>4. (file \o Hand) \o (ch \o <<taken>>) = ((file \o Hand) \o ch) \o <<taken>>
            BY ONLY <1>0, <3>1, Regroup, SMTT(60)
      <3>5. Append(Sent, taken) = Sent \o <<taken>>
            BY <1>0, <3>1, AppendIsConcat
      <3>6. Sent' = Append(Sent, taken)
            BY <3>2, <3>3, <3>4, <3>5 DEF Sent
      <3> QED
          BY <2>1, <2>4, <3>6, Zenon
    <2> QED
        BY <1>3, <2>2, <2>3, <2>4, SendShape, Zenon
  <1>4. CASE WriterTakes
    <2>1. /\ ch # << >> /\ inHand = 0
          /\ file' = file /\ inHand' = Head(ch) /\ ch' = Tail(ch)
          BY <1>4 DEF WriterTakes, Channel
    <2>2. Head(ch) \in Nat \ {0}
          BY <2>1, HeadIsNumbered
    <2>3. Hand = << >> /\ Hand' = <<Head(ch)>>
          BY <2>1, <2>2 DEF Hand
    <2>4. <<Head(ch)>> \in Seq(Nat) /\ Tail(ch) \in Seq(Nat)
          BY <1>0, <2>1, <2>2, HeadTailProperties
    <2>5. Sent' = (file \o <<Head(ch)>>) \o Tail(ch)
          BY <2>1, <2>3 DEF Sent
    <2>6. @ = file \o (<<Head(ch)>> \o Tail(ch))
          BY ONLY <1>0, <2>4, Regroup, SMTT(60)
    <2>7. @ = file \o ch
          BY <1>0, <2>1, HeadThenTail
    <2>8. @ = Sent
          BY <1>0, <2>3, ConcatEmptySeq DEF Sent
    <2> QED
        BY <1>4, <2>5, <2>6, <2>7, <2>8, Zenon DEF WriterTakes
  <1>5. CASE WriterWrites
    <2>1. /\ inHand # 0 /\ inHand \in Nat
          /\ file' = Append(file, inHand) /\ inHand' = 0 /\ ch' = ch
          BY <1>5 DEF WriterWrites, Channel, RecTypeOK
    <2>2. Hand = <<inHand>> /\ Hand' = << >>
          BY <2>1 DEF Hand
    <2>3. Append(file, inHand) = file \o Hand
          BY <1>0, <2>1, <2>2, AppendIsConcat
    <2>4. Sent' = ((file \o Hand) \o << >>) \o ch
          BY <2>1, <2>2, <2>3 DEF Sent
    <2>5. (file \o Hand) \o << >> = file \o Hand
          BY <1>0, ConcatEmptySeq
    <2>6. Sent' = Sent
          BY <2>4, <2>5 DEF Sent
    <2> QED
        BY <1>5, <2>6, Zenon DEF WriterWrites
  <1>6. CASE FlushTick \/ FlushEnds \/ Receiver \/ WriterEnds \/ Finalizer \/ UNCHANGED recVars
        BY <1>1, <1>6, Zenon
        DEF recVars, Receiver, ReceiverCloses, ReceiverDone, FlushTick, FlushEnds, WriterEnds,
            Finalizer, WaitWorkers, TakeBytes, CloseChannel, CloseFile
  <1> QED
      BY <1>2, <1>3, <1>4, <1>5, <1>6, Zenon DEF RecNext, Flushing, Writer

\* The number of sent frames, and the frame that was sent last.
LEMMA SentGrows ==
    ASSUME RecTypeOK
    PROVE  /\ Len(Sent) \in Nat /\ taken \in Nat
           /\ Len(Append(Sent, taken)) = Len(Sent) + 1
           /\ \A i \in 1 .. Len(Sent) : Append(Sent, taken)[i] = Sent[i]
           /\ Append(Sent, taken)[Len(Sent) + 1] = taken
  <1>1. Sent \in Seq(Nat) /\ taken \in Nat
        BY SentType DEF RecTypeOK
  <1>2. /\ Len(Append(Sent, taken)) = Len(Sent) + 1
        /\ \A i \in 1 .. Len(Sent) : Append(Sent, taken)[i] = Sent[i]
        /\ Append(Sent, taken)[Len(Sent) + 1] = taken
        BY ONLY <1>1, AppendProperties
  <1> QED
      BY <1>1, <1>2, LenProperties

\* Numbers go up: a frame is sent after it is taken and before the next.
LEMMA StepNumbered == IInv /\ [RecNext]_recVars => Numbered'
  <1> SUFFICES ASSUME IInv, [RecNext]_recVars PROVE Numbered'
      OBVIOUS
  <1>1. /\ Numbered /\ RecTypeOK
        /\ Len(Sent) \in Nat /\ taken \in Nat
        BY SentGrows DEF IInv
  <1>2. CASE Sent' = Append(Sent, taken) /\ taken' = taken /\ sending /\ ~sending'
    <2>1. /\ Len(Sent') = Len(Sent) + 1
          /\ \A i \in 1 .. Len(Sent) : Sent'[i] = Sent[i]
          /\ Sent'[Len(Sent) + 1] = taken
          BY <1>1, <1>2, SentGrows
    <2>2. \A i \in 1 .. Len(Sent') : Sent'[i] \in 1 .. taken
      <3>1. \A i \in 1 .. Len(Sent) : Sent[i] \in 1 .. taken
            BY <1>1 DEF Numbered
      <3>2. taken # 0
            BY <1>1, <1>2 DEF IInv, FramesAccounted, Channel, RecTypeOK
      <3> QED
          BY <1>1, <2>1, <3>1, <3>2
    <2> QED
        BY <1>1, <1>2, <2>2 DEF Numbered
  <1>3. CASE Sent' = Sent /\ taken' = taken + 1
        BY <1>1, <1>3 DEF Numbered
  <1>4. CASE Sent' = Sent /\ taken' = taken /\ (sending' => sending)
        BY <1>1, <1>4 DEF Numbered
  <1> QED
      BY <1>2, <1>3, <1>4, SentStep, Zenon

\* No frame is lost without being counted, and none overtakes another.
LEMMA StepAccounted == IInv /\ [RecNext]_recVars => FramesAccounted'
  <1> SUFFICES ASSUME IInv, [RecNext]_recVars, onDisk'
               PROVE  /\ taken' = Len(Sent') + dropped' + (IF sending' THEN 1 ELSE 0)
                      /\ \A m, n \in 1 .. Len(Sent') : m < n => Sent'[m] < Sent'[n]
      BY DEF FramesAccounted
  <1>1. /\ Numbered /\ RecTypeOK /\ FramesAccounted /\ onDisk
        /\ Len(Sent) \in Nat /\ taken \in Nat /\ dropped \in Nat
        BY SentGrows, SentStep DEF IInv, RecTypeOK
  <1>2. /\ taken = Len(Sent) + dropped + (IF sending THEN 1 ELSE 0)
        /\ \A m, n \in 1 .. Len(Sent) : m < n => Sent[m] < Sent[n]
        BY <1>1 DEF FramesAccounted
  <1>3. CASE Sent' = Append(Sent, taken) /\ taken' = taken /\ dropped' = dropped
             /\ sending /\ ~sending'
    <2>1. taken' = Len(Sent') + dropped' + (IF sending' THEN 1 ELSE 0)
          BY <1>1, <1>2, <1>3, SentGrows
    <2>2. \A i \in 1 .. Len(Sent) : Sent[i] \in 1 .. taken /\ Sent[i] < taken
          BY <1>1, <1>3 DEF Numbered
    <2>3. \A m, n \in 1 .. Len(Sent') : m < n => Sent'[m] < Sent'[n]
      <3>1. /\ Len(Sent') = Len(Sent) + 1
            /\ \A i \in 1 .. Len(Sent) : Sent'[i] = Sent[i]
            /\ Sent'[Len(Sent) + 1] = taken
            BY <1>1, <1>3, SentGrows
      <3>2. SUFFICES ASSUME NEW m \in 1 .. Len(Sent'), NEW n \in 1 .. Len(Sent'), m < n
                     PROVE  Sent'[m] < Sent'[n]
            OBVIOUS
      <3>3. CASE n \in 1 .. Len(Sent)
            BY <1>1, <1>2, <3>1, <3>2, <3>3
      <3>4. CASE n = Len(Sent) + 1
            BY <1>1, <2>2, <3>1, <3>2, <3>4
      <3> QED
          BY <1>1, <3>1, <3>2, <3>3, <3>4
    <2> QED
        BY <2>1, <2>3
  <1>4. CASE Sent' = Sent /\ taken' = taken + 1 /\ dropped' = dropped /\ ~sending /\ sending'
        BY <1>1, <1>2, <1>4
  <1>5. CASE Sent' = Sent /\ taken' = taken /\ dropped' = dropped + 1 /\ sending /\ ~sending'
        BY <1>1, <1>2, <1>5
  <1>6. CASE Sent' = Sent /\ taken' = taken /\ dropped' = dropped /\ sending' = sending
        BY <1>2, <1>6, Zenon
  <1> QED
      BY <1>1, <1>3, <1>4, <1>5, <1>6, SentStep, Zenon

-----------------------------------------------------------------------------
\* The inductive invariant holds in every reachable state.
LEMMA Inductive == RecSpec => []IInv
  <1>1. IInv /\ [RecNext]_recVars => IInv'
        BY StepTypeOK, StepChannel, StepNumbered, StepOrdered, StepAccounted DEF IInv
  <1> QED
      BY InitIInv, <1>1, PTL DEF RecSpec

\* The variables keep their types and writeCh never holds more than its
\* capacity (recorder.go: Write).
THEOREM TypeCorrect == RecSpec => []RecTypeOK
  <1>1. IInv => RecTypeOK
        BY DEF IInv
  <1> QED
      BY Inductive, <1>1, PTL

\* DroppedFrames is exact and frames reach the disk in order, for a channel of
\* any capacity and a call of any length (recorder.go: Write, fileWriter).
THEOREM Accounted == RecSpec => []FramesAccounted
  <1>1. IInv => FramesAccounted
        BY DEF IInv
  <1> QED
      BY Inductive, <1>1, PTL

\* The file that Close closed is complete (recorder.go: Close).
THEOREM CompleteFile == RecSpec => []Drained
  <1>1. IInv => Drained
        BY DEF IInv, Channel, Drained
  <1> QED
      BY Inductive, <1>1, PTL

\* The silence ratio covers what was played before the jitter buffer was
\* closed (handle.go: startFinalize).
THEOREM Snapshot == RecSpec => []SnapshotCoversPlayed
  <1>1. IInv => SnapshotCoversPlayed
        BY DEF IInv, Ordered
  <1> QED
      BY Inductive, <1>1, PTL

-----------------------------------------------------------------------------
(* The invariant of the receive path (ReceivePath).                        *)

USE DEF histVars

\* A reader that has read a packet holds one of the stream, audio goes to the
\* jitter buffer and events to the collector, and the jitter buffer is closed
\* after its receiver has left.
Loops ==
    /\ \A r \in Readers : pc[r] \in {"count", "push", "accept"} => pkt[r] \in Stream
    /\ pc["receive"] = "push" => pkt["receive"] \in Audio
    /\ pc["receive"] = "accept" => /\ pkt["receive"] \notin Audio
                                   /\ pkt["receive"] \in seen["receive"]
    /\ jbClosed => pc["receive"] = "gone"
    /\ ~registered => jbClosed

\* The states of a jitter buffer: a map from numbers to audio packets.
Maps == UNION {[K -> Audio] : K \in SUBSET JB!SeqNums}
Buffers == [packets : Maps, nextSeq : JB!SeqNums, started : BOOLEAN, delayExpired : BOOLEAN]

\* Each packet is held under its own number, and nextSeq is that of the head.
Filed ==
    /\ jb \in Buffers
    /\ \A s \in DOMAIN jb.packets : s = Number(jb.packets[s])
    /\ ~jb.started => DOMAIN jb.packets = {} /\ due = {} /\ recorded = << >> /\ head = 0
    /\ jb.started => head >= 1 /\ jb.nextSeq = Number(head)

\* What is held is at the head or after it and no wrap lies between, and the
\* turns that have been played are before the head, strays apart.
AroundHead ==
    /\ \A s \in DOMAIN jb.packets :
          \/ jb.packets[s] \in strays
          \/ head <= jb.packets[s] /\ Lap(head) = Lap(jb.packets[s])
    /\ registered => \A n \in DOMAIN recorded :
                         Placed(recorded[n].turn) => recorded[n].turn < head

\* While no packet overtakes another, the statistics are those of the part of
\* the stream from the first packet counted to the last one.
Counted(f, l) ==
    /\ f \in Seen /\ l \in Seen
    /\ \A j \in Seen : f <= j /\ j <= l
    /\ stats.initialized
    /\ stats.lost = (l - f + 1) - Cardinality(Seen)
    /\ stats.highest = Number(f) + (l - f)
    /\ stats.lastSeq = Number(l)
    /\ stats.highest = stats.rollover * Wrap + stats.lastSeq

Statistics ==
    /\ Seen = {} => stats = ST!NewStats
    /\ ordered /\ Seen # {} => \E f, l \in Seen : Counted(f, l)

\* What has arrived is counted or in the hands of a reader that is about to
\* count it.  A packet is at most Horizon + 1 places ahead of what had arrived
\* when it was read: twice that ahead of the packets counted, if the other
\* reader has not counted one by then.
Held(r) == pc[r] = "count"
InReach ==
    /\ \A i \in Arrived : i \in Seen \/ \E r \in Readers : Held(r) /\ pkt[r] = i
    /\ \A r \in Readers : Held(r) =>
          /\ \E j \in Seen \union {0} : pkt[r] <= j + 2 * (Horizon + 1)
          /\ \/ \E j \in Seen \union {0} : pkt[r] <= j + (Horizon + 1)
             \/ \E q \in Readers \ {r} : Held(q) /\ pkt[r] <= pkt[q] + (Horizon + 1)

\* The last key press taken is the last of keys.
LastOf(keys) ==
    IF keys = {} THEN ~coll.seeded
    ELSE /\ coll.seeded /\ coll.lastTS \in keys /\ coll.lastEvt = Digit[coll.lastTS]
         /\ \A k \in keys : k <= coll.lastTS

\* While no packet overtakes another, the collector has the digits of the key
\* presses heard, and remembers the last one.
Taken ==
    ordered /\ Expected # << >> =>
        /\ pc["receive"] = "accept" => \A j \in seen["receive"] : j <= pkt["receive"]
        /\ \E keys \in {Heard, Heard \union Waiting} : InOrder(keys, coll.digits) /\ LastOf(keys)

\* There is one pass over the digits, and it ends behind as many expected
\* digits as can be found among them.
Greedy(digits) ==
    \E ei \in [0 .. Len(digits) -> 1 .. Len(Expected) + 1] :
        /\ DTMF!Pass(ei, digits, Expected)
        /\ \A fi \in [0 .. Len(digits) -> 1 .. Len(Expected) + 1] :
              DTMF!Pass(fi, digits, Expected) => fi = ei
        /\ \A m \in 0 .. Len(Expected) : Contain(digits, m) <=> m < ei[Len(digits)]

ReceiveInv ==
    /\ ReceiveTypeOK /\ Loops /\ Filed /\ AroundHead
    /\ InStreamOrder /\ OnTimeIsRecorded /\ InReach /\ Statistics
    /\ Taken /\ Greedy(coll.digits)

-----------------------------------------------------------------------------
(* Numbers.                                                                *)

\* A remainder, one turn below to one above.
LEMMA Turn ==
    ASSUME NEW w \in Nat \ {0}, NEW x \in Int, -w <= x, x < 2 * w
    PROVE  x % w = IF x < 0 THEN x + w ELSE IF x < w THEN x ELSE x - w
  <1> DEFINE q == x \div w  r == x % w
  <1>1. q \in Int /\ r \in 0 .. w - 1 /\ x = w * q + r
    <2>1. w > 0
          OBVIOUS
    <2> QED BY <2>1, Z3
  <1> HIDE DEF q
  <1>2. q = -1 \/ q = 0 \/ q = 1
    <2>1. ~(q >= 2)
      <3>1. q >= 2 => w * q >= 2 * w
            BY <1>1, Z3
      <3> QED BY <1>1, <3>1
    <2>2. ~(q <= -2)
      <3>1. q <= -2 => w * q <= -(2 * w)
            BY <1>1, Z3
      <3> QED BY <1>1, <3>1
    <2> QED BY <1>1, <2>1, <2>2
  <1>3. CASE q = -1
    <2>1. w * q = -w
          BY <1>3
    <2> QED BY <1>1, <2>1
  <1>4. CASE q = 0
    <2>1. w * q = 0
          BY <1>4
    <2> QED BY <1>1, <2>1
  <1>5. CASE q = 1
    <2>1. w * q = w
          BY <1>5
    <2> QED BY <1>1, <2>1
  <1> QED BY <1>2, <1>3, <1>4, <1>5

\* Counting on from a remainder.
LEMMA CountOn ==
    ASSUME NEW w \in Nat \ {0}, NEW x \in Int
    PROVE  ((x % w) + 1) % w = (x + 1) % w
  <1> DEFINE q == x \div w  r == x % w  p == (x + 1) \div w  t == (x + 1) % w
  <1>1. /\ q \in Int /\ r \in 0 .. w - 1 /\ x = w * q + r
        /\ p \in Int /\ t \in 0 .. w - 1 /\ x + 1 = w * p + t
    <2>1. w > 0 /\ x + 1 \in Int
          OBVIOUS
    <2> QED BY <2>1, Z3
  <1> HIDE DEF q, r, p, t
  <1>2. (r + 1) % w = IF r + 1 < w THEN r + 1 ELSE r + 1 - w
    <2> DEFINE y == r + 1
    <2>1. y \in Int /\ -w <= y /\ y < 2 * w /\ ~(y < 0)
          BY <1>1
    <2> HIDE DEF y
    <2>2. y % w = IF y < w THEN y ELSE y - w
          BY <2>1, Turn
    <2>3. y = r + 1 /\ (r + 1) % w = y % w
          BY DEF y
    <2> QED BY <1>1, <2>1, <2>2, <2>3
  <1>3. w * (p - q) = r + 1 - t
    <2>1. w * (p - q) = w * p - w * q
          BY <1>1
    <2>2. w * p \in Int /\ w * q \in Int
          BY <1>1
    <2> QED BY <1>1, <2>1, <2>2
  <1>4. p - q = 0 \/ p - q = 1
    <2> DEFINE d == p - q
    <2>1. d \in Int /\ w * d \in Int /\ w * d = r + 1 - t
          BY <1>1, <1>3
    <2> HIDE DEF d
    <2>2. ~(d >= 2)
      <3>1. d >= 2 => w * d >= 2 * w
            BY <2>1, Z3
      <3> QED BY <1>1, <2>1, <3>1
    <2>3. ~(d <= -1)
      <3>1. d <= -1 => w * d <= -w
            BY <2>1, Z3
      <3> QED BY <1>1, <2>1, <3>1
    <2>4. d = 0 \/ d = 1
          BY <2>1, <2>2, <2>3
    <2> QED BY <2>4 DEF d
  <1>5. CASE p - q = 0
    <2>1. r + 1 - t = 0
          BY <1>3, <1>5
    <2>2. t = r + 1
          BY <1>1, <2>1
    <2> QED BY <1>1, <1>2, <2>2 DEF r, t
  <1>6. CASE p - q = 1
    <2>1. r + 1 - t = w
          BY <1>3, <1>6
    <2>2. t = 0 /\ r + 1 = w
          BY <1>1, <2>1
    <2> QED BY <1>1, <1>2, <2>2 DEF r, t
  <1> QED BY <1>4, <1>5, <1>6

\* A remainder and the one g further on.
LEMMA Ahead ==
    ASSUME NEW w \in Nat \ {0}, NEW x \in Int, NEW g \in Nat, g < w
    PROVE  \/ (x + g) % w = (x % w) + g
           \/ (x + g) % w = (x % w) + g - w
  <1> DEFINE q == x \div w  r == x % w  p == (x + g) \div w  t == (x + g) % w
  <1>1. /\ q \in Int /\ r \in 0 .. w - 1 /\ x = w * q + r
        /\ p \in Int /\ t \in 0 .. w - 1 /\ x + g = w * p + t
    <2>1. w > 0 /\ x + g \in Int
          OBVIOUS
    <2> QED BY <2>1, Z3
  <1> HIDE DEF q, r, p, t
  <1>2. w * (p - q) = r + g - t
    <2>1. w * (p - q) = w * p - w * q
          BY <1>1
    <2>2. w * p \in Int /\ w * q \in Int
          BY <1>1
    <2> QED BY <1>1, <2>1, <2>2
  <1>3. p - q = 0 \/ p - q = 1
    <2> DEFINE d == p - q
    <2>1. d \in Int /\ w * d \in Int /\ w * d = r + g - t
          BY <1>1, <1>2
    <2> HIDE DEF d
    <2>2. ~(d >= 2)
      <3>1. d >= 2 => w * d >= 2 * w
            BY <2>1, Z3
      <3> QED BY <1>1, <2>1, <3>1
    <2>3. ~(d <= -1)
      <3>1. d <= -1 => w * d <= -w
            BY <2>1, Z3
      <3> QED BY <1>1, <2>1, <3>1
    <2>4. d = 0 \/ d = 1
          BY <2>1, <2>2, <2>3
    <2> QED BY <2>4 DEF d
  <1>4. CASE p - q = 0
    <2>1. r + g - t = 0
          BY <1>2, <1>4
    <2>2. t = r + g
          BY <1>1, <2>1
    <2> QED BY <2>2 DEF r, t
  <1>5. CASE p - q = 1
    <2>1. r + g - t = w
          BY <1>2, <1>5
    <2>2. t = r + g - w
          BY <1>1, <2>1
    <2> QED BY <2>2 DEF r, t
  <1> QED BY <1>3, <1>4, <1>5

\* Sizes of the constants.
LEMMA Sizes == /\ Wrap \in Nat \ {0} /\ Half \in Nat /\ Slack \in Nat
               /\ Wrap = 2 * Half /\ Wrap >= 4 /\ 0 < Slack /\ Slack < Half
               /\ Horizon \in Nat /\ 2 * (Horizon + 1) < Half
  BY ReceiveAssumption

\* The stream ends before its extended sequence numbers do.
LEMMA StreamSize ==
    ASSUME ReceiveTypeOK
    PROVE  /\ N \in Nat /\ N <= Wrap * (Wrap - 1) /\ Stream = 1 .. N
           /\ start \in Nat /\ start < Wrap
           /\ Audio \subseteq Stream
  BY ReceiveAssumption DEF ReceiveTypeOK, Stream, N, Audio

\* The number of a packet of the stream.
LEMMA NumberIs ==
    ASSUME ReceiveTypeOK, NEW i \in Stream
    PROVE  Number(i) \in JB!SeqNums
  <1> DEFINE x == start + i - 1
  <1>1. x \in Int
        BY StreamSize
  <1> HIDE DEF x
  <1>2. x % Wrap \in JB!SeqNums
        BY <1>1, Sizes DEF JB!SeqNums
  <1> QED BY <1>2 DEF x, Number

\* Any place has a number, and the next place has the next one.
LEMMA NextNumber ==
    ASSUME ReceiveTypeOK, NEW h \in Nat
    PROVE  Number(h) \in JB!SeqNums /\ (Number(h) + 1) % Wrap = Number(h + 1)
  <1> DEFINE x == start + h - 1
  <1>1. x \in Int /\ start + (h + 1) - 1 = x + 1
        BY StreamSize
  <1> HIDE DEF x
  <1>2. ((x % Wrap) + 1) % Wrap = (x + 1) % Wrap
        BY <1>1, CountOn, Sizes
  <1>3. x % Wrap \in JB!SeqNums
        BY <1>1, Sizes DEF JB!SeqNums
  <1> QED BY <1>1, <1>2, <1>3 DEF x, Number

\* A place is its lap and its number.
LEMMA Laps ==
    ASSUME ReceiveTypeOK, NEW h \in Nat
    PROVE  /\ Lap(h) \in Int /\ Number(h) \in Nat /\ Number(h) < Wrap
           /\ start + h - 1 = Wrap * Lap(h) + Number(h)
  <1> DEFINE x == start + h - 1
  <1>1. x \in Int /\ Wrap \in Nat /\ Wrap > 0
        BY StreamSize, Sizes
  <1> HIDE DEF x
  <1>2. /\ x \div Wrap \in Int /\ x % Wrap \in 0 .. Wrap - 1
        /\ x = Wrap * (x \div Wrap) + (x % Wrap)
        BY <1>1, Z3
  <1>3. Lap(h) = x \div Wrap /\ Number(h) = x % Wrap
        BY DEF Lap, Number, x
  <1> QED BY <1>1, <1>2, <1>3 DEF x

\* In one lap, the numbers are as far apart as the places, and no wrap apart.
LEMMA SameLap ==
    ASSUME ReceiveTypeOK, NEW h \in Nat, NEW k \in Nat, Lap(h) = Lap(k)
    PROVE  Number(k) - Number(h) = k - h /\ k - h < Wrap
  <1> DEFINE q == Wrap * Lap(h)
  <1>0. /\ Lap(h) \in Int /\ Number(h) \in Nat /\ Number(k) \in Nat /\ start \in Nat
        /\ Number(k) < Wrap /\ Wrap \in Nat
        BY Laps, Sizes, StreamSize
  <1>1. /\ q \in Int /\ Number(h) \in Nat /\ Number(k) \in Nat /\ start \in Nat
        /\ Number(k) < Wrap /\ Wrap \in Nat
        BY <1>0
  <1>2. start + h - 1 = q + Number(h) /\ start + k - 1 = q + Number(k)
        BY Laps
  <1> HIDE DEF q
  <1> DEFINE a == Number(h)  b == Number(k)
  <1>3. a \in Nat /\ b \in Nat /\ b < Wrap /\ start + h - 1 = q + a /\ start + k - 1 = q + b
        BY <1>1, <1>2
  <1> HIDE DEF a, b
  <1>4. b - a = k - h /\ k - h < Wrap
        BY <1>1, <1>3
  <1> QED BY <1>4 DEF a, b

\* Laps follow one another.
LEMMA LapsAscend ==
    ASSUME ReceiveTypeOK, NEW h \in Nat, NEW k \in Nat, h <= k
    PROVE  Lap(h) <= Lap(k)
  <1> DEFINE d == Lap(h) - Lap(k)  p == Wrap * Lap(h)  q == Wrap * Lap(k)
             a == Number(h)  b == Number(k)
  <1>1. /\ Lap(h) \in Int /\ Lap(k) \in Int /\ start \in Nat /\ Wrap \in Nat
        /\ a \in Nat /\ b \in Nat /\ b < Wrap
        /\ start + h - 1 = p + a /\ start + k - 1 = q + b
        BY Laps, Sizes, StreamSize
  <1>2. d \in Int /\ p \in Int /\ q \in Int /\ Wrap * d = p - q
        BY <1>1
  <1>3. d >= 1 => Lap(h) > Lap(k)
        BY <1>1
  <1>4. ~(d >= 1) => Lap(h) <= Lap(k)
        BY <1>1
  <1> HIDE DEF d, p, q, a, b
  <1>5. d >= 1 => Wrap * d >= Wrap
        BY <1>1, <1>2, Z3
  <1>6. ~(d >= 1)
        BY <1>1, <1>2, <1>5
  <1> QED BY <1>4, <1>6

-----------------------------------------------------------------------------
(* The jitter buffer.                                                      *)

\* The stream does not change.
LEMMA SameStream ==
    ASSUME UNCHANGED <<kind, start>>
    PROVE  /\ N' = N /\ Stream' = Stream /\ Audio' = Audio 
           /\ Maps' = Maps /\ Buffers' = Buffers
  BY DEF N, Stream, Audio, Maps, Buffers

\* The maps of a jitter buffer.
LEMMA MapIs ==
    /\ \A m \in Maps : DOMAIN m \subseteq JB!SeqNums /\ m \in [DOMAIN m -> Audio]
    /\ \A K \in SUBSET JB!SeqNums : \A m \in [K -> Audio] : m \in Maps
  BY DEF Maps

\* Push leaves the map alone or adds the packet to it.
LEMMA PushIs ==
    ASSUME jb \in Buffers, NEW i \in Audio, NEW s \in JB!SeqNums, NEW b, b = JB!Push(jb, s, i),
           NEW n, n = IF jb.started THEN jb.nextSeq ELSE s
    PROVE  /\ b \in Buffers /\ b.started /\ b.nextSeq = n
           /\ \/ /\ s - n < -Slack \/ (s - n < 0 /\ s - n > -Half)
                 /\ b.packets = jb.packets
              \/ /\ ~(s - n < -Slack \/ (s - n < 0 /\ s - n > -Half))
                 /\ b.packets = [k \in DOMAIN jb.packets \union {s} |->
                                    IF k = s THEN i ELSE jb.packets[k]]
           /\ JB!TooLate(JB!Begun(jb, s), s)
                 <=> s - n < -Slack \/ (s - n < 0 /\ s - n > -Half)
  <1> DEFINE c == JB!Begun(jb, s)
             late == s - n < -Slack \/ (s - n < 0 /\ s - n > -Half)
             m == [k \in DOMAIN jb.packets \union {s} |-> IF k = s THEN i ELSE jb.packets[k]]
  <1>1. /\ jb = [packets |-> jb.packets, nextSeq |-> jb.nextSeq, started |-> jb.started,
                 delayExpired |-> jb.delayExpired]
        /\ jb.packets \in Maps /\ jb.nextSeq \in JB!SeqNums
        /\ jb.started \in BOOLEAN /\ jb.delayExpired \in BOOLEAN
        BY DEF Buffers
  <1>2. n \in JB!SeqNums
        BY <1>1
  <1>3. c = [packets |-> jb.packets, nextSeq |-> n, started |-> TRUE,
             delayExpired |-> jb.delayExpired]
    <2>1. CASE jb.started
          BY <1>1, <2>1 DEF JB!Begun
    <2>2. CASE ~jb.started
          BY <1>1, <2>2 DEF JB!Begun
    <2> QED BY <1>1, <2>1, <2>2
  <1>4. c \in Buffers
        BY <1>1, <1>2, <1>3 DEF Buffers
  <1>5. m \in Maps
    <2>1. DOMAIN jb.packets \union {s} \subseteq JB!SeqNums
          BY <1>1, MapIs
    <2>2. m \in [DOMAIN jb.packets \union {s} -> Audio]
          BY <1>1, MapIs
    <2> HIDE DEF m
    <2> QED BY <2>1, <2>2, MapIs
  <1>6. b = IF late THEN c ELSE [c EXCEPT !.packets = m]
        BY <1>3 DEF JB!Push, JB!TooLate
  <1>9. JB!TooLate(c, s) <=> late
        BY <1>3 DEF JB!TooLate
  <1>10. (JB!TooLate(JB!Begun(jb, s), s)) <=> (s - n < -Slack \/ (s - n < 0 /\ s - n > -Half))
        BY <1>9
  <1> HIDE DEF m, late, c
  <1>7. CASE late
    <2>1. b = c
          BY <1>6, <1>7
    <2>2. b.started /\ b.nextSeq = n /\ b.packets = jb.packets
          BY <1>3, <2>1
    <2> QED BY <1>4, <1>7, <1>10, <2>1, <2>2 DEF late
  <1>8. CASE ~late
    <2>1. b = [packets |-> m, nextSeq |-> n, started |-> TRUE, delayExpired |-> jb.delayExpired]
          BY <1>3, <1>6, <1>8
    <2>2. b \in Buffers
          BY <1>1, <1>2, <1>5, <2>1 DEF Buffers
    <2>3. b.started /\ b.nextSeq = n /\ b.packets = m
          BY <2>1
    <2> QED BY <1>8, <1>10, <2>2, <2>3 DEF late, m
  <1> QED BY <1>7, <1>8, <1>10

\* A tick takes the expected number out of the map and expects the next one.
LEMMA PlayedIs ==
    ASSUME jb \in Buffers, NEW b, b = JB!Played(jb)
    PROVE  /\ b \in Buffers /\ (b.started <=> jb.started) /\ b.nextSeq = (jb.nextSeq + 1) % Wrap
           /\ b.packets = [k \in DOMAIN jb.packets \ {jb.nextSeq} |-> jb.packets[k]]
  <1> DEFINE m == [k \in DOMAIN jb.packets \ {jb.nextSeq} |-> jb.packets[k]]
             n == (jb.nextSeq + 1) % Wrap
  <1>1. /\ jb = [packets |-> jb.packets, nextSeq |-> jb.nextSeq, started |-> jb.started,
                 delayExpired |-> jb.delayExpired]
        /\ jb.packets \in Maps /\ jb.nextSeq \in JB!SeqNums
        /\ jb.started \in BOOLEAN /\ jb.delayExpired \in BOOLEAN
        BY DEF Buffers
  <1>2. n \in JB!SeqNums
        BY <1>1, Sizes DEF JB!SeqNums
  <1>3. m \in Maps
    <2>1. DOMAIN jb.packets \ {jb.nextSeq} \subseteq JB!SeqNums
          BY <1>1, MapIs
    <2>2. m \in [DOMAIN jb.packets \ {jb.nextSeq} -> Audio]
          BY <1>1, MapIs
    <2> HIDE DEF m
    <2> QED BY <2>1, <2>2, MapIs
  <1>4. b = [jb EXCEPT !.packets = m, !.nextSeq = n, !.delayExpired = TRUE]
        BY DEF JB!Played
  <1> HIDE DEF m, n
  <1>5. b = [packets |-> m, nextSeq |-> n, started |-> jb.started, delayExpired |-> TRUE]
        BY <1>1, <1>4
  <1>6. b \in Buffers
        BY <1>1, <1>2, <1>3, <1>5 DEF Buffers
  <1>7. (b.started <=> jb.started) /\ b.nextSeq = n /\ b.packets = m
        BY <1>5
  <1> QED BY <1>6, <1>7 DEF m, n

\* An emptied buffer.
LEMMA EmptiedIs ==
    ASSUME jb \in Buffers, NEW b, b = [jb EXCEPT !.packets = << >>]
    PROVE  /\ b \in Buffers /\ (b.started <=> jb.started) /\ b.nextSeq = jb.nextSeq
           /\ DOMAIN b.packets = {}
  <1>1. /\ jb = [packets |-> jb.packets, nextSeq |-> jb.nextSeq, started |-> jb.started,
                 delayExpired |-> jb.delayExpired]
        /\ jb.nextSeq \in JB!SeqNums /\ jb.started \in BOOLEAN /\ jb.delayExpired \in BOOLEAN
        BY DEF Buffers
  <1> DEFINE m == << >>
  <1>2. m \in Maps /\ DOMAIN m = {}
    <2>1. m \in [{} -> Audio] /\ {} \in SUBSET JB!SeqNums
          OBVIOUS
    <2> HIDE DEF m
    <2> QED BY <2>1, MapIs
  <1>3. b = [jb EXCEPT !.packets = m]
        OBVIOUS
  <1> HIDE DEF m
  <1>4. b = [packets |-> m, nextSeq |-> jb.nextSeq, started |-> jb.started,
             delayExpired |-> jb.delayExpired]
        BY <1>1, <1>3
  <1>5. b \in Buffers
        BY <1>1, <1>2, <1>4 DEF Buffers
  <1>6. (b.started <=> jb.started) /\ b.nextSeq = jb.nextSeq /\ b.packets = m
        BY <1>4
  <1> QED BY <1>2, <1>5, <1>6

-----------------------------------------------------------------------------
(* What is pushed, played and flushed.                                     *)

\* The parts of the invariant that are about the jitter buffer and the recorder.
Playing == Filed /\ AroundHead /\ InStreamOrder /\ OnTimeIsRecorded

\* Steps that touch neither.
LEMMA PlayingFrame ==
    ASSUME Playing, UNCHANGED <<kind, start, jb, registered, recorded, head, due, strays>>
    PROVE  Playing'
  <1>1. Filed'
        BY SameStream DEF Playing, Filed, Number
  <1>2. AroundHead' /\ InStreamOrder'
        BY SameStream DEF Playing, AroundHead, InStreamOrder, Placed, Lap
  <1>3. OnTimeIsRecorded'
        BY SameStream DEF Playing, OnTimeIsRecorded, Kept, Recorded, Number
  <1> QED BY <1>1, <1>2, <1>3 DEF Playing

\* The frames a recorder may be given, and those of one turn.
Written == [turn : Audio \union {0}, bytes : Stream \union {0, Torn}]
LEMMA FramesAre ==
    ASSUME ReceiveTypeOK, NEW i \in Audio
    PROVE  /\ \A f \in Frames(i) : /\ f \in Written /\ f.turn = i
                                   /\ kind \in Encrypted => f.bytes = i
           /\ Frames(i) # {}
  <1>1. pkt["receive"] \in Stream \union {0} /\ i \in Stream
        BY StreamSize DEF ReceiveTypeOK, Readers
  <1>2. /\ Bytes(i) \subseteq Stream \union {0, Torn} /\ Bytes(i) # {}
        /\ kind \in Encrypted => Bytes(i) = {i}
        BY <1>1 DEF Bytes
  <1> DEFINE B == Bytes(i)
  <1>3. /\ Frames(i) = {[turn |-> i, bytes |-> b] : b \in B}
        /\ B \subseteq Stream \union {0, Torn} /\ B # {}
        /\ kind \in Encrypted => B = {i}
        BY <1>2 DEF Frames
  <1> HIDE DEF B
  <1>4. \A b \in B : /\ [turn |-> i, bytes |-> b] \in Written
                     /\ kind \in Encrypted => b = i
        BY <1>3 DEF Written
  <1>5. /\ \A f \in Frames(i) : \E b \in B : f = [turn |-> i, bytes |-> b]
        /\ Frames(i) # {}
        BY <1>3
  <1>7. ASSUME NEW f \in Frames(i)
        PROVE  f \in Written /\ f.turn = i /\ (kind \in Encrypted => f.bytes = i)
    <2>1. PICK b \in B : f = [turn |-> i, bytes |-> b]
          BY <1>5
    <2>2. [turn |-> i, bytes |-> b] \in Written /\ (kind \in Encrypted => b = i)
          BY <1>4
    <2>3. f \in Written
          BY <2>1, <2>2, Zenon
    <2>4. f.turn = i /\ f.bytes = b
      <3> HIDE DEF Written
      <3> QED BY <2>1, SMTT(30)
    <2> QED BY <2>2, <2>3, <2>4
  <1> QED BY <1>5, <1>7

\* What is held is audio of the stream under its number.
LEMMA HeldIs ==
    ASSUME ReceiveTypeOK, Filed, NEW s \in DOMAIN jb.packets
    PROVE  /\ s \in JB!SeqNums /\ jb.packets[s] \in Audio /\ jb.packets[s] \in Stream
           /\ s = Number(jb.packets[s])
  BY StreamSize DEF Filed, ReceiveTypeOK

\* The types of what the reactor and the receiver share.
LEMMA PlayingTypes ==
    ASSUME ReceiveTypeOK, UNCHANGED <<kind, start>>, jb' \in Buffers,
           recorded' \in Seq(Written), head' \in Stream \union 0 .. MaxPlayed,
           due' \subseteq Audio, strays' \subseteq Audio, registered' \in BOOLEAN,
           UNCHANGED <<copies, stop, jbClosed, pkt, stats, coll, seen, ordered>>,
           pc' \in [Readers -> {"poll", "reading", "count", "push", "accept", "gone"}]
    PROVE  ReceiveTypeOK'
  <1>1. jb'.nextSeq \in JB!SeqNums /\ jb'.packets \in Maps
        BY DEF Buffers
  <1>2. DOMAIN jb'.packets \subseteq JB!SeqNums /\ \A s \in DOMAIN jb'.packets : jb'.packets[s] \in Audio
        BY <1>1, MapIs
  <1> QED BY <1>1, <1>2, SameStream DEF ReceiveTypeOK, Written

\* A place is a natural number.
LEMMA PlaceType == ASSUME ReceiveTypeOK, NEW h \in Stream \union 0 .. MaxPlayed PROVE h \in Nat
  <1>1. MaxPlayed \in Nat /\ Stream \subseteq Nat
        BY StreamSize, ReceiveAssumption
  <1> QED BY <1>1

\* The sign of a difference.
LEMMA Before == \A a, b, d \in Int : d = a - b => (d < 0 <=> a < b)
  OBVIOUS

\* A packet is pushed.
LEMMA PushStep == ASSUME ReceiveInv, PushPacket PROVE ReceiveTypeOK' /\ Playing'
  <1> DEFINE i == pkt["receive"]
             n == IF jb.started THEN jb.nextSeq ELSE Number(i)
             late == Number(i) - n < -Slack \/ (Number(i) - n < 0 /\ Number(i) - n > -Half)
             inTurn == head' <= i /\ Lap(head') = Lap(i)
  <1>1. /\ ReceiveTypeOK /\ Filed /\ AroundHead /\ InStreamOrder /\ OnTimeIsRecorded
        /\ UNCHANGED <<kind, start, registered, recorded>>
        BY DEF ReceiveInv, PushPacket
  <1>2. i \in Audio /\ i \in Stream /\ Number(i) \in JB!SeqNums /\ registered
        BY <1>1, StreamSize, NumberIs DEF ReceiveInv, Loops, PushPacket
  <1>3. jb \in Buffers /\ jb' = JB!Push(jb, Number(i), i)
        BY <1>1 DEF Filed, PushPacket
  <1>a. /\ head' = IF jb.started THEN head ELSE i
        /\ due' = IF inTurn THEN due \union {i} ELSE due
        /\ strays' = IF inTurn \/ JB!TooLate(JB!Begun(jb, Number(i)), Number(i)) THEN strays
                     ELSE strays \union {i}
        BY DEF PushPacket
  <1> HIDE DEF i
  <1> HIDE DEF n
  <1>4. /\ jb' \in Buffers /\ jb'.started /\ jb'.nextSeq = n
        /\ \/ late /\ jb'.packets = jb.packets
           \/ ~late /\ jb'.packets = [k \in DOMAIN jb.packets \union {Number(i)} |->
                                         IF k = Number(i) THEN i ELSE jb.packets[k]]
        /\ JB!TooLate(JB!Begun(jb, Number(i)), Number(i)) <=> late
    <2>1. n = IF jb.started THEN jb.nextSeq ELSE Number(i)
          BY DEF n
    <2> QED BY <1>2, <1>3, <2>1, PushIs
  <1>6. head' \in Stream \union 0 .. MaxPlayed /\ head' >= 1 /\ n = Number(head')
        BY <1>1, <1>2, <1>a, StreamSize DEF Filed, ReceiveTypeOK, n
  <1>10. inTurn => ~late
    <2> SUFFICES ASSUME head' <= i, Lap(head') = Lap(i) PROVE ~late
        OBVIOUS
    <2>1. i \in Nat /\ head' \in Nat
          BY <1>1, <1>2, <1>6, PlaceType
    <2> DEFINE d == Number(i) - n
    <2>2. d = i - head'
          BY <1>1, <1>6, <2>1, SameLap
    <2>3. late <=> d < -Slack \/ (d < 0 /\ d > -Half)
          OBVIOUS
    <2> HIDE DEF d, late
    <2>4. d \in Int /\ i \in Int /\ head' \in Int
          BY <2>1, <2>2
    <2>5. d < 0 <=> i < head'
          BY <2>2, <2>4, Before
    <2>6. ~(i < head')
          BY <2>1
    <2> QED BY <2>3, <2>4, <2>5, <2>6, Sizes
  <1> HIDE DEF late, inTurn
  <1>5. /\ due' = IF inTurn THEN due \union {i} ELSE due
        /\ inTurn \/ late => strays' = strays
        /\ ~inTurn /\ ~late => strays' = strays \union {i}
        /\ strays \subseteq strays'
        BY <1>4, <1>a
  <1>7. ReceiveTypeOK'
    <2>1. /\ pc' \in [Readers -> {"poll", "reading", "count", "push", "accept", "gone"}]
          /\ UNCHANGED <<copies, stop, jbClosed, pkt, stats, coll, seen, ordered>>
          BY <1>1 DEF PushPacket, Goto, ReceiveTypeOK, statVars
    <2>2. due' \subseteq Audio /\ strays' \subseteq Audio
          BY <1>1, <1>2, <1>5 DEF ReceiveTypeOK
    <2>3. registered' \in BOOLEAN /\ recorded' \in Seq(Written)
          BY <1>1 DEF ReceiveTypeOK, Written
    <2> QED BY <1>1, <1>4, <1>6, <2>1, <2>2, <2>3, PlayingTypes
  <1>8. \A s \in DOMAIN jb'.packets : \/ s \in DOMAIN jb.packets /\ jb'.packets[s] = jb.packets[s]
                                      \/ ~late /\ s = Number(i) /\ jb'.packets[s] = i
        BY <1>4
  <1>9. Filed'
    <2>1. \A s \in DOMAIN jb'.packets : s = (start + jb'.packets[s] - 1) % Wrap
          BY <1>1, <1>8 DEF Filed, Number
    <2>2. jb'.nextSeq = (start + head' - 1) % Wrap
          BY <1>4, <1>6 DEF Number
    <2> QED BY <1>1, <1>4, <1>6, <2>1, <2>2, SameStream DEF Filed, Number
  <1>11. AroundHead'
    <2>1. \A s \in DOMAIN jb'.packets :
             \/ jb'.packets[s] \in strays'
             \/ head' <= jb'.packets[s] /\ Lap(head') = Lap(jb'.packets[s])
      <3> SUFFICES ASSUME NEW s \in DOMAIN jb'.packets
                   PROVE  \/ jb'.packets[s] \in strays'
                          \/ head' <= jb'.packets[s] /\ Lap(head') = Lap(jb'.packets[s])
          OBVIOUS
      <3>1. CASE ~late /\ s = Number(i) /\ jb'.packets[s] = i
        <4>1. CASE inTurn
              BY <3>1, <4>1 DEF inTurn
        <4>2. CASE ~inTurn
              BY <1>5, <3>1, <4>2
        <4> QED BY <4>1, <4>2
      <3>2. CASE s \in DOMAIN jb.packets /\ jb'.packets[s] = jb.packets[s]
        <4>1. head' = head
              BY <1>1, <1>a, <3>2 DEF Filed
        <4>2. \/ jb.packets[s] \in strays
              \/ head <= jb.packets[s] /\ Lap(head) = Lap(jb.packets[s])
              BY <1>1, <3>2 DEF AroundHead
        <4> QED BY <1>5, <3>2, <4>1, <4>2
      <3> QED BY <1>8, <3>1, <3>2
    <2>2. \A m \in DOMAIN recorded : recorded[m].turn > 0 /\ recorded[m].turn \notin strays'
                                        => recorded[m].turn < head'
      <3>1. CASE jb.started
            BY <1>1, <1>2, <1>5, <1>a, <3>1 DEF AroundHead, Placed
      <3>2. CASE ~jb.started
        <4>1. DOMAIN recorded = {}
              BY <1>1, <3>2 DEF Filed
        <4> QED BY <4>1
      <3> QED BY <3>1, <3>2
    <2> QED BY <1>1, <2>1, <2>2 DEF AroundHead, Placed, Lap
  <1>12. InStreamOrder'
        BY <1>1, <1>5 DEF InStreamOrder, Placed
  <1>13. OnTimeIsRecorded'
    <2> SUFFICES ASSUME NEW j \in due'
                 PROVE  \/ \E k \in strays' : Number(k) = Number(j)
                        \/ Recorded(j)
                        \/ head' <= j /\ Number(j) \in DOMAIN jb'.packets
                           /\ jb'.packets[Number(j)] = j
      <3>1. /\ registered'
            /\ \A x : Recorded(x)' <=> Recorded(x)
            BY <1>1, <1>2, Zenon DEF Recorded
      <3> HIDE DEF Recorded
      <3> QED BY <1>1, <3>1 DEF OnTimeIsRecorded, Kept, JB!Holds, Number
    <2>1. CASE j = i /\ inTurn
          BY <1>4, <1>10, <2>1 DEF inTurn
    <2>2. CASE j \in due
      <3>1. j \in Stream /\ j \in Nat
            BY <1>1, <2>2, StreamSize DEF ReceiveTypeOK
      <3>2. \/ \E k \in strays : Number(k) = Number(j)
            \/ Recorded(j)
            \/ /\ head <= j /\ Number(j) \in DOMAIN jb.packets /\ jb.packets[Number(j)] = j
            BY <1>1, <2>2 DEF OnTimeIsRecorded, Kept, JB!Holds
      <3>3. CASE head <= j /\ Number(j) \in DOMAIN jb.packets /\ jb.packets[Number(j)] = j
        <4>1. jb.started /\ head' = head
              BY <1>1, <1>a, <3>3 DEF Filed
        <4>2. CASE late \/ Number(j) # Number(i) \/ j = i
              BY <1>4, <3>3, <4>1, <4>2
        <4>3. CASE ~late /\ Number(j) = Number(i) /\ j # i /\ ~inTurn
              BY <1>5, <4>3
        <4>4. CASE Number(j) = Number(i) /\ j # i /\ inTurn
          <5>1. j \in strays \/ Lap(head) = Lap(j)
                BY <1>1, <3>3 DEF AroundHead
          <5>2. Lap(head) = Lap(i)
                BY <4>1, <4>4 DEF inTurn
          <5>3. Lap(j) # Lap(i)
            <6>1. i \in Nat
                  BY <1>1, <1>2, StreamSize
            <6>2. Lap(j) = Lap(i) => Number(i) - Number(j) = i - j
                  BY <1>1, <3>1, <6>1, SameLap
            <6>3. Number(i) \in Nat /\ Number(j) \in Nat
                  BY <1>1, <3>1, <6>1, Laps
            <6> QED BY <3>1, <4>4, <6>1, <6>2, <6>3
          <5>4. j \in strays'
                BY <1>5, <5>1, <5>2, <5>3
          <5> QED BY <5>4
        <4> QED BY <4>2, <4>3, <4>4
      <3> QED BY <1>5, <3>2, <3>3
    <2> QED BY <1>5, <2>1, <2>2
  <1> QED BY <1>7, <1>9, <1>11, <1>12, <1>13 DEF Playing

\* A step appends to what was recorded.
LEMMA RecordedGrows ==
    ASSUME ReceiveTypeOK, NEW t \in Seq(Written), recorded' = recorded \o t
    PROVE  /\ recorded' \in Seq(Written)
           /\ \A n \in DOMAIN recorded' :
                 \/ n \in DOMAIN recorded /\ recorded'[n] = recorded[n]
                 \/ /\ n - Len(recorded) \in DOMAIN t /\ recorded'[n] = t[n - Len(recorded)]
                    /\ \A m \in DOMAIN recorded : m < n
           /\ \A n \in DOMAIN recorded : n \in DOMAIN recorded' /\ recorded'[n] = recorded[n]
           /\ \A n \in DOMAIN t : /\ Len(recorded) + n \in DOMAIN recorded'
                                  /\ recorded'[Len(recorded) + n] = t[n]
           /\ DOMAIN t \subseteq Nat /\ DOMAIN recorded' \subseteq Nat
           /\ DOMAIN recorded \subseteq Nat /\ Len(recorded) \in Nat
  <1>1. recorded \in Seq(Written)
        BY DEF ReceiveTypeOK, Written
  <1> DEFINE S == Written  r == recorded
  <1>2. r \in Seq(S) /\ t \in Seq(S)
        BY <1>1
  <1> HIDE DEF S
  <1>3. /\ r \o t \in Seq(S) /\ Len(r \o t) = Len(r) + Len(t)
        /\ \A n \in 1 .. Len(r) + Len(t) : (r \o t)[n] = IF n <= Len(r) THEN r[n] ELSE t[n - Len(r)]
        BY <1>2, ConcatProperties
  <1>4. /\ Len(r) \in Nat /\ Len(t) \in Nat /\ DOMAIN r = 1 .. Len(r) /\ DOMAIN t = 1 .. Len(t)
        /\ DOMAIN (r \o t) = 1 .. Len(r) + Len(t)
        BY <1>2, <1>3, LenProperties
  <1>5. \A n \in 1 .. Len(r) + Len(t) : n <= Len(r) \/ n - Len(r) \in 1 .. Len(t)
        BY <1>4
  <1> DEFINE u == r \o t
  <1>6. u = recorded'
        OBVIOUS
  <1>7. /\ u \in Seq(S) /\ DOMAIN u = 1 .. Len(r) + Len(t)
        /\ \A n \in 1 .. Len(r) + Len(t) : u[n] = IF n <= Len(r) THEN r[n] ELSE t[n - Len(r)]
        BY <1>3, <1>4
  <1> HIDE DEF u
  <1>8. \A n \in DOMAIN u : \/ n \in DOMAIN r /\ u[n] = r[n]
                            \/ /\ n - Len(r) \in DOMAIN t /\ u[n] = t[n - Len(r)]
                               /\ \A m \in DOMAIN r : m < n
        BY <1>4, <1>5, <1>7
  <1>9. \A n \in DOMAIN r : n \in DOMAIN u /\ u[n] = r[n]
        BY <1>4, <1>7
  <1>10. \A n \in DOMAIN t : Len(r) + n \in DOMAIN u /\ u[Len(r) + n] = t[n]
    <2> TAKE n \in DOMAIN t
    <2>1. n \in 1 .. Len(t) /\ Len(r) + n \in 1 .. Len(r) + Len(t) /\ ~(Len(r) + n <= Len(r))
          BY <1>4
    <2>2. (Len(r) + n) - Len(r) = n
          BY <1>4, <2>1
    <2> QED BY <1>7, <2>1, <2>2
  <1>11. DOMAIN t \subseteq Nat /\ DOMAIN u \subseteq Nat /\ DOMAIN r \subseteq Nat
        BY <1>4, <1>7
  <1>12. u \in Seq(Written)
        BY <1>7 DEF S
  <1> QED BY <1>4, <1>6, <1>8, <1>9, <1>10, <1>11, <1>12

\* The turns of what was recorded are numbers.
LEMMA RecordedType ==
    ASSUME ReceiveTypeOK, NEW n \in DOMAIN recorded
    PROVE  recorded[n] \in Written /\ recorded[n].turn \in Nat
  <1>1. recorded \in Seq(Written) /\ Audio \union {0} \subseteq Nat
        BY StreamSize DEF ReceiveTypeOK, Written
  <1>2. n \in 1 .. Len(recorded)
        BY <1>1, LenProperties
  <1>3. recorded[n] \in Written
        BY <1>1, <1>2, ElementOfSeq
  <1> QED BY <1>1, <1>3 DEF Written

\* The reactor plays.
LEMMA TickStep == ASSUME ReceiveInv, Tick PROVE ReceiveTypeOK' /\ Playing'
  <1>1. /\ ReceiveTypeOK /\ Filed /\ AroundHead /\ InStreamOrder /\ OnTimeIsRecorded
        /\ registered /\ jb.started /\ head < MaxPlayed
        /\ UNCHANGED <<kind, start, registered, due, strays>>
        BY DEF ReceiveInv, Tick
  <1>0. PICK t \in Writes : recorded' = recorded \o t
        BY DEF Tick
  <1>2. jb \in Buffers /\ jb' = JB!Played(jb) /\ head' = head + 1
        BY <1>1 DEF Filed, Tick
  <1>3. head \in Nat /\ head >= 1 /\ jb.nextSeq = Number(head)
        BY <1>1, PlaceType DEF Filed, ReceiveTypeOK
  <1>4. /\ head' \in 0 .. MaxPlayed /\ head' \in Nat
        /\ (jb.nextSeq + 1) % Wrap = Number(head')
        BY <1>1, <1>2, <1>3, NextNumber, ReceiveAssumption
  <1>5. /\ jb' \in Buffers /\ jb'.started /\ jb'.nextSeq = Number(head')
        /\ jb'.packets = [k \in DOMAIN jb.packets \ {jb.nextSeq} |-> jb.packets[k]]
        BY <1>1, <1>2, <1>4, PlayedIs
  <1>6. /\ t \in Seq(Written) /\ DOMAIN t \subseteq {1}
        /\ jb.nextSeq \in DOMAIN jb.packets =>
              DOMAIN t = {1} /\ t[1].turn = jb.packets[jb.nextSeq]
        /\ jb.nextSeq \notin DOMAIN jb.packets => \A n \in DOMAIN t : t[n].turn = 0
        /\ kind \in Encrypted => \A n \in DOMAIN t : t[n].bytes = t[n].turn
    <2>1. CASE jb.nextSeq \in DOMAIN jb.packets
      <3>1. jb.packets[jb.nextSeq] \in Audio
            BY <1>1, <2>1, HeldIs
      <3>2. PICK f \in Frames(jb.packets[jb.nextSeq]) : t = <<f>>
            BY <1>0, <2>1 DEF Writes, JB!Holds
      <3>3. /\ f \in Written /\ f.turn = jb.packets[jb.nextSeq]
            /\ kind \in Encrypted => f.bytes = f.turn
            BY <1>1, <3>1, FramesAre
      <3>4. t \in Seq(Written) /\ DOMAIN t = {1} /\ t[1] = f
            BY <3>2, <3>3
      <3> QED BY <2>1, <3>3, <3>4
    <2>2. CASE jb.nextSeq \notin DOMAIN jb.packets
      <3>1. t = IF Conceal THEN <<Silence>> ELSE << >>
            BY <1>0, <2>2 DEF Writes, JB!Holds
      <3>2. Silence \in Written /\ Silence.turn = 0 /\ Silence.bytes = 0
            BY DEF Silence, Written
      <3> HIDE DEF Silence
      <3>3. CASE t = <<Silence>>
        <4>1. t \in Seq(Written) /\ DOMAIN t = {1} /\ t[1] = Silence
              BY <3>2, <3>3
        <4> QED BY <2>2, <3>2, <4>1
      <3>4. CASE t = << >>
        <4>1. t \in Seq(Written) /\ DOMAIN t = {}
              BY <3>4
        <4> QED BY <2>2, <4>1
      <3> QED BY <3>1, <3>3, <3>4
    <2> QED BY <2>1, <2>2
  <1>7. ReceiveTypeOK'
    <2>1. /\ pc' \in [Readers -> {"poll", "reading", "count", "push", "accept", "gone"}]
          /\ UNCHANGED <<copies, stop, jbClosed, pkt, stats, coll, seen, ordered>>
          BY <1>1 DEF Tick, ReceiveTypeOK, statVars, readVars
    <2>2. /\ due' \subseteq Audio /\ strays' \subseteq Audio /\ registered' \in BOOLEAN
          /\ recorded' \in Seq(Written)
          BY <1>0, <1>1, <1>6, RecordedGrows DEF ReceiveTypeOK
    <2> QED BY <1>1, <1>4, <1>5, <2>1, <2>2, PlayingTypes
  <1>8. Filed'
    <2>1. \A s \in DOMAIN jb'.packets : s = (start + jb'.packets[s] - 1) % Wrap
          BY <1>1, <1>5 DEF Filed, Number
    <2>2. jb'.nextSeq = (start + head' - 1) % Wrap /\ head' >= 1
          BY <1>2, <1>3, <1>5 DEF Number
    <2> QED BY <1>1, <1>5, <2>1, <2>2, SameStream DEF Filed, Number
  \* Strays apart, only the head has the expected number.
  <1>9. ASSUME NEW s \in DOMAIN jb.packets, jb.packets[s] \notin strays
        PROVE  /\ s = jb.nextSeq => jb.packets[s] = head
               /\ s # jb.nextSeq => head' <= jb.packets[s] /\ Lap(head') = Lap(jb.packets[s])
    <2> DEFINE p == jb.packets[s]
    <2>1. p \in Nat /\ s = Number(p) /\ head <= p /\ Lap(head) = Lap(p)
          BY <1>1, <1>9, HeldIs, StreamSize DEF AroundHead
    <2>2. Number(p) - Number(head) = p - head
          BY <1>1, <1>3, <2>1, SameLap
    <2>3. Number(p) \in Nat /\ Number(head) \in Nat /\ Lap(p) \in Int /\ Lap(head) \in Int
          BY <1>1, <1>3, <2>1, Laps
    <2> HIDE DEF p
    <2>4. s = jb.nextSeq <=> p = head
          BY <1>3, <2>1, <2>2, <2>3
    <2>5. s # jb.nextSeq => head' <= p
          BY <1>2, <1>3, <2>1, <2>4
    <2>6. s # jb.nextSeq => Lap(head') = Lap(p)
      <3> SUFFICES ASSUME s # jb.nextSeq PROVE Lap(head') = Lap(p)
          OBVIOUS
      <3>1. head <= head'
            BY <1>2, <1>3
      <3>2. Lap(head) <= Lap(head') /\ Lap(head') <= Lap(p) /\ Lap(head') \in Int
            BY <1>1, <1>3, <1>4, <2>1, <2>5, <3>1, LapsAscend, Laps
      <3> QED BY <2>1, <2>3, <3>2
    <2> QED BY <2>4, <2>5, <2>6 DEF p
  <1>10. ASSUME NEW n \in DOMAIN t, Placed(t[n].turn)
         PROVE  t[n].turn = head
    <2>1. jb.nextSeq \in DOMAIN jb.packets
          BY <1>6, <1>10 DEF Placed
    <2>2. n = 1 /\ t[n].turn = jb.packets[jb.nextSeq]
          BY <1>6, <2>1
    <2> QED BY <1>9, <1>10, <2>1, <2>2 DEF Placed
  <1>11. ASSUME NEW n \in DOMAIN recorded'
         PROVE  \/ n \in DOMAIN recorded /\ recorded'[n] = recorded[n]
                \/ /\ n - Len(recorded) \in DOMAIN t /\ \A m \in DOMAIN recorded : m < n
                   /\ recorded'[n] = t[n - Len(recorded)]
                   /\ Placed(recorded'[n].turn) => recorded'[n].turn = head
    <2>1. \/ n \in DOMAIN recorded /\ recorded'[n] = recorded[n]
          \/ /\ n - Len(recorded) \in DOMAIN t /\ recorded'[n] = t[n - Len(recorded)]
             /\ \A m \in DOMAIN recorded : m < n
          BY <1>0, <1>1, <1>6, RecordedGrows
    <2> QED BY <1>10, <1>11, <2>1
  <1>12. /\ \A n \in DOMAIN recorded : Placed(recorded[n].turn) => recorded[n].turn < head
         /\ \A n \in DOMAIN recorded' : Placed(recorded'[n].turn) => recorded'[n].turn < head'
    <2>1. \A n \in DOMAIN recorded : Placed(recorded[n].turn) => recorded[n].turn < head
          BY <1>1 DEF AroundHead
    <2>2. \A n \in DOMAIN recorded : recorded[n].turn \in Nat
          BY <1>1, RecordedType
    <2>3. \A n \in DOMAIN recorded' : Placed(recorded'[n].turn) => recorded'[n].turn < head'
      <3> TAKE n \in DOMAIN recorded'
      <3>1. CASE n \in DOMAIN recorded /\ recorded'[n] = recorded[n]
            BY <1>2, <1>3, <2>1, <2>2, <3>1
      <3>2. CASE Placed(recorded'[n].turn) => recorded'[n].turn = head
            BY <1>2, <1>3, <3>2
      <3> QED BY <1>11, <3>1, <3>2
    <2> QED BY <2>1, <2>3
  <1>13. AroundHead'
    <2>1. \A s \in DOMAIN jb'.packets :
             \/ jb'.packets[s] \in strays
             \/ head' <= jb'.packets[s] /\ Lap(head') = Lap(jb'.packets[s])
          BY <1>5, <1>9
    <2>2. \A n \in DOMAIN recorded' : recorded'[n].turn > 0 /\ recorded'[n].turn \notin strays
                                         => recorded'[n].turn < head'
          BY <1>12 DEF Placed
    <2> QED BY <1>1, <2>1, <2>2 DEF AroundHead, Placed, Lap
  <1>14. InStreamOrder'
    <2>1. ASSUME NEW m \in DOMAIN recorded', NEW n \in DOMAIN recorded',
                 m < n, Placed(recorded'[m].turn), Placed(recorded'[n].turn)
          PROVE  recorded'[m].turn < recorded'[n].turn
      <3>1. m \in Nat /\ n \in Nat
            BY <1>0, <1>1, <1>6, RecordedGrows
      <3>2. m \in DOMAIN recorded /\ recorded'[m] = recorded[m]
        <4> DEFINE L == Len(recorded)
        <4>1. L \in Nat
              BY <1>0, <1>1, <1>6, RecordedGrows
        <4>2. /\ m \in DOMAIN recorded \/ (m - L = 1 /\ \A k \in DOMAIN recorded : k < m)
              /\ n \in DOMAIN recorded \/ n - L = 1
              BY <1>6, <1>11
        <4> HIDE DEF L
        <4>3. ~(m - L = 1 /\ n - L = 1)
              BY <2>1, <3>1, <4>1
        <4>4. ~(n < m)
              BY <2>1, <3>1
        <4>5. m \in DOMAIN recorded
              BY <4>2, <4>3, <4>4
        <4>6. ~(\A k \in DOMAIN recorded : k < m)
              BY <3>1, <4>5
        <4> QED BY <1>11, <4>5, <4>6
      <3>3. CASE n \in DOMAIN recorded /\ recorded'[n] = recorded[n]
            BY <1>1, <2>1, <3>2, <3>3 DEF InStreamOrder
      <3>4. CASE recorded'[n].turn = head
            BY <1>12, <2>1, <3>2, <3>4
      <3> QED BY <1>11, <2>1, <3>3, <3>4
    <2>2. ASSUME kind \in Encrypted, NEW n \in DOMAIN recorded'
          PROVE  recorded'[n].bytes = recorded'[n].turn
          BY <1>1, <1>6, <1>11, <2>2 DEF InStreamOrder
    <2> QED BY <1>1, <2>1, <2>2 DEF InStreamOrder, Placed
  <1>15. OnTimeIsRecorded'
    <2> SUFFICES ASSUME NEW j \in due
                 PROVE  \/ \E k \in strays : Number(k) = Number(j)
                        \/ Recorded(j)'
                        \/ head' <= j /\ Number(j) \in DOMAIN jb'.packets
                           /\ jb'.packets[Number(j)] = j
      <3> HIDE DEF Recorded
      <3> QED BY <1>1 DEF OnTimeIsRecorded, Kept, JB!Holds, Number
    <2>1. \/ \E k \in strays : Number(k) = Number(j)
          \/ Recorded(j)
          \/ /\ head <= j /\ Number(j) \in DOMAIN jb.packets /\ jb.packets[Number(j)] = j
          BY <1>1 DEF OnTimeIsRecorded, Kept, JB!Holds
    <2>2. CASE Recorded(j)
      <3>1. PICK n \in DOMAIN recorded : recorded[n].turn = j
            BY <2>2 DEF Recorded
      <3>2. n \in DOMAIN recorded' /\ recorded'[n].turn = j
            BY <1>0, <1>1, <1>6, <3>1, RecordedGrows
      <3> QED BY <3>2 DEF Recorded
    <2>3. CASE head <= j /\ Number(j) \in DOMAIN jb.packets /\ jb.packets[Number(j)] = j
      <3>1. CASE Number(j) = jb.nextSeq
        <4>1. 1 \in DOMAIN t /\ t[1].turn = j
              BY <1>6, <2>3, <3>1
        <4>2. Len(recorded) + 1 \in DOMAIN recorded' /\ recorded'[Len(recorded) + 1].turn = j
              BY <1>0, <1>1, <1>6, <4>1, RecordedGrows
        <4> QED BY <4>2 DEF Recorded
      <3>2. CASE Number(j) # jb.nextSeq
        <4>1. Number(j) \in DOMAIN jb'.packets /\ jb'.packets[Number(j)] = j
              BY <1>5, <2>3, <3>2
        <4>2. j \in strays \/ head' <= j
              BY <1>9, <2>3, <3>2
        <4> QED BY <4>1, <4>2
      <3> QED BY <3>1, <3>2
    <2> QED BY <2>1, <2>2, <2>3
  <1> QED BY <1>7, <1>8, <1>13, <1>14, <1>15 DEF Playing

\* The cardinality that JitterBuffer takes from FiniteSets.
LEMMA SameCardinality == \A S : JB!Cardinality(S) = Cardinality(S)
  BY DEF JB!Cardinality, Cardinality

\* What Flush writes.
LEMMA FlushIs ==
    ASSUME ReceiveTypeOK, Filed, NEW order \in JB!FlushOrders(jb), NEW t,
           t = [n \in DOMAIN order |->
                   CHOOSE frame \in Frames(jb.packets[order[n]]) : TRUE]
    PROVE  /\ t \in Seq(Written) /\ DOMAIN t = DOMAIN order
           /\ \A n \in DOMAIN t : /\ order[n] \in DOMAIN jb.packets
                                  /\ t[n].turn = jb.packets[order[n]]
                                  /\ kind \in Encrypted => t[n].bytes = t[n].turn
           /\ \A s \in DOMAIN jb.packets : \E n \in DOMAIN t : order[n] = s
           /\ \A m, n \in DOMAIN t :
                 m < n => (order[m] - jb.nextSeq) % Wrap < (order[n] - jb.nextSeq) % Wrap
  <1> DEFINE D == DOMAIN jb.packets  c == Cardinality(D)
  <1>1. /\ order \in [1 .. c -> D]
        /\ \A s \in D : \E n \in DOMAIN order : order[n] = s
        /\ \A m, n \in DOMAIN order :
              m < n => (order[m] - jb.nextSeq) % Wrap < (order[n] - jb.nextSeq) % Wrap
        BY SameCardinality DEF JB!FlushOrders
  <1>2. c \in Nat
    <2>1. D \subseteq 0 .. Wrap - 1
          BY HeldIs DEF JB!SeqNums
    <2>2. IsFiniteSet(0 .. Wrap - 1)
          BY Sizes, FS_Interval
    <2>3. IsFiniteSet(D)
          BY <2>1, <2>2, FS_Subset
    <2> QED BY <2>3, FS_CardinalityType
  <1>3. \A s \in D : jb.packets[s] \in Audio
        BY HeldIs
  <1> HIDE DEF c
  <1>4. DOMAIN t = 1 .. c /\ DOMAIN order = 1 .. c
        BY <1>1
  <1>5. \A n \in 1 .. c : /\ order[n] \in D
                          /\ t[n] = CHOOSE frame \in Frames(jb.packets[order[n]]) : TRUE
        BY <1>1, <1>4
  <1>6. ASSUME NEW n \in 1 .. c
        PROVE  /\ t[n] \in Written /\ t[n].turn = jb.packets[order[n]]
               /\ kind \in Encrypted => t[n].bytes = t[n].turn
    <2> DEFINE p == jb.packets[order[n]]
    <2>1. p \in Audio /\ t[n] = CHOOSE frame \in Frames(p) : TRUE
          BY <1>3, <1>5
    <2> HIDE DEF p
    <2>2. t[n] \in Frames(p)
      <3>1. Frames(p) # {}
            BY <2>1, FramesAre
      <3> DEFINE F == Frames(p)
      <3>2. F # {} /\ t[n] = CHOOSE frame \in F : TRUE
            BY <2>1, <3>1
      <3> HIDE DEF F
      <3>3. t[n] \in F
            BY <3>2
      <3> QED BY <3>3 DEF F
    <2>3. t[n] \in Written /\ t[n].turn = p /\ (kind \in Encrypted => t[n].bytes = p)
          BY <2>1, <2>2, FramesAre
    <2> QED BY <2>3 DEF p
  <1>7. t \in [1 .. c -> Written]
    <2>1. t = [n \in 1 .. c |-> t[n]]
          BY <1>4
    <2> HIDE DEF Written
    <2> QED BY <1>6, <2>1
  <1>8. t \in Seq(Written)
        BY <1>2, <1>7
  <1> QED BY <1>1, <1>4, <1>5, <1>6, <1>8

\* The tick after Close.
LEMMA FlushStep == ASSUME ReceiveInv, Flush PROVE ReceiveTypeOK' /\ Playing'
  <1>1. /\ ReceiveTypeOK /\ Filed /\ AroundHead /\ InStreamOrder /\ OnTimeIsRecorded
        /\ registered /\ jbClosed /\ registered' = FALSE
        /\ UNCHANGED <<kind, start, head, due, strays>>
        BY DEF ReceiveInv, Flush
  <1>2. PICK order \in JB!FlushOrders(jb) :
            recorded' = recorded \o [n \in DOMAIN order |->
                                        CHOOSE frame \in Frames(jb.packets[order[n]]) : TRUE]
        BY DEF Flush
  <1> DEFINE t == [n \in DOMAIN order |->
                      CHOOSE frame \in Frames(jb.packets[order[n]]) : TRUE]
  <1>3. recorded' = recorded \o t
        BY <1>2
  <1>4. jb \in Buffers /\ jb' = [jb EXCEPT !.packets = << >>]
        BY <1>1 DEF Filed, Flush
  <1>5. /\ jb' \in Buffers /\ (jb'.started <=> jb.started) /\ jb'.nextSeq = jb.nextSeq
        /\ DOMAIN jb'.packets = {}
        BY <1>4, EmptiedIs
  <1>6. /\ t \in Seq(Written) /\ DOMAIN t = DOMAIN order
        /\ \A n \in DOMAIN t : /\ order[n] \in DOMAIN jb.packets
                               /\ t[n].turn = jb.packets[order[n]]
                               /\ kind \in Encrypted => t[n].bytes = t[n].turn
        /\ \A s \in DOMAIN jb.packets : \E n \in DOMAIN t : order[n] = s
        /\ \A m, n \in DOMAIN t :
              m < n => (order[m] - jb.nextSeq) % Wrap < (order[n] - jb.nextSeq) % Wrap
        BY <1>1, FlushIs
  <1> HIDE DEF t
  <1>7. ReceiveTypeOK'
    <2>1. /\ pc' \in [Readers -> {"poll", "reading", "count", "push", "accept", "gone"}]
          /\ UNCHANGED <<copies, stop, jbClosed, pkt, stats, coll, seen, ordered>>
          BY <1>1 DEF Flush, ReceiveTypeOK, statVars, readVars
    <2>2. /\ due' \subseteq Audio /\ strays' \subseteq Audio /\ registered' \in BOOLEAN
          /\ head' \in Stream \union 0 .. MaxPlayed
          /\ recorded' \in Seq(Written)
          BY <1>1, <1>3, <1>6, RecordedGrows DEF ReceiveTypeOK
    <2> QED BY <1>1, <1>5, <2>1, <2>2, PlayingTypes
  <1>8. Filed'
    <2>1. CASE jb.started
      <3>1. jb'.nextSeq = (start + head - 1) % Wrap /\ head >= 1
            BY <1>1, <1>5, <2>1 DEF Filed, Number
      <3> QED BY <1>1, <1>5, <2>1, <3>1, SameStream DEF Filed, Number
    <2>2. CASE ~jb.started
      <3>1. DOMAIN jb.packets = {} /\ due = {} /\ recorded = << >> /\ head = 0
            BY <1>1, <2>2 DEF Filed
      <3>2. DOMAIN t = {}
            BY <1>6, <3>1
      <3>3. t = << >>
            BY <1>6, <3>2, LenProperties, EmptySeq
      <3>4. recorded' = << >>
            BY <1>3, <3>1, <3>3
      <3> QED BY <1>1, <1>5, <2>2, <3>1, <3>4, SameStream DEF Filed, Number
    <2> QED BY <2>1, <2>2
  <1>9. AroundHead'
        BY <1>1, <1>5 DEF AroundHead
  \* Strays apart, the distance of a held packet is how far it is behind the head.
  <1>10. ASSUME NEW s \in DOMAIN jb.packets, jb.packets[s] \notin strays
         PROVE  /\ jb.packets[s] \in Nat /\ head \in Nat /\ head <= jb.packets[s]
                /\ (s - jb.nextSeq) % Wrap = jb.packets[s] - head
    <2> DEFINE p == jb.packets[s]
    <2>1. p \in Stream /\ p \in Nat /\ s = Number(p) /\ head <= p /\ Lap(head) = Lap(p)
          BY <1>1, <1>10, HeldIs, StreamSize DEF AroundHead
    <2>2. jb.started
          BY <1>1, <1>10 DEF Filed
    <2>3. head \in Nat /\ jb.nextSeq = Number(head)
          BY <1>1, <2>2, PlaceType DEF Filed, ReceiveTypeOK
    <2>4. Number(p) - Number(head) = p - head /\ p - head < Wrap
          BY <1>1, <2>1, <2>3, SameLap
    <2> DEFINE d == s - jb.nextSeq
    <2> HIDE DEF p
    <2>5. d = p - head
          BY <2>1, <2>3, <2>4
    <2> HIDE DEF d
    <2>6. d \in Int /\ -Wrap <= d /\ d < 2 * Wrap /\ ~(d < 0) /\ d < Wrap
          BY <2>1, <2>3, <2>4, <2>5, Sizes
    <2>7. d % Wrap = d
          BY <2>6, Sizes, Turn
    <2>8. d % Wrap = (s - jb.nextSeq) % Wrap
          BY DEF d
    <2>9. (s - jb.nextSeq) % Wrap = p - head
          BY <2>5, <2>7, <2>8
    <2> QED BY <2>1, <2>3, <2>9 DEF p
  <1>11. InStreamOrder'
    <2>a. ASSUME NEW m \in DOMAIN recorded', NEW n \in DOMAIN recorded',
                 m < n, Placed(recorded'[m].turn), Placed(recorded'[n].turn)
          PROVE  recorded'[m].turn < recorded'[n].turn
      <3> DEFINE L == Len(recorded)
      <3>1. /\ m \in Nat /\ n \in Nat /\ L \in Nat
            /\ \/ m \in DOMAIN recorded /\ recorded'[m] = recorded[m]
               \/ m - L \in DOMAIN t /\ recorded'[m] = t[m - L] /\ \A k \in DOMAIN recorded : k < m
            /\ \/ n \in DOMAIN recorded /\ recorded'[n] = recorded[n]
               \/ n - L \in DOMAIN t /\ recorded'[n] = t[n - L]
            BY <1>1, <1>3, <1>6, RecordedGrows
      <3> HIDE DEF L
      <3>2. CASE /\ m \in DOMAIN recorded /\ recorded'[m] = recorded[m]
                 /\ n \in DOMAIN recorded /\ recorded'[n] = recorded[n]
            BY <1>1, <2>a, <3>2 DEF InStreamOrder
      <3>3. CASE /\ m \in DOMAIN recorded /\ recorded'[m] = recorded[m]
                 /\ n - L \in DOMAIN t /\ recorded'[n] = t[n - L]
        <4>1. recorded[m].turn < head
              BY <1>1, <2>a, <3>3 DEF AroundHead
        <4>2. recorded[m].turn \in Nat
              BY <1>1, <3>3, RecordedType
        <4>3. t[n - L].turn \in Nat /\ head \in Nat /\ head <= t[n - L].turn
              BY <1>6, <1>10, <2>a, <3>3 DEF Placed
        <4> QED BY <3>3, <4>1, <4>2, <4>3
      <3>4. CASE /\ m - L \in DOMAIN t /\ recorded'[m] = t[m - L]
                 /\ n - L \in DOMAIN t /\ recorded'[n] = t[n - L]
        <4> DEFINE a == m - L  b == n - L
        <4>1. a < b
              BY <2>a, <3>1
        <4> HIDE DEF a, b
        <4>2. a \in DOMAIN t /\ b \in DOMAIN t /\ recorded'[m] = t[a] /\ recorded'[n] = t[b]
              BY <3>4 DEF a, b
        <4>3. (order[a] - jb.nextSeq) % Wrap < (order[b] - jb.nextSeq) % Wrap
              BY <1>6, <4>1, <4>2
        <4>4. /\ t[a].turn - head < t[b].turn - head
              /\ t[a].turn \in Nat /\ t[b].turn \in Nat /\ head \in Nat
              BY <1>6, <1>10, <2>a, <4>2, <4>3 DEF Placed
        <4> QED BY <4>2, <4>4
      <3>5. ~(/\ m - L \in DOMAIN t /\ (\A k \in DOMAIN recorded : k < m)
              /\ n \in DOMAIN recorded)
            BY <2>a, <3>1
      <3> QED BY <3>1, <3>2, <3>3, <3>4, <3>5
    <2>b. ASSUME kind \in Encrypted, NEW n \in DOMAIN recorded'
          PROVE  recorded'[n].bytes = recorded'[n].turn
      <3>1. \/ n \in DOMAIN recorded /\ recorded'[n] = recorded[n]
            \/ n - Len(recorded) \in DOMAIN t /\ recorded'[n] = t[n - Len(recorded)]
            BY <1>1, <1>3, <1>6, RecordedGrows
      <3> QED BY <1>1, <1>6, <2>b, <3>1 DEF InStreamOrder
    <2> QED BY <1>1, <2>a, <2>b DEF InStreamOrder, Placed
  <1>12. OnTimeIsRecorded'
    <2> SUFFICES ASSUME NEW j \in due
                 PROVE  Recorded(j)' \/ \E k \in strays : Number(k) = Number(j)
        BY <1>1 DEF OnTimeIsRecorded, Kept, Number
    <2>1. \/ \E k \in strays : Number(k) = Number(j)
          \/ Recorded(j)
          \/ Number(j) \in DOMAIN jb.packets /\ jb.packets[Number(j)] = j
          BY <1>1 DEF OnTimeIsRecorded, Kept, JB!Holds
    <2>2. CASE Recorded(j)
      <3>1. PICK n \in DOMAIN recorded : recorded[n].turn = j
            BY <2>2 DEF Recorded
      <3>2. n \in DOMAIN recorded' /\ recorded'[n].turn = j
            BY <1>1, <1>3, <1>6, <3>1, RecordedGrows
      <3> QED BY <3>2 DEF Recorded
    <2>3. CASE Number(j) \in DOMAIN jb.packets /\ jb.packets[Number(j)] = j
      <3>1. PICK n \in DOMAIN t : order[n] = Number(j)
            BY <1>6, <2>3
      <3>2. t[n].turn = j
            BY <1>6, <2>3, <3>1
      <3>3. Len(recorded) + n \in DOMAIN recorded' /\ recorded'[Len(recorded) + n].turn = j
            BY <1>1, <1>3, <1>6, <3>2, RecordedGrows
      <3> QED BY <3>3 DEF Recorded
    <2> QED BY <2>1, <2>2, <2>3
  <1> QED BY <1>7, <1>8, <1>9, <1>11, <1>12 DEF Playing

-----------------------------------------------------------------------------
(* The statistics.                                                         *)

Tallies == [received : Nat, lost : Nat, lastSeq : JB!SeqNums, initialized : BOOLEAN,
            rollover : JB!SeqNums, highest : Nat]

\* The packets counted.
LEMMA SeenIs ==
    ASSUME ReceiveTypeOK
    PROVE  Seen \subseteq Stream /\ IsFiniteSet(Seen) /\ Cardinality(Seen) \in Nat
  <1>1. Seen \subseteq Stream
        BY DEF Seen, ReceiveTypeOK
  <1>2. IsFiniteSet(1 .. N)
        BY StreamSize, FS_Interval
  <1>3. IsFiniteSet(Seen)
        BY <1>1, <1>2, StreamSize, FS_Subset
  <1> QED BY <1>1, <1>3, FS_CardinalityType

\* Statistics are kept by steps that do not count.
LEMMA StatisticsFrame ==
    ASSUME Statistics, UNCHANGED <<kind, start, stats, seen, ordered>> PROVE Statistics'
  <1>1. Seen' = Seen
        BY DEF Seen
  <1>2. Seen = {} => stats' = ST!NewStats
        BY DEF Statistics
  <1>3. ordered' /\ Seen # {} => \E f, l \in Seen : Counted(f, l)'
    <2>1. \A f, l \in Seen : Counted(f, l) => Counted(f, l)'
          BY <1>1 DEF Counted, Number
    <2> QED BY <2>1 DEF Statistics
  <1> QED BY <1>1, <1>2, <1>3 DEF Statistics

\* The first packet.
LEMMA FirstIs ==
    ASSUME stats \in Tallies, ~stats.initialized, NEW s \in JB!SeqNums,
           NEW b, b = ST!Update(stats, s)
    PROVE  /\ b \in Tallies /\ b.initialized /\ b.lost = stats.lost /\ b.lastSeq = s
           /\ b.rollover = stats.rollover /\ b.highest = s
  <1>1. s \in Nat
        BY Sizes DEF JB!SeqNums
  <1>2. b = [received |-> 1, lost |-> stats.lost, lastSeq |-> s, initialized |-> TRUE,
             rollover |-> stats.rollover, highest |-> s]
    <2>1. stats = [received |-> stats.received, lost |-> stats.lost, lastSeq |-> stats.lastSeq,
                   initialized |-> stats.initialized, rollover |-> stats.rollover,
                   highest |-> stats.highest]
          BY DEF Tallies
    <2> QED BY <2>1 DEF ST!Update, ST!First
  <1>3. stats.lost \in Nat /\ stats.rollover \in JB!SeqNums
        BY DEF Tallies
  <1>4. b \in Tallies
        BY <1>1, <1>2, <1>3 DEF Tallies
  <1>5. b.initialized
        BY <1>2
  <1> QED BY <1>2, <1>4, <1>5

\* The packets after it.
LEMMA FollowingIs ==
    ASSUME stats \in Tallies, stats.initialized, NEW s \in JB!SeqNums,
           NEW b, b = ST!Update(stats, s),
           NEW roll, roll = IF s - stats.lastSeq < -Half THEN (stats.rollover + 1) % Wrap
                            ELSE stats.rollover,
           NEW diff, diff = (s - stats.lastSeq) % Wrap
    PROVE  /\ b \in Tallies /\ b.initialized /\ b.lastSeq = s /\ b.rollover = roll
           /\ b.lost = stats.lost + (IF diff > 1 THEN diff - 1 ELSE 0)
           /\ b.highest = IF roll * Wrap + s > stats.highest THEN roll * Wrap + s ELSE stats.highest
  <1> DEFINE gap == IF diff > 1 THEN diff - 1 ELSE 0
             extended == roll * Wrap + s
             high == IF extended > stats.highest THEN extended ELSE stats.highest
  <1>1. /\ stats = [received |-> stats.received, lost |-> stats.lost, lastSeq |-> stats.lastSeq,
                    initialized |-> stats.initialized, rollover |-> stats.rollover,
                    highest |-> stats.highest]
        /\ stats.received \in Nat /\ stats.lost \in Nat /\ stats.lastSeq \in JB!SeqNums
        /\ stats.rollover \in JB!SeqNums /\ stats.highest \in Nat
        BY DEF Tallies
  <1>2. s \in Nat /\ stats.lastSeq \in Nat /\ stats.rollover \in Nat
        BY <1>1, Sizes DEF JB!SeqNums
  <1>3. diff \in Nat /\ gap \in Nat
    <2>1. s - stats.lastSeq \in Int
          BY <1>2
    <2>2. (s - stats.lastSeq) % Wrap \in 0 .. Wrap - 1
          BY <2>1, Sizes
    <2> QED BY <2>2, Sizes
  <1>4. roll \in JB!SeqNums /\ roll \in Nat
    <2>1. (stats.rollover + 1) % Wrap \in JB!SeqNums
          BY <1>2, Sizes DEF JB!SeqNums
    <2> QED BY <1>1, <2>1, Sizes DEF JB!SeqNums
  <1>5. high \in Nat
    <2>1. roll * Wrap \in Nat
          BY <1>4, Sizes
    <2> QED BY <1>1, <1>2, <2>1
  <1>6. b = [stats EXCEPT !.received = @ + 1, !.lost = @ + gap, !.lastSeq = s, !.rollover = roll,
                          !.highest = high]
        BY DEF ST!Update, ST!Following, ST!Rollover, ST!Gap
  <1> HIDE DEF gap, high
  <1>7. b = [received |-> stats.received + 1, lost |-> stats.lost + gap, lastSeq |-> s,
             initialized |-> stats.initialized, rollover |-> roll, highest |-> high]
        BY <1>1, <1>6
  <1>8. stats.received + 1 \in Nat /\ stats.lost + gap \in Nat
        BY <1>1, <1>3
  <1>9. b \in Tallies
        BY <1>4, <1>5, <1>7, <1>8 DEF Tallies
  <1>10. b.initialized
        BY <1>7
  <1>11. b.lastSeq = s /\ b.rollover = roll /\ b.lost = stats.lost + gap /\ b.highest = high
        BY <1>7
  <1> QED BY <1>9, <1>10, <1>11 DEF gap, high

\* The numbers of two packets, the second less than half a turn after the first.
LEMMA Apart ==
    ASSUME ReceiveTypeOK, NEW l \in Stream, NEW i \in Stream, l <= i, i - l < Half
    PROVE  /\ i - l \in Nat
           /\ (Number(i) - Number(l)) % Wrap = i - l
           /\ \/ Number(i) - Number(l) = i - l
              \/ Number(i) - Number(l) = (i - l) - Wrap
  <1> DEFINE x == start + l - 1  g == i - l  a == Number(l)  b == Number(i)  d == b - a
  <1>1. l \in Nat /\ i \in Nat /\ start \in Nat
        BY StreamSize
  <1>2. x \in Int /\ g \in Nat /\ g < Half /\ g < Wrap /\ x + g = start + i - 1
        BY <1>1, Sizes
  <1>3. a = x % Wrap /\ b = (start + i - 1) % Wrap
        BY DEF Number
  <1>4. a \in Int /\ b \in Int
        BY NumberIs, Sizes DEF JB!SeqNums
  <1> HIDE DEF a, b, x, g
  <1>5. b = a + g \/ b = a + g - Wrap
    <2>1. b = (x + g) % Wrap
          BY <1>2, <1>3
    <2>2. \/ (x + g) % Wrap = (x % Wrap) + g
          \/ (x + g) % Wrap = (x % Wrap) + g - Wrap
          BY <1>2, Ahead, Sizes
    <2> QED BY <1>3, <2>1, <2>2
  <1>6. d \in Int /\ (d = g \/ d = g - Wrap)
        BY <1>2, <1>4, <1>5, Sizes
  <1> HIDE DEF d
  <1>7. d % Wrap = g
    <2>1. -Wrap <= d /\ d < Wrap /\ (d < 0 => d = g - Wrap) /\ (~(d < 0) => d = g)
          BY <1>2, <1>6, Sizes
    <2>2. d % Wrap = IF d < 0 THEN d + Wrap ELSE d
      <3>1. d \in Int /\ -Wrap <= d /\ d < 2 * Wrap /\ d < Wrap
            BY <1>6, <2>1, Sizes
      <3> QED BY <3>1, Sizes, Turn
    <2> QED BY <1>2, <1>6, <2>1, <2>2, Sizes
  <1>8. (b - a) % Wrap = g /\ (b - a = g \/ b - a = g - Wrap)
        BY <1>6, <1>7 DEF d
  <1> QED BY <1>2, <1>8 DEF a, b, g

\* What the extended number says of the rollover.
LEMMA RolloverBound ==
    ASSUME NEW w \in Nat \ {0}, NEW k \in Nat, NEW s \in Nat, k * w + s < w * w
    PROVE  k < w
  <1>1. k >= w => k * w >= w * w
        BY Z3
  <1>2. k * w \in Nat /\ w * w \in Nat
        OBVIOUS
  <1> QED BY <1>1, <1>2

\* The first packet counted.
LEMMA CountFirst ==
    ASSUME ReceiveTypeOK, Statistics, Seen = {}, NEW i \in Stream,
           stats' = ST!Update(stats, Number(i)), Seen' = {i}, UNCHANGED <<kind, start>>
    PROVE  stats' \in Tallies /\ Statistics'
  <1>1. stats \in Tallies /\ stats = ST!NewStats
        BY DEF ReceiveTypeOK, Tallies, Statistics
  <1>2. ~stats.initialized /\ stats.lost = 0 /\ stats.rollover = 0
        BY <1>1 DEF ST!NewStats
  <1>3. Number(i) \in JB!SeqNums /\ i \in Nat
        BY NumberIs, StreamSize
  <1>4. /\ stats' \in Tallies /\ stats'.initialized /\ stats'.lost = 0
        /\ stats'.lastSeq = Number(i) /\ stats'.rollover = 0 /\ stats'.highest = Number(i)
        BY <1>1, <1>2, <1>3, FirstIs
  <1>5. Cardinality(Seen') = 1
        BY FS_Singleton
  <1>6. Counted(i, i)'
    <2>1. stats'.lost = (i - i + 1) - Cardinality(Seen')
          BY <1>3, <1>4, <1>5
    <2>2. /\ stats'.highest = Number(i) + (i - i)
          /\ stats'.highest = stats'.rollover * Wrap + stats'.lastSeq
          BY <1>3, <1>4, Sizes DEF JB!SeqNums
    <2> QED BY <1>3, <1>4, <2>1, <2>2 DEF Counted, Number
  <1>7. Statistics'
        BY <1>6 DEF Statistics
  <1> QED BY <1>4, <1>7

\* A packet counted after others, none of them later.
LEMMA CountNext ==
    ASSUME ReceiveTypeOK, NEW f \in Seen, NEW l \in Seen, Counted(f, l), NEW i \in Stream,
           \A j \in Seen : j <= i, i - l < Half,
           stats' = ST!Update(stats, Number(i)), Seen' = Seen \union {i}, UNCHANGED <<kind, start>>
    PROVE  Counted(f, i)'
  <1> DEFINE s == Number(i)  c == Cardinality(Seen)
             diff == (s - stats.lastSeq) % Wrap
             roll == IF s - stats.lastSeq < -Half THEN (stats.rollover + 1) % Wrap
                     ELSE stats.rollover
  <1>1. /\ f \in Stream /\ l \in Stream /\ f \in Nat /\ l \in Nat /\ i \in Nat /\ f <= l /\ l <= i
        /\ c \in Nat /\ s \in JB!SeqNums /\ s \in Nat
    <2>1. f \in Stream /\ l \in Stream /\ c \in Nat
          BY SeenIs
    <2>2. f \in Nat /\ l \in Nat /\ i \in Nat
          BY <2>1, StreamSize
    <2>3. f <= l /\ l <= i
          BY DEF Counted
    <2>4. s \in JB!SeqNums /\ s \in Nat
          BY NumberIs, Sizes DEF JB!SeqNums
    <2> QED BY <2>1, <2>2, <2>3, <2>4
  <1>2. /\ stats.initialized /\ stats.lost = (l - f + 1) - c /\ stats.highest = Number(f) + (l - f)
        /\ stats.lastSeq = Number(l) /\ stats \in Tallies
        /\ stats.highest = stats.rollover * Wrap + stats.lastSeq
        BY DEF Counted, ReceiveTypeOK, Tallies
  <1>3. /\ stats'.initialized /\ stats'.lastSeq = s /\ stats'.rollover = roll
        /\ stats'.lost = stats.lost + (IF diff > 1 THEN diff - 1 ELSE 0)
        /\ stats'.highest = IF roll * Wrap + s > stats.highest THEN roll * Wrap + s
                            ELSE stats.highest
        BY <1>1, <1>2, FollowingIs
  <1>4. /\ i - l \in Nat /\ i - l < Half /\ diff = i - l
        /\ \/ s - stats.lastSeq = i - l
           \/ s - stats.lastSeq = (i - l) - Wrap
        BY <1>1, <1>2, Apart
  <1>5. /\ Number(l) \in Nat /\ Number(f) \in Nat /\ Number(f) < Wrap
        /\ stats.rollover \in Nat /\ stats.rollover < Wrap
        /\ i <= N /\ N \in Nat /\ N <= Wrap * (Wrap - 1)
    <2>1. Number(l) \in JB!SeqNums /\ Number(f) \in JB!SeqNums /\ stats.rollover \in JB!SeqNums
          BY <1>1, <1>2, NumberIs DEF Tallies
    <2>2. i <= N /\ N \in Nat /\ N <= Wrap * (Wrap - 1)
          BY StreamSize
    <2> HIDE DEF s, c, diff, roll
    <2> QED BY <2>1, <2>2, Sizes DEF JB!SeqNums
  <1>6. \A j \in Seen' : f <= j /\ j <= i
        BY <1>1 DEF Counted
  <1>7. Cardinality(Seen') = IF i = l THEN c ELSE c + 1
    <2>1. i \in Seen <=> i = l
          BY <1>1 DEF Counted
    <2>2. IsFiniteSet(Seen)
          BY SeenIs
    <2> QED BY <2>1, <2>2, FS_AddElement
  <1> HIDE DEF c, s, diff
  <1>8. stats'.lost = (i - f + 1) - Cardinality(Seen')
        BY <1>1, <1>2, <1>3, <1>4, <1>7
  \* The extended number goes up with the place.
  <1>9. /\ stats'.highest = Number(f) + (i - f)
        /\ stats'.highest = roll * Wrap + s
    <2>1. roll \in Nat /\ roll * Wrap + s = stats.highest + (i - l)
      <3>1. CASE s - stats.lastSeq = i - l
        <4>1. roll = stats.rollover
              BY <1>2, <1>4, <3>1, Sizes
        <4> HIDE DEF roll
        <4>2. stats.rollover * Wrap \in Nat
              BY <1>5, Sizes
        <4> QED BY <1>1, <1>2, <1>4, <1>5, <3>1, <4>1, <4>2
      <3>2. CASE s - stats.lastSeq = (i - l) - Wrap
        <4> DEFINE k == stats.rollover + 1  h == stats.rollover * Wrap
        <4>1. s - stats.lastSeq < -Half
              BY <1>4, <3>2, Sizes
        <4>2. h \in Nat /\ k \in Nat /\ k * Wrap = h + Wrap
              BY <1>5, Sizes
        <4> HIDE DEF h
        <4>3. k * Wrap + s = stats.highest + (i - l)
              BY <1>1, <1>2, <1>4, <1>5, <3>2, <4>2, Sizes DEF h
        <4>4. stats.highest + (i - l) < Wrap + N
              BY <1>1, <1>2, <1>4, <1>5, Sizes
        <4>5. Wrap + Wrap * (Wrap - 1) = Wrap * Wrap /\ Wrap * (Wrap - 1) \in Nat
              BY Sizes
        <4>6. k < Wrap
          <5>1. k * Wrap + s < Wrap * Wrap
                BY <1>1, <1>5, <4>2, <4>3, <4>4, <4>5, Sizes
          <5> HIDE DEF k
          <5> QED BY <1>1, <4>2, <5>1, RolloverBound, Sizes
        <4>7. k % Wrap = k
          <5> HIDE DEF k
          <5> QED BY <4>2, <4>6, Turn, Sizes
        <4>8. roll = k
              BY <4>1, <4>7
        <4> HIDE DEF k, roll
        <4> QED BY <4>2, <4>3, <4>8
      <3> QED BY <1>4, <3>1, <3>2
    <2> HIDE DEF roll
    <2>2. roll * Wrap \in Nat
          BY <2>1, Sizes
    <2>3. stats.highest \in Nat
          BY <1>2 DEF Tallies
    <2> QED BY <1>1, <1>2, <1>3, <1>4, <1>5, <2>1, <2>2, <2>3
  <1>10. i \in Seen' /\ f \in Seen'
        OBVIOUS
  <1> HIDE DEF roll
  <1> QED BY <1>3, <1>6, <1>8, <1>9, <1>10 DEF Counted, Number, s

\* A reader counts the packet it holds.
LEMMA Near ==
    ASSUME ReceiveInv, NEW r \in Readers, Count(r), NEW l \in Seen,
           \A j \in Seen : j <= l
    PROVE  pkt[r] - l < Half
  <1>1. PICK j \in Seen \union {0} : pkt[r] <= j + 2 * (Horizon + 1)
        BY DEF ReceiveInv, InReach, Held, Count
  <1>2. pkt[r] \in Stream /\ Seen \subseteq Stream
        BY SeenIs DEF ReceiveInv, Loops, Count
  <1>3. pkt[r] \in Nat /\ l \in Nat /\ j \in Nat /\ j <= l
        BY <1>1, <1>2, StreamSize DEF ReceiveInv
  <1> QED BY <1>1, <1>3, Sizes

\* A packet is counted.
LEMMA CountStep ==
    ASSUME ReceiveInv, NEW r \in Readers, Count(r)
    PROVE  stats' \in Tallies /\ seen' \in [Readers -> SUBSET Stream] /\ ordered' \in BOOLEAN
           /\ Statistics'
  <1>1. PICK i \in Stream : i = pkt[r]
        BY DEF ReceiveInv, Loops, Count
  <1>2. /\ ReceiveTypeOK /\ Statistics /\ pc[r] = "count"
        /\ stats' = ST!Update(stats, Number(i)) /\ seen' = [seen EXCEPT ![r] = @ \union {i}]
        /\ (ordered' <=> ordered /\ \A j \in Seen : j <= i)
        /\ UNCHANGED <<kind, start>>
        BY <1>1 DEF ReceiveInv, Count
  <1>3. seen \in [Readers -> SUBSET Stream]
        BY <1>2 DEF ReceiveTypeOK
  <1>4. seen' \in [Readers -> SUBSET Stream] /\ Seen' = Seen \union {i}
        BY <1>1, <1>2, <1>3 DEF Seen
  <1>5. ordered' \in BOOLEAN
        BY DEF Count
  <1>6. CASE Seen = {}
        BY <1>1, <1>2, <1>4, <1>5, <1>6, CountFirst
  <1>7. CASE Seen # {}
    <2>1. stats \in Tallies
          BY <1>2 DEF ReceiveTypeOK, Tallies
    <2>2. Number(i) \in JB!SeqNums
          BY <1>1, <1>2, NumberIs
    <2>3. stats' \in Tallies
      <3>1. CASE stats.initialized
            BY <1>2, <2>1, <2>2, <3>1, FollowingIs
      <3>2. CASE ~stats.initialized
            BY <1>2, <2>1, <2>2, <3>2, FirstIs
      <3> QED BY <3>1, <3>2
    <2>4. ASSUME ordered' PROVE \E f, l \in Seen' : Counted(f, l)'
      <3>1. PICK f \in Seen, l \in Seen : Counted(f, l)
            BY <1>2, <1>7, <2>4 DEF Statistics
      <3>2. \A j \in Seen : j <= i
            BY <1>2, <2>4
      <3>3. i - l < Half
            BY <1>1, <3>1, Near DEF Counted
      <3>4. Counted(f, i)'
            BY <1>1, <1>2, <1>4, <3>1, <3>2, <3>3, CountNext
      <3> QED BY <1>4, <3>4
    <2>5. Statistics'
          BY <1>4, <2>4 DEF Statistics
    <2> QED BY <1>4, <1>5, <2>3, <2>5
  <1> QED BY <1>6, <1>7

-----------------------------------------------------------------------------
(* The digits.                                                             *)

Collectors == [digits : Seq(Nat), lastTS : Presses \union {0}, lastEvt : Nat, seeded : BOOLEAN]

\* The expected digits and those of the key presses.
LEMMA Codes ==
    /\ Expected \in Seq(Nat) /\ Len(Expected) \in Nat
    /\ Presses \subseteq Nat \ {0} /\ Presses \union {0} \subseteq Nat
    /\ \A k \in Presses : Digit[k] \in Nat
  <1>1. Digit \in Seq(Nat) /\ Expected \in Seq(Nat)
        BY ReceiveAssumption
  <1>2. DOMAIN Digit = 1 .. Len(Digit) /\ Len(Expected) \in Nat
        BY <1>1, LenProperties
  <1>3. \A k \in Presses : Digit[k] \in Nat
        BY <1>1, <1>2, ElementOfSeq DEF Presses
  <1> QED BY <1>1, <1>2, <1>3 DEF Presses

\* The digits with one more.
LEMMA AppendIs ==
    ASSUME NEW ds \in Seq(Nat), NEW d \in Nat, NEW es, es = Append(ds, d), NEW l, l = Len(ds)
    PROVE  /\ es \in Seq(Nat) /\ Len(es) = l + 1 /\ l \in Nat
           /\ DOMAIN ds = 1 .. l /\ DOMAIN es = 1 .. l + 1
           /\ es[l + 1] = d /\ \A n \in 1 .. l : es[n] = ds[n]
  <1>1. l \in Nat /\ DOMAIN ds = 1 .. l
        BY LenProperties
  <1>2. es \in Seq(Nat) /\ Len(es) = l + 1 /\ es[l + 1] = d /\ \A n \in 1 .. l : es[n] = ds[n]
        BY <1>1, AppendProperties
  <1>3. DOMAIN es = 1 .. l + 1
        BY <1>2, LenProperties
  <1> QED BY <1>1, <1>2, <1>3

\* One more digit is one more expected digit, if it is the next one.
LEMMA ContainAppend ==
    ASSUME NEW ds \in Seq(Nat), NEW d \in Nat, NEW m \in Nat
    PROVE  Contain(Append(ds, d), m) <=> \/ Contain(ds, m)
                                         \/ m >= 1 /\ Contain(ds, m - 1) /\ Expected[m] = d
  <1> DEFINE es == Append(ds, d)  l == Len(ds)
  <1>1. /\ l \in Nat /\ DOMAIN ds = 1 .. l /\ DOMAIN es = 1 .. l + 1
        /\ es[l + 1] = d /\ \A n \in 1 .. l : es[n] = ds[n]
        BY AppendIs
  <1> HIDE DEF es, l
  <1>2. ASSUME Contain(ds, m) PROVE Contain(es, m)
    <2>1. PICK at \in [1 .. m -> 1 .. l] : /\ \A j, n \in 1 .. m : j < n => at[j] < at[n]
                                           /\ \A n \in 1 .. m : ds[at[n]] = Expected[n]
          BY <1>1, <1>2 DEF Contain
    <2>2. at \in [1 .. m -> 1 .. l + 1]
          BY <1>1, <2>1
    <2>3. \A n \in 1 .. m : es[at[n]] = Expected[n]
          BY <1>1, <2>1
    <2> QED BY <1>1, <2>1, <2>2, <2>3 DEF Contain
  <1>3. ASSUME m >= 1, Contain(ds, m - 1), Expected[m] = d PROVE Contain(es, m)
    <2>1. PICK at \in [1 .. m - 1 -> 1 .. l] :
               /\ \A j, n \in 1 .. m - 1 : j < n => at[j] < at[n]
               /\ \A n \in 1 .. m - 1 : ds[at[n]] = Expected[n]
          BY <1>1, <1>3 DEF Contain
    <2> DEFINE bt == [n \in 1 .. m |-> IF n = m THEN l + 1 ELSE at[n]]
    <2>2. \A n \in 1 .. m : n = m \/ n \in 1 .. m - 1
          OBVIOUS
    <2>3. bt \in [1 .. m -> 1 .. l + 1]
      <3>1. \A n \in 1 .. m : bt[n] \in 1 .. l + 1
            BY <1>1, <2>1, <2>2
      <3> QED BY <3>1
    <2>4. \A j, n \in 1 .. m : j < n => bt[j] < bt[n]
      <3> TAKE j, n \in 1 .. m
      <3> HAVE j < n
      <3>1. j \in 1 .. m - 1 /\ bt[j] = at[j] /\ at[j] \in 1 .. l
            BY <2>1, <2>2
      <3>2. CASE n = m
            BY <1>1, <3>1, <3>2
      <3>3. CASE n \in 1 .. m - 1
            BY <2>1, <3>1, <3>3
      <3> QED BY <2>2, <3>2, <3>3
    <2>5. \A n \in 1 .. m : es[bt[n]] = Expected[n]
      <3> TAKE n \in 1 .. m
      <3>1. CASE n = m
            BY <1>1, <1>3, <3>1
      <3>2. CASE n # m
        <4>1. n \in 1 .. m - 1 /\ bt[n] = at[n] /\ at[n] \in 1 .. l
              BY <2>1, <2>2, <3>2
        <4> QED BY <1>1, <2>1, <4>1
      <3> QED BY <3>1, <3>2
    <2> HIDE DEF bt
    <2> QED BY <1>1, <2>3, <2>4, <2>5 DEF Contain
  <1>4. ASSUME Contain(es, m)
        PROVE  Contain(ds, m) \/ (m >= 1 /\ Contain(ds, m - 1) /\ Expected[m] = d)
    <2>1. PICK at \in [1 .. m -> 1 .. l + 1] : /\ \A j, n \in 1 .. m : j < n => at[j] < at[n]
                                               /\ \A n \in 1 .. m : es[at[n]] = Expected[n]
          BY <1>1, <1>4 DEF Contain
    <2>2. CASE \A n \in 1 .. m : at[n] \in 1 .. l
      <3>1. at \in [1 .. m -> 1 .. l]
            BY <2>1, <2>2
      <3>2. \A n \in 1 .. m : ds[at[n]] = Expected[n]
            BY <1>1, <2>1, <2>2
      <3> QED BY <1>1, <2>1, <3>1, <3>2 DEF Contain
    <2>3. CASE \E n \in 1 .. m : at[n] \notin 1 .. l
      <3>1. PICK k \in 1 .. m : at[k] \notin 1 .. l
            BY <2>3
      <3>2. at[k] = l + 1
            BY <1>1, <2>1, <3>1
      <3>3. k = m
        <4>1. SUFFICES ASSUME k # m PROVE FALSE
              OBVIOUS
        <4>2. m \in 1 .. m /\ k < m
              BY <4>1
        <4>3. at[k] < at[m] /\ at[m] \in 1 .. l + 1
              BY <2>1, <4>2
        <4> QED BY <1>1, <3>2, <4>3
      <3>4. m >= 1 /\ Expected[m] = d
            BY <1>1, <2>1, <3>2, <3>3
      <3> DEFINE bt == [n \in 1 .. m - 1 |-> at[n]]
      <3>5. \A n \in 1 .. m - 1 : n \in 1 .. m /\ n < m /\ m \in 1 .. m
            BY <3>4
      <3>6. \A n \in 1 .. m - 1 : at[n] \in 1 .. l
            BY <1>1, <2>1, <3>2, <3>3, <3>5
      <3>7. bt \in [1 .. m - 1 -> 1 .. l]
            BY <3>6
      <3>8. \A j, n \in 1 .. m - 1 : j < n => bt[j] < bt[n]
            BY <2>1, <3>5
      <3>9. \A n \in 1 .. m - 1 : ds[bt[n]] = Expected[n]
            BY <1>1, <2>1, <3>5, <3>6
      <3> HIDE DEF bt
      <3>10. Contain(ds, m - 1)
            BY <1>1, <3>7, <3>8, <3>9 DEF Contain
      <3> QED BY <3>4, <3>10
    <2> QED BY <2>2, <2>3
  <1> QED BY <1>2, <1>3, <1>4 DEF es

\* No digits contain no expected ones.
LEMMA GreedyEmpty == Greedy(<< >>)
  <1> DEFINE ds == << >>  L == Len(Expected)
  <1>1. L \in Nat /\ Len(ds) = 0 /\ DOMAIN ds = {}
        BY Codes
  <1> HIDE DEF ds, L
  <1> DEFINE ei == [n \in 0 .. 0 |-> 1]
  <1>2. ei \in [0 .. 0 -> 1 .. L + 1] /\ ei[0] = 1
        BY <1>1
  <1>3. DTMF!Pass(ei, ds, Expected)
        BY <1>1, <1>2 DEF DTMF!Pass, L
  <1>4. ASSUME NEW fi, DTMF!Pass(fi, ds, Expected) PROVE fi = ei
    <2>1. fi \in [0 .. 0 -> 1 .. L + 1] /\ fi[0] = 1
          BY <1>1, <1>4 DEF DTMF!Pass, L
    <2> QED BY <2>1
  <1>5. ASSUME NEW m \in 0 .. L PROVE Contain(ds, m) <=> m < ei[0]
    <2>1. CASE m = 0
      <3> DEFINE at == [n \in 1 .. 0 |-> 0]
      <3>1. at \in [1 .. 0 -> DOMAIN ds]
            OBVIOUS
      <3> HIDE DEF at
      <3>2. /\ \A j, n \in 1 .. 0 : j < n => at[j] < at[n]
            /\ \A n \in 1 .. 0 : ds[at[n]] = Expected[n]
            OBVIOUS
      <3>3. Contain(ds, 0)
            BY <3>1, <3>2, Zenon DEF Contain
      <3> QED BY <1>2, <2>1, <3>3
    <2>2. CASE m # 0
      <3>1. 1 \in 1 .. m
            BY <1>1, <2>2
      <3>2. ~Contain(ds, m)
            BY <1>1, <3>1 DEF Contain
      <3> QED BY <1>1, <1>2, <2>2, <3>2
    <2> QED BY <2>1, <2>2
  <1> HIDE DEF ei
  <1>6. Greedy(ds)
        BY <1>1, <1>2, <1>3, <1>4, <1>5 DEF Greedy, L
  <1> QED BY <1>6 DEF ds

\* Functions are equal when their values are.
LEMMA SameFunction ==
    ASSUME NEW S, NEW T, NEW f \in [S -> T], NEW g \in [S -> T], \A x \in S : f[x] = g[x]
    PROVE  f = g
  OBVIOUS

\* One more digit moves the pass on by one if it is the one looked for.
LEMMA GreedyAppend ==
    ASSUME NEW ds \in Seq(Nat), NEW d \in Nat, Greedy(ds) PROVE Greedy(Append(ds, d))
  <1> DEFINE es == Append(ds, d)  l == Len(ds)  L == Len(Expected)
  <1>1. /\ l \in Nat /\ L \in Nat /\ DOMAIN ds = 1 .. l /\ Len(es) = l + 1
        /\ es[l + 1] = d /\ \A n \in 1 .. l : es[n] = ds[n]
        BY AppendIs, Codes
  <1>2. \A m \in Nat : Contain(es, m) <=> \/ Contain(ds, m)
                                          \/ m >= 1 /\ Contain(ds, m - 1) /\ Expected[m] = d
        BY ContainAppend
  <1>3. PICK ei \in [0 .. l -> 1 .. L + 1] :
             /\ DTMF!Pass(ei, ds, Expected)
             /\ \A fi \in [0 .. l -> 1 .. L + 1] : DTMF!Pass(fi, ds, Expected) => fi = ei
             /\ \A m \in 0 .. L : Contain(ds, m) <=> m < ei[l]
        BY DEF Greedy
  <1> HIDE DEF es, l, L
  <1> DEFINE v == ei[l]
             w == IF v <= L /\ d = Expected[v] THEN v + 1 ELSE v
             gi == [n \in 0 .. l + 1 |-> IF n = l + 1 THEN w ELSE ei[n]]
  <1>4. v \in 1 .. L + 1 /\ w \in 1 .. L + 1
        BY <1>1, <1>3
  <1>5. ei[0] = 1 /\ \A n \in 1 .. l : ei[n] = DTMF!After(ei[n - 1], ds[n], Expected)
        BY <1>3 DEF DTMF!Pass, l
  <1>6. DTMF!After(v, d, Expected) = w
        BY DEF DTMF!After, L
  <1> HIDE DEF v, w
  <1>7. /\ gi \in [0 .. l + 1 -> 1 .. L + 1] /\ gi[0] = 1 /\ gi[l + 1] = w
        /\ \A n \in 0 .. l : gi[n] = ei[n]
        BY <1>1, <1>3, <1>4, <1>5
  <1> HIDE DEF gi
  <1>8. DTMF!Pass(gi, es, Expected)
    <2>1. ASSUME NEW n \in 1 .. l + 1 PROVE gi[n] = DTMF!After(gi[n - 1], es[n], Expected)
      <3>1. CASE n = l + 1
        <4>1. n - 1 = l /\ gi[l] = v /\ es[n] = d
              BY <1>1, <1>7, <3>1 DEF v
        <4> QED BY <1>6, <1>7, <3>1, <4>1
      <3>2. CASE n # l + 1
        <4>1. n \in 1 .. l /\ n \in 0 .. l /\ n - 1 \in 0 .. l
              BY <1>1, <3>2
        <4>2. gi[n] = ei[n] /\ gi[n - 1] = ei[n - 1] /\ es[n] = ds[n]
              BY <1>1, <1>7, <4>1
        <4> QED BY <1>5, <4>1, <4>2
      <3> QED BY <3>1, <3>2
    <2> QED BY <1>1, <1>7, <2>1 DEF DTMF!Pass, L
  <1>9. ASSUME NEW fi, DTMF!Pass(fi, es, Expected) PROVE fi = gi
    <2>1. /\ fi \in [0 .. l + 1 -> 1 .. L + 1] /\ fi[0] = 1
          /\ \A n \in 1 .. l + 1 : fi[n] = DTMF!After(fi[n - 1], es[n], Expected)
          BY <1>1, <1>9 DEF DTMF!Pass, L
    <2> DEFINE hi == [n \in 0 .. l |-> fi[n]]
    <2>2. \A n \in 0 .. l : n \in 0 .. l + 1
          BY <1>1
    <2>3. hi \in [0 .. l -> 1 .. L + 1] /\ hi[0] = 1 /\ \A n \in 0 .. l : hi[n] = fi[n]
          BY <1>1, <2>1, <2>2
    <2> HIDE DEF hi
    <2>4. \A n \in 1 .. l : hi[n] = DTMF!After(hi[n - 1], ds[n], Expected)
      <3> TAKE n \in 1 .. l
      <3>1. n \in 0 .. l /\ n - 1 \in 0 .. l /\ n \in 1 .. l + 1
            BY <1>1
      <3>2. hi[n] = fi[n] /\ hi[n - 1] = fi[n - 1] /\ es[n] = ds[n]
            BY <1>1, <2>3, <3>1
      <3> QED BY <2>1, <3>1, <3>2
    <2>5. DTMF!Pass(hi, ds, Expected)
          BY <2>3, <2>4 DEF DTMF!Pass, l, L
    <2>6. hi = ei
          BY <1>3, <2>3, <2>5
    <2>7. fi[l + 1] = w
      <3>1. l + 1 \in 1 .. l + 1 /\ (l + 1) - 1 = l /\ l \in 0 .. l
            BY <1>1
      <3>2. fi[l] = v
            BY <2>3, <2>6, <3>1 DEF v
      <3> QED BY <1>1, <1>6, <2>1, <3>1, <3>2
    <2>8. \A n \in 0 .. l + 1 : fi[n] = gi[n]
      <3> TAKE n \in 0 .. l + 1
      <3>1. n = l + 1 \/ n \in 0 .. l
            BY <1>1
      <3> QED BY <1>7, <2>3, <2>6, <2>7, <3>1
    <2> DEFINE A == 0 .. l + 1  B == 1 .. L + 1
    <2>9. fi \in [A -> B] /\ gi \in [A -> B] /\ \A n \in A : fi[n] = gi[n]
          BY <1>7, <2>1, <2>8
    <2> HIDE DEF A, B
    <2> QED BY <2>9, SameFunction
  <1>10. ASSUME NEW m \in 0 .. L PROVE Contain(es, m) <=> m < w
    <2>1. m \in Nat /\ v \in Nat /\ (m >= 1 => m - 1 \in 0 .. L)
          BY <1>1, <1>4
    <2>2. Contain(es, m) <=> m < v \/ (m >= 1 /\ m - 1 < v /\ Expected[m] = d)
          BY <1>2, <1>3, <2>1 DEF v
    <2>3. m < v \/ (m >= 1 /\ m - 1 < v /\ Expected[m] = d) <=> m < v \/ (m = v /\ Expected[v] = d)
          BY <1>4, <2>1
    <2>4. m < v \/ (m = v /\ Expected[v] = d) <=> m < w
          BY <1>1, <1>4, <2>1 DEF w
    <2> QED BY <2>2, <2>3, <2>4
  <1>11. Greedy(es)
    <2>1. /\ gi \in [0 .. Len(es) -> 1 .. Len(Expected) + 1]
          /\ gi[Len(es)] = w
          BY <1>1, <1>7 DEF L
    <2> QED BY <1>8, <1>9, <1>10, <2>1 DEF Greedy, L
  <1> QED BY <1>11 DEF es

\* The verdict is exact because the pass is.
LEMMA VerdictIsExact ==
    ASSUME Greedy(coll.digits)
    PROVE  DTMF!MatchesExpected(coll, Expected) <=> Contain(coll.digits, Len(Expected))
  <1> DEFINE ds == coll.digits  l == Len(ds)  L == Len(Expected)
  <1>1. PICK ei \in [0 .. l -> 1 .. L + 1] :
             /\ DTMF!Pass(ei, ds, Expected)
             /\ \A fi \in [0 .. l -> 1 .. L + 1] : DTMF!Pass(fi, ds, Expected) => fi = ei
             /\ \A m \in 0 .. L : Contain(ds, m) <=> m < ei[l]
        BY DEF Greedy
  <1>2. L \in 0 .. L
        BY Codes
  <1>3. DTMF!MatchesExpected(coll, Expected) <=> ei[l] > L
        BY <1>1 DEF DTMF!MatchesExpected
  <1>4. Contain(ds, L) <=> L < ei[l]
        BY <1>1, <1>2
  <1> QED BY <1>3, <1>4

\* Presses are in the order of the stream.
LEMMA Ascending ==
    ASSUME ReceiveTypeOK, NEW i \in Stream
    PROVE  /\ kind[i] \in Presses \union {0} /\ kind[i] \in Nat
           /\ \A j \in Stream : j <= i /\ kind[i] # 0 => kind[j] <= kind[i]
  <1>1. /\ kind \in Seq({0} \union Presses)
        /\ \A m, n \in DOMAIN kind : m < n /\ kind[n] # 0 => kind[m] <= kind[n]
        BY ReceiveAssumption DEF ReceiveTypeOK
  <1>2. DOMAIN kind = Stream
        BY <1>1, LenProperties DEF Stream, N
  <1>3. kind[i] \in Presses \union {0}
    <2>1. i \in 1 .. Len(kind)
          BY DEF Stream, N
    <2> QED BY <1>1, <2>1, ElementOfSeq
  <1>4. kind[i] \in Nat
        BY <1>3, Codes
  <1>5. Stream \subseteq Nat
        BY StreamSize
  <1>6. ASSUME NEW j \in Stream, j <= i, kind[i] # 0 PROVE kind[j] <= kind[i]
    <2>1. CASE j = i
          BY <1>4, <2>1
    <2>2. CASE j < i
          BY <1>1, <1>2, <1>6, <2>2
    <2> QED BY <1>5, <1>6, <2>1, <2>2
  <1> QED BY <1>3, <1>4, <1>6

\* Steps that neither count nor take.
LEMMA TakenFrame ==
    ASSUME Taken, UNCHANGED <<kind, seen, coll, ordered>>,
           \/ pc'["receive"] = pc["receive"] /\ pkt'["receive"] = pkt["receive"]
           \/ pc["receive"] # "accept" /\ pc'["receive"] # "accept"
    PROVE  Taken'
  <1>1. Heard' = Heard /\ Waiting' = Waiting
        BY DEF Heard, Waiting
  <1>2. \A keys : LastOf(keys)' <=> LastOf(keys)
        BY DEF LastOf
  <1>3. SUFFICES ASSUME ordered, Expected # << >>
                 PROVE  /\ pc'["receive"] = "accept" => \A j \in seen["receive"] : j <= pkt'["receive"]
                        /\ \E keys \in {Heard, Heard \union Waiting} :
                              InOrder(keys, coll.digits) /\ LastOf(keys)'
        BY <1>1 DEF Taken
  <1>4. /\ pc["receive"] = "accept" => \A j \in seen["receive"] : j <= pkt["receive"]
        /\ \E keys \in {Heard, Heard \union Waiting} : InOrder(keys, coll.digits) /\ LastOf(keys)
        BY <1>3 DEF Taken
  <1> QED BY <1>2, <1>4

\* A packet is counted.
LEMMA TakenCount == ASSUME ReceiveInv, NEW r \in Readers, Count(r) PROVE Taken'
  <1>1. PICK i \in Stream : i = pkt[r]
        BY DEF ReceiveInv, Loops, Count
  <1>2. /\ ReceiveTypeOK /\ Taken /\ pc[r] = "count"
        /\ seen' = [seen EXCEPT ![r] = @ \union {i}]
        /\ (ordered' <=> ordered /\ \A j \in Seen : j <= i)
        /\ pc' = [pc EXCEPT ![r] = IF r = "echo" THEN "poll" ELSE IF i \in Audio THEN "push" ELSE "accept"]
        /\ UNCHANGED <<kind, start, coll, pkt>>
        BY <1>1 DEF ReceiveInv, Count, Goto
  <1>3. /\ seen \in [Readers -> SUBSET Stream] /\ "receive" \in Readers
        /\ pc \in [Readers -> {"poll", "reading", "count", "push", "accept", "gone"}]
        BY <1>2 DEF ReceiveTypeOK, Readers
  <1>4. \A keys : LastOf(keys)' <=> LastOf(keys)
        BY <1>2 DEF LastOf
  <1>5. SUFFICES ASSUME ordered', Expected # << >>
                 PROVE  /\ pc'["receive"] = "accept" => \A j \in seen'["receive"] : j <= pkt["receive"]
                        /\ \E keys \in {Heard', Heard' \union Waiting'} :
                              InOrder(keys, coll.digits) /\ LastOf(keys)'
        BY <1>2 DEF Taken
  <1>6. /\ pc["receive"] = "accept" => \A j \in seen["receive"] : j <= pkt["receive"]
        /\ \E keys \in {Heard, Heard \union Waiting} : InOrder(keys, coll.digits) /\ LastOf(keys)
        BY <1>2, <1>5 DEF Taken
  <1>7. CASE r = "echo"
    <2>1. seen'["receive"] = seen["receive"] /\ pc'["receive"] = pc["receive"]
          BY <1>2, <1>3, <1>7
    <2>2. Heard' = Heard /\ Waiting' = Waiting
          BY <1>2, <2>1 DEF Heard, Waiting
    <2> QED BY <1>2, <1>4, <1>6, <2>1, <2>2
  <1>8. CASE r = "receive"
    <2> DEFINE S == seen["receive"]
    <2>1. /\ seen'["receive"] = S \union {i} /\ pc["receive"] = "count" /\ i = pkt["receive"]
          /\ pc'["receive"] = IF i \in Audio THEN "push" ELSE "accept"
          BY <1>1, <1>2, <1>3, <1>8
    <2>2. \A j \in S : j <= i
          BY <1>2, <1>3, <1>5 DEF Seen
    <2>3. i \in Nat
          BY <1>2, StreamSize
    <2>4. Heard = {kind[j] : j \in S} \ {0} /\ Waiting = {}
          BY <2>1 DEF Heard, Waiting
    <2>5. \E keys \in {Heard', Heard' \union Waiting'} : keys = Heard
      <3>1. CASE i \in Audio
        <4>1. kind[i] = 0
              BY <1>5, <3>1 DEF Audio
        <4>2. Heard' = {kind[j] : j \in S \union {i}} \ {0}
              BY <1>2, <2>1, <3>1 DEF Heard
        <4>3. Heard' = Heard
              BY <2>4, <4>1, <4>2
        <4> QED BY <4>3
      <3>2. CASE i \notin Audio
        <4>1. kind[i] # 0
              BY <1>5, <3>2 DEF Audio
        <4>2. /\ Heard' = {kind[j] : j \in (S \union {i}) \ {i}} \ {0}
              /\ Waiting' = {kind[i]}
              BY <1>2, <2>1, <3>2 DEF Heard, Waiting
        <4>3. CASE i \in S
          <5>1. Heard' \union Waiting' = Heard
                BY <2>4, <4>1, <4>2, <4>3
          <5> QED BY <5>1
        <4>4. CASE i \notin S
          <5>1. (S \union {i}) \ {i} = S
                BY <4>4
          <5>2. Heard' = Heard
                BY <2>4, <4>2, <5>1
          <5> QED BY <5>2
        <4> QED BY <4>3, <4>4
      <3> QED BY <3>1, <3>2
    <2> HIDE DEF S
    <2>6. \A j \in seen'["receive"] : j <= pkt["receive"]
          BY <2>1, <2>2, <2>3
    <2>7. \E keys \in {Heard', Heard' \union Waiting'} : InOrder(keys, coll.digits) /\ LastOf(keys)'
          BY <1>4, <1>6, <2>4, <2>5
    <2> QED BY <2>6, <2>7
  <1> QED BY <1>7, <1>8 DEF Readers

\* The digits of one more press, later than the others.
LEMMA InOrderAppend ==
    ASSUME NEW keys \in SUBSET Nat, NEW ds \in Seq(Nat), InOrder(keys, ds), NEW k \in Presses,
           \A j \in keys : j < k
    PROVE  InOrder(keys \union {k}, Append(ds, Digit[k]))
  <1> DEFINE es == Append(ds, Digit[k])  l == Len(ds)
  <1>1. /\ l \in Nat /\ DOMAIN ds = 1 .. l /\ DOMAIN es = 1 .. l + 1
        /\ es[l + 1] = Digit[k] /\ \A n \in 1 .. l : es[n] = ds[n]
        BY AppendIs, Codes
  <1> HIDE DEF es, l
  <1>2. PICK press \in [1 .. l -> keys] :
             /\ \A j \in keys : \E n \in 1 .. l : press[n] = j
             /\ \A m, n \in 1 .. l : m < n => press[m] < press[n]
             /\ \A n \in 1 .. l : ds[n] = Digit[press[n]]
    <2>1. PICK press \in [DOMAIN ds -> keys] :
               /\ \A j \in keys : \E n \in DOMAIN ds : press[n] = j
               /\ \A m, n \in DOMAIN ds : m < n => press[m] < press[n]
               /\ \A n \in DOMAIN ds : ds[n] = Digit[press[n]]
          BY Zenon DEF InOrder
    <2>2. /\ press \in [1 .. l -> keys]
          /\ \A j \in keys : \E n \in 1 .. l : press[n] = j
          /\ \A m, n \in 1 .. l : m < n => press[m] < press[n]
          /\ \A n \in 1 .. l : ds[n] = Digit[press[n]]
          BY <1>1, <2>1
    <2> QED BY <2>2
  <1> DEFINE more == [n \in 1 .. l + 1 |-> IF n = l + 1 THEN k ELSE press[n]]
  <1>3. \A n \in 1 .. l + 1 : n = l + 1 \/ (n \in 1 .. l /\ n # l + 1)
        BY <1>1
  <1>4. l + 1 \in 1 .. l + 1 /\ \A n \in 1 .. l : n \in 1 .. l + 1 /\ n # l + 1
        BY <1>1
  <1>5. /\ more \in [1 .. l + 1 -> keys \union {k}] /\ more[l + 1] = k
        /\ \A n \in 1 .. l : more[n] = press[n]
        BY <1>2, <1>3, <1>4
  <1> HIDE DEF more
  <1>6. \A j \in keys \union {k} : \E n \in 1 .. l + 1 : more[n] = j
        BY <1>2, <1>4, <1>5
  <1>7. \A m, n \in 1 .. l + 1 : m < n => more[m] < more[n]
    <2> TAKE m, n \in 1 .. l + 1
    <2> HAVE m < n
    <2>1. m \in 1 .. l
          BY <1>1
    <2>2. CASE n = l + 1
          BY <1>2, <1>5, <2>1, <2>2
    <2>3. CASE n \in 1 .. l
          BY <1>2, <1>5, <2>1, <2>3
    <2> QED BY <1>3, <2>2, <2>3
  <1>8. \A n \in 1 .. l + 1 : es[n] = Digit[more[n]]
        BY <1>1, <1>2, <1>3, <1>5
  <1>9. InOrder(keys \union {k}, es)
    <2>1. /\ more \in [DOMAIN es -> keys \union {k}]
          /\ \A j \in keys \union {k} : \E n \in DOMAIN es : more[n] = j
          /\ \A m, n \in DOMAIN es : m < n => more[m] < more[n]
          /\ \A n \in DOMAIN es : es[n] = Digit[more[n]]
          BY <1>1, <1>5, <1>6, <1>7, <1>8, Zenon
    <2> QED BY <2>1, Zenon DEF InOrder
  <1> QED BY <1>9 DEF es

\* An end packet is taken.
LEMMA AcceptStep ==
    ASSUME ReceiveInv, AcceptEvent PROVE coll' \in Collectors /\ Taken' /\ Greedy(coll.digits)'
  <1>1. PICK i \in Stream : i = pkt["receive"] /\ i \notin Audio /\ i \in seen["receive"]
        BY DEF ReceiveInv, Loops, AcceptEvent, Readers
  <1>2. PICK k \in Presses : k = kind[i]
        BY <1>1, Ascending DEF ReceiveInv, Audio
  <1>3. /\ ReceiveTypeOK /\ Taken /\ Greedy(coll.digits) /\ Expected # << >>
        /\ coll' = DTMF!Accept(coll, k, Digit[k]) /\ pc["receive"] = "accept"
        /\ pc'["receive"] = "poll" /\ UNCHANGED <<kind, pkt, seen, ordered>>
        BY <1>1, <1>2 DEF ReceiveInv, AcceptEvent, Goto, statVars, Audio, ReceiveTypeOK, Readers
  <1> DEFINE ds == coll.digits  d == Digit[k]
             again == DTMF!Retransmission(coll, k, d)
  <1>4. coll \in Collectors /\ ds \in Seq(Nat) /\ d \in Nat
        BY <1>3, Codes DEF ReceiveTypeOK, Collectors
  <1>5. k \in Nat /\ k # 0
        BY Codes
  <1>6. \/ again /\ coll' = coll
        \/ /\ ~again
           /\ coll' = [digits |-> Append(ds, d), lastTS |-> k, lastEvt |-> d, seeded |-> TRUE]
        BY <1>3 DEF DTMF!Accept
  <1>7. Append(ds, d) \in Seq(Nat)
        BY <1>4, AppendProperties
  <1>8. coll' \in Collectors
    <2>1. CASE coll' = coll
          BY <1>4, <2>1
    <2>2. CASE coll' = [digits |-> Append(ds, d), lastTS |-> k, lastEvt |-> d, seeded |-> TRUE]
      <3> DEFINE es == Append(ds, d)
      <3>1. es \in Seq(Nat)
            BY <1>7
      <3> HIDE DEF es, d
      <3> QED BY <1>4, <2>2, <3>1 DEF Collectors
    <2> QED BY <1>6, <2>1, <2>2
  <1>9. coll'.digits = ds \/ coll'.digits = Append(ds, d)
        BY <1>6
  <1>10. Greedy(coll'.digits)
        BY <1>3, <1>4, <1>9, GreedyAppend
  <1>11. Heard' = Heard \union {k} /\ Waiting = {k} /\ Waiting' = {}
    <2>1. Heard = {kind[j] : j \in seen["receive"] \ {i}} \ {0}
          BY <1>1, <1>3 DEF Heard
    <2>2. Heard' = {kind[j] : j \in seen["receive"]} \ {0}
          BY <1>3 DEF Heard
    <2>3. Waiting = {k} /\ Waiting' = {}
          BY <1>1, <1>2, <1>3 DEF Waiting
    <2> QED BY <1>1, <1>2, <1>5, <2>1, <2>2, <2>3
  <1>12. Heard \subseteq Nat
    <2>1. seen["receive"] \subseteq Stream
          BY <1>3 DEF ReceiveTypeOK, Readers
    <2> QED BY <1>3, <2>1, Ascending DEF Heard
  <1>13. PICK K : K = Heard \union {k}
         OBVIOUS
  <1>14. ASSUME ordered
         PROVE  InOrder(K, coll'.digits) /\ LastOf(K)'
    <2>1. PICK keys \in {Heard, K} : InOrder(keys, ds) /\ LastOf(keys)
          BY <1>3, <1>11, <1>13, <1>14 DEF Taken
    <2>2. keys \subseteq Nat
          BY <1>5, <1>12, <1>13
    \* Whatever was heard is no later press.
    <2>3. \A j \in keys : j <= k
      <3>1. \A j \in seen["receive"] : j <= i /\ j \in Stream
            BY <1>1, <1>3, <1>14 DEF Taken, ReceiveTypeOK, Readers
      <3>2. \A j \in seen["receive"] : kind[j] <= k
            BY <1>2, <1>3, <1>5, <3>1, Ascending
      <3>3. \A j \in Heard : j <= k
            BY <3>2 DEF Heard
      <3> QED BY <1>5, <1>13, <3>3
    <2> HIDE DEF ds, d
    <2>4. CASE k \in keys
      <3>1. keys = K /\ coll.seeded /\ coll.lastTS = k /\ coll.lastEvt = Digit[k]
        <4>1. coll.seeded /\ coll.lastTS \in keys /\ coll.lastEvt = Digit[coll.lastTS] /\ k <= coll.lastTS
              BY <2>1, <2>4 DEF LastOf
        <4>2. coll.lastTS <= k /\ coll.lastTS \in Nat
              BY <2>2, <2>3, <4>1
        <4>3. coll.lastTS = k
              BY <1>5, <4>1, <4>2
        <4> QED BY <1>13, <2>1, <2>4, <4>1, <4>3
      <3>2. again
            BY <3>1 DEF DTMF!Retransmission, d
      <3>3. coll' = coll
            BY <1>6, <3>2
      <3> QED BY <2>1, <3>1, <3>3 DEF LastOf, ds
    <2>5. CASE k \notin keys
      <3>1. keys = Heard /\ \A j \in keys : j < k
            BY <1>5, <1>13, <2>1, <2>2, <2>3, <2>5
      <3>2. ~again
            BY <2>1, <2>5 DEF LastOf, DTMF!Retransmission
      <3>3. /\ coll' = [digits |-> Append(ds, d), lastTS |-> k, lastEvt |-> d, seeded |-> TRUE]
            BY <1>6, <3>2
      <3>4. InOrder(keys \union {k}, Append(ds, d))
            BY <1>4, <2>1, <2>2, <3>1, InOrderAppend DEF d
      <3>5. coll'.digits = Append(ds, d) /\ coll'.lastTS = k /\ coll'.lastEvt = d /\ coll'.seeded
            BY <3>3
      <3>6. LastOf(K)'
        <4>1. k \in K /\ \A j \in K : j <= k
              BY <1>5, <1>13, <2>3, <3>1
        <4> QED BY <3>5, <4>1 DEF LastOf, d
      <3> QED BY <1>13, <3>1, <3>4, <3>5, <3>6
    <2> QED BY <2>4, <2>5
  <1>15. Taken'
    <2> SUFFICES ASSUME ordered, Expected # << >>
                 PROVE  \E keys \in {Heard', Heard' \union Waiting'} :
                            InOrder(keys, coll'.digits) /\ LastOf(keys)'
        BY <1>3 DEF Taken
    <2> QED BY <1>11, <1>13, <1>14
  <1> QED BY <1>8, <1>10, <1>15

-----------------------------------------------------------------------------
(* The invariant.                                                          *)

\* The initial state satisfies the invariant.
LEMMA ReceiveInitInv == ReceiveInit => ReceiveInv
  <1> SUFFICES ASSUME ReceiveInit PROVE ReceiveInv
      OBVIOUS
  <1>1. /\ kind \in Kinds /\ start \in Starts /\ copies = [i \in Stream |-> 0]
        /\ stop = FALSE /\ jbClosed = FALSE /\ registered = TRUE /\ ordered = TRUE
        /\ pkt = [r \in Readers |-> 0] /\ seen = [r \in Readers |-> {}]
        /\ recorded = << >> /\ head = 0 /\ due = {} /\ strays = {}
        BY DEF ReceiveInit
  <1>2. /\ jb.packets = << >> /\ jb.nextSeq = 0 /\ ~jb.started /\ ~jb.delayExpired
        /\ jb = [packets |-> << >>, nextSeq |-> 0, started |-> FALSE, delayExpired |-> FALSE]
        BY DEF ReceiveInit, JB!NewJitterBuffer
  <1>3. pc \in [Readers -> {"poll", "gone"}]
        BY DEF ReceiveInit
  <1>4. Seen = {}
        BY <1>1 DEF Seen
  <1>5. stats = ST!NewStats
        BY DEF ReceiveInit
  <1>6. stats \in Tallies
        BY <1>5, Sizes DEF Tallies, ST!NewStats, JB!SeqNums
  <1>7. DOMAIN jb.packets = {}
        BY <1>2
  <1>8. /\ coll = [digits |-> << >>, lastTS |-> 0, lastEvt |-> 0, seeded |-> FALSE]
         /\ coll.digits = << >> /\ ~coll.seeded
         BY DEF ReceiveInit, DTMF!NewCollector
  <1>9. ReceiveTypeOK
    <2>1. copies \in [Stream -> 0 .. Copies] /\ head \in Stream \union 0 .. MaxPlayed
          BY <1>1, ReceiveAssumption
    <2>2. jb.nextSeq \in JB!SeqNums
          BY <1>2, Sizes DEF JB!SeqNums
    <2>3. recorded \in Seq(Written)
          BY <1>1, EmptySeq
    <2>4. /\ pc \in [Readers -> {"poll", "reading", "count", "push", "accept", "gone"}]
          /\ pkt \in [Readers -> Stream \union {0}] /\ seen \in [Readers -> SUBSET Stream]
          BY <1>1, <1>3
    <2>5. coll \in Collectors
          BY <1>8, EmptySeq DEF Collectors
    <2> QED BY <1>1, <1>6, <1>7, <2>1, <2>2, <2>3, <2>4, <2>5 DEF ReceiveTypeOK, Tallies, Collectors, Written
  <1>10. Loops
        BY <1>1, <1>3 DEF Loops, Readers
  <1>11. Filed
    <2>1. jb \in Buffers
      <3> DEFINE m == << >>
      <3>1. m \in Maps
        <4>1. m \in [{} -> Audio] /\ {} \in SUBSET JB!SeqNums
              OBVIOUS
        <4> HIDE DEF m
        <4> QED BY <4>1, MapIs
      <3>2. jb = [packets |-> m, nextSeq |-> 0, started |-> FALSE, delayExpired |-> FALSE]
            BY <1>2
      <3>3. 0 \in JB!SeqNums
            BY Sizes DEF JB!SeqNums
      <3> HIDE DEF m
      <3> QED BY <3>1, <3>2, <3>3 DEF Buffers
    <2> QED BY <1>1, <1>2, <1>7, <2>1 DEF Filed
  <1>12. AroundHead /\ InStreamOrder
    <2>1. DOMAIN recorded = {}
          BY <1>1
    <2> QED BY <1>7, <2>1 DEF AroundHead, InStreamOrder
  <1>13. OnTimeIsRecorded
        BY <1>1 DEF OnTimeIsRecorded
  <1>14. Statistics
        BY <1>4, <1>5 DEF Statistics
  <1>17. InReach
    <2>1. Arrived = {}
          BY <1>1 DEF Arrived
    <2> QED BY <1>3, <2>1 DEF InReach, Held
  <1>15. Taken
    <2>1. pc["receive"] # "accept" /\ Heard = {}
          BY <1>1, <1>3 DEF Heard, Readers
    <2>2. InOrder({}, coll.digits)
      <3> DEFINE ds == << >>  press == [n \in {} |-> 0]
      <3>1. DOMAIN ds = {} /\ coll.digits = ds /\ press \in [{} -> {}]
            BY <1>8
      <3> HIDE DEF ds, press
      <3>2. /\ press \in [DOMAIN ds -> {}]
            /\ \A m, n \in DOMAIN ds : m < n => press[m] < press[n]
            /\ \A n \in DOMAIN ds : ds[n] = Digit[press[n]]
            BY <3>1
      <3> QED BY <3>1, <3>2, Zenon DEF InOrder
    <2>3. LastOf({})
          BY <1>8 DEF LastOf
    <2> QED BY <2>1, <2>2, <2>3 DEF Taken
  <1>16. Greedy(coll.digits)
         BY <1>8, GreedyEmpty
  <1> QED BY <1>9, <1>10, <1>11, <1>12, <1>13, <1>14, <1>15, <1>16, <1>17 DEF ReceiveInv

\* The loops keep to what they have read.
LEMMA LoopsStep == ASSUME ReceiveInv, ReceiveNext PROVE Loops'
  <1>1. /\ Loops /\ ReceiveTypeOK
        /\ pc \in [Readers -> {"poll", "reading", "count", "push", "accept", "gone"}]
        /\ pkt \in [Readers -> Stream \union {0}] /\ seen \in [Readers -> SUBSET Stream]
        BY DEF ReceiveInv, ReceiveTypeOK
  <1>2. "receive" \in Readers /\ UNCHANGED <<kind, start>>
        BY DEF Readers, ReceiveNext, Loop, Poll, Timeout, Read, Count, AcceptEvent, PushPacket,
               Tick, Flush, Stop
  <1>3. Stream' = Stream /\ Audio' = Audio
        BY <1>2, SameStream
  <1> USE <1>1, <1>2, <1>3 DEF Loops, Goto
  <1>4. ASSUME NEW r \in Readers, Poll(r) PROVE Loops'
        BY <1>4 DEF Poll, playVars, statVars
  <1>5. ASSUME NEW r \in Readers, Timeout(r) PROVE Loops'
        BY <1>5 DEF Timeout, playVars, statVars
  <1>6. ASSUME NEW r \in Readers, NEW i \in Stream, Read(r, i) PROVE Loops'
        BY <1>6 DEF Read, playVars, statVars
  <1>7. ASSUME NEW r \in Readers, Count(r) PROVE Loops'
        BY <1>7 DEF Count, playVars
  <1>8. CASE AcceptEvent
        BY <1>8 DEF AcceptEvent, playVars, statVars
  <1>9. CASE PushPacket
        BY <1>9 DEF PushPacket, statVars
  <1>10. CASE Tick
        BY <1>10 DEF Tick, readVars, statVars
  <1>11. CASE Flush
        BY <1>11 DEF Flush, readVars, statVars
  <1>12. CASE Stop
        BY <1>12 DEF Stop, playVars, readVars, statVars
  <1> QED BY <1>4, <1>5, <1>6, <1>7, <1>8, <1>9, <1>10, <1>11, <1>12 DEF ReceiveNext, Loop

\* Steps that neither read nor count.
LEMMA InReachFrame ==
    ASSUME InReach, UNCHANGED <<kind, copies, pkt, seen>>,
           \A r \in Readers : Held(r)' <=> Held(r)
    PROVE  InReach'
  <1>1. Arrived' = Arrived /\ Seen' = Seen
        BY DEF Arrived, Seen, Stream, N
  <1> QED BY <1>1 DEF InReach

\* The network delivers only what is within its horizon.
LEMMA ReadInReach ==
    ASSUME ReceiveInv, NEW r \in Readers, NEW i \in Stream, Read(r, i)
    PROVE  InReach'
  <1>1. /\ InReach /\ ReceiveTypeOK /\ Seen' = Seen /\ Seen \subseteq Stream
        /\ pkt \in [Readers -> Stream \union {0}] /\ copies \in [Stream -> 0 .. Copies]
        BY SeenIs DEF ReceiveInv, ReceiveTypeOK, Read, statVars, Seen
  <1>2. /\ \A q \in Readers : q # r => pkt'[q] = pkt[q] /\ (Held(q)' <=> Held(q))
        /\ pkt'[r] = i /\ Held(r)' /\ ~Held(r)
        BY <1>1 DEF Read, Goto, Held, ReceiveTypeOK
  <1>3. Arrived' = Arrived \union {i}
    <2>1. Stream' = Stream
          BY DEF Read, Stream, N
    <2>2. \A j \in Stream : copies'[j] = IF j = i THEN copies[j] + 1 ELSE copies[j]
          BY <1>1 DEF Read
    <2>3. copies[i] \in Nat
          BY <1>1
    <2>4. copies[i] + 1 > 0
          BY <2>3
    <2>5. \A j \in Stream : copies'[j] > 0 <=> (j = i \/ copies[j] > 0)
          BY <2>2, <2>4
    <2> QED BY <2>1, <2>5 DEF Arrived
  <1>4. PICK b \in Arrived \union {0} : i <= b + 1 + Horizon
        BY DEF Read
  <1>5. i \in Nat /\ b \in Nat /\ Horizon \in Nat /\ Seen \subseteq Nat
        BY <1>1, <1>4, StreamSize, Sizes DEF Arrived
  <1>6. /\ \E j \in Seen \union {0} : i <= j + 2 * (Horizon + 1)
        /\ \/ \E j \in Seen \union {0} : i <= j + (Horizon + 1)
           \/ \E q \in Readers \ {r} : Held(q) /\ i <= pkt[q] + (Horizon + 1)
    <2>1. CASE b \in Seen \union {0}
      <3>1. i <= b + (Horizon + 1) /\ i <= b + 2 * (Horizon + 1)
            BY <1>4, <1>5
      <3> QED BY <2>1, <3>1
    <2>2. CASE b \notin Seen \union {0}
      <3>1. PICK q \in Readers \ {r} : Held(q) /\ pkt[q] = b
            BY <1>1, <1>2, <1>4, <2>2 DEF InReach
      <3>2. Readers \ {q} = {r}
            BY <3>1 DEF Readers
      <3>3. PICK j \in Seen \union {0} : b <= j + (Horizon + 1)
            BY <1>1, <1>2, <3>1, <3>2 DEF InReach
      <3>4. j \in Nat
            BY <1>5
      <3>5. i <= b + (Horizon + 1) /\ i <= j + 2 * (Horizon + 1)
            BY <1>4, <1>5, <3>3, <3>4
      <3> QED BY <3>1, <3>3, <3>5
    <2> QED BY <2>1, <2>2
  <1>7. \A j \in Arrived' : j \in Seen' \/ \E q \in Readers : Held(q)' /\ pkt'[q] = j
    <2> SUFFICES ASSUME NEW j \in Arrived', j \notin Seen
                 PROVE  \E q \in Readers : Held(q)' /\ pkt'[q] = j
        BY <1>1
    <2>1. CASE j = i
          BY <1>2, <2>1
    <2>2. CASE j # i
      <3>1. PICK q \in Readers : Held(q) /\ pkt[q] = j
            BY <1>1, <1>3, <2>2 DEF InReach
      <3> QED BY <1>2, <3>1
    <2> QED BY <2>1, <2>2
  <1>8. ASSUME NEW q \in Readers, Held(q)'
        PROVE  /\ \E j \in Seen' \union {0} : pkt'[q] <= j + 2 * (Horizon + 1)
               /\ \/ \E j \in Seen' \union {0} : pkt'[q] <= j + (Horizon + 1)
                  \/ \E p \in Readers \ {q} : Held(p)' /\ pkt'[q] <= pkt'[p] + (Horizon + 1)
    <2>1. CASE q = r
          BY <1>1, <1>2, <1>6, <2>1
    <2>2. CASE q # r
          BY <1>1, <1>2, <1>8, <2>2 DEF InReach
    <2> QED BY <2>1, <2>2
  <1> QED BY <1>7, <1>8 DEF InReach

\* A packet that is counted takes the place of one that is held.
LEMMA CountInReach ==
    ASSUME ReceiveInv, NEW r \in Readers, Count(r)
    PROVE  InReach'
  <1>1. /\ InReach /\ Arrived' = Arrived /\ UNCHANGED pkt /\ Seen' = Seen \union {pkt[r]}
        BY DEF ReceiveInv, ReceiveTypeOK, Count, Arrived, Seen, Stream, N
  <1>2. /\ \A q \in Readers : q # r => (Held(q)' <=> Held(q))
        /\ Held(r) /\ ~Held(r)'
        BY DEF ReceiveInv, ReceiveTypeOK, Count, Goto, Held
  <1>3. \A i \in Arrived' : i \in Seen' \/ \E q \in Readers : Held(q)' /\ pkt'[q] = i
        BY <1>1, <1>2 DEF InReach
  <1>4. ASSUME NEW q \in Readers, Held(q)'
        PROVE  /\ \E j \in Seen' \union {0} : pkt[q] <= j + 2 * (Horizon + 1)
               /\ \E j \in Seen' \union {0} : pkt[q] <= j + (Horizon + 1)
    <2>1. q # r /\ Held(q) /\ Readers \ {q} = {r}
          BY <1>2, <1>4 DEF Readers
    <2> QED BY <1>1, <2>1 DEF InReach
  <1> QED BY <1>1, <1>3, <1>4 DEF InReach

\* Every step leaves what is read within reach of what is counted.
LEMMA InReachStep == ASSUME ReceiveInv, ReceiveNext PROVE InReach'
  <1>1. InReach /\ pc \in [Readers -> {"poll", "reading", "count", "push", "accept", "gone"}]
        BY DEF ReceiveInv, ReceiveTypeOK
  <1>2. ASSUME NEW r \in Readers, Poll(r) \/ Timeout(r) PROVE InReach'
    <2>1. /\ UNCHANGED <<kind, copies, pkt, seen>>
          /\ \A q \in Readers : Held(q)' <=> Held(q)
          BY <1>1, <1>2 DEF Poll, Timeout, Goto, Held, statVars
    <2> QED BY <1>1, <2>1, InReachFrame
  <1>3. CASE AcceptEvent \/ PushPacket \/ Tick \/ Flush \/ Stop
    <2>1. /\ UNCHANGED <<kind, copies, pkt, seen>>
          /\ \A q \in Readers : Held(q)' <=> Held(q)
          BY <1>1, <1>3 DEF AcceptEvent, PushPacket, Tick, Flush, Stop, Goto, Held, Readers,
                            statVars, readVars
    <2> QED BY <1>1, <2>1, InReachFrame
  <1> QED BY <1>2, <1>3, ReadInReach, CountInReach DEF ReceiveNext, Loop

\* Types of the steps of the loops.
LEMMA LoopTypes ==
    ASSUME ReceiveTypeOK, UNCHANGED <<kind, start, playVars>>,
           stats' \in Tallies, coll' \in Collectors,
           copies' \in [Stream -> 0 .. Copies], pkt' \in [Readers -> Stream \union {0}],
           pc' \in [Readers -> {"poll", "reading", "count", "push", "accept", "gone"}],
           seen' \in [Readers -> SUBSET Stream], ordered' \in BOOLEAN,
           stop' \in BOOLEAN, jbClosed' \in BOOLEAN
    PROVE  ReceiveTypeOK'
  BY SameStream DEF ReceiveTypeOK, playVars, Tallies, Collectors

\* The steps of the loops that neither count nor push, and Hangup.
LEMMA QuietStep ==
    ASSUME ReceiveInv, \/ \E r \in Readers : \/ Poll(r) \/ Timeout(r)
                                             \/ \E i \in Stream : Read(r, i)
                       \/ AcceptEvent \/ Stop
    PROVE  ReceiveTypeOK' /\ Playing' /\ Statistics' /\ Taken' /\ Greedy(coll.digits)'
  <1>1. ReceiveTypeOK /\ Playing /\ Statistics /\ Taken /\ Greedy(coll.digits)
        BY DEF ReceiveInv, Playing
  <1>2. UNCHANGED <<kind, start, playVars, statVars>>
        BY DEF Poll, Timeout, Read, AcceptEvent, Stop
  <1>3. Playing' /\ Statistics'
        BY <1>1, <1>2, PlayingFrame, StatisticsFrame DEF playVars, statVars
  <1>4. /\ stats' \in Tallies /\ seen' \in [Readers -> SUBSET Stream] /\ ordered' \in BOOLEAN
        BY <1>1, <1>2 DEF ReceiveTypeOK, Tallies, statVars
  <1>5. coll' \in Collectors /\ Taken' /\ Greedy(coll.digits)'
    <2>1. CASE AcceptEvent
          BY <2>1, AcceptStep
    <2>2. CASE ~AcceptEvent
      <3>1. coll' = coll /\ UNCHANGED <<kind, seen, ordered>>
            BY <1>2, <2>2 DEF Poll, Timeout, Read, Stop, statVars
      <3>2. \/ pc'["receive"] = pc["receive"] /\ pkt'["receive"] = pkt["receive"]
            \/ pc["receive"] # "accept" /\ pc'["receive"] # "accept"
            BY <1>1, <2>2 DEF ReceiveTypeOK, Readers, Poll, Timeout, Read, Stop, Goto, readVars
      <3> QED BY <1>1, <3>1, <3>2, TakenFrame DEF ReceiveTypeOK, Collectors
    <2> QED BY <2>1, <2>2
  <1>6. /\ pc' \in [Readers -> {"poll", "reading", "count", "push", "accept", "gone"}]
        /\ stop' \in BOOLEAN /\ jbClosed' \in BOOLEAN
        BY <1>1 DEF ReceiveTypeOK, Poll, Timeout, Read, AcceptEvent, Stop, Goto, readVars
  <1>7. copies' \in [Stream -> 0 .. Copies] /\ pkt' \in [Readers -> Stream \union {0}]
    <2>1. ASSUME NEW r \in Readers, NEW i \in Stream, Read(r, i)
          PROVE  copies' \in [Stream -> 0 .. Copies] /\ pkt' \in [Readers -> Stream \union {0}]
      <3>1. copies[i] \in 0 .. Copies /\ copies[i] < Copies
            BY <1>1, <2>1 DEF ReceiveTypeOK, Read
      <3>2. copies[i] + 1 \in 0 .. Copies
            BY <3>1, ReceiveAssumption
      <3> QED BY <1>1, <2>1, <3>2 DEF ReceiveTypeOK, Read
    <2> QED BY <1>1, <2>1 DEF ReceiveTypeOK, Poll, Timeout, AcceptEvent, Stop, readVars
  <1>8. ReceiveTypeOK'
        BY <1>1, <1>2, <1>4, <1>5, <1>6, <1>7, LoopTypes
  <1> QED BY <1>3, <1>5, <1>8

\* Every step keeps the invariant.
LEMMA ReceiveStepInv == ReceiveInv /\ [ReceiveNext]_receiveVars => ReceiveInv'
  <1> SUFFICES ASSUME ReceiveInv, [ReceiveNext]_receiveVars PROVE ReceiveInv'
      OBVIOUS
  <1>1. CASE UNCHANGED receiveVars
    <2>1. ReceiveTypeOK' /\ Loops'
          BY <1>1, SameStream DEF ReceiveInv, receiveVars, ReceiveTypeOK, Loops
    <2>2. Playing' /\ Statistics' /\ Taken'
          BY <1>1, PlayingFrame, StatisticsFrame, TakenFrame DEF ReceiveInv, receiveVars, Playing
    <2>3. Greedy(coll.digits)' /\ InReach'
          BY <1>1, InReachFrame DEF ReceiveInv, receiveVars, Held
    <2> QED BY <2>1, <2>2, <2>3 DEF ReceiveInv, Playing
  <1>2. CASE ReceiveNext
    <2>1. ReceiveTypeOK' /\ Playing' /\ Statistics' /\ Taken' /\ Greedy(coll.digits)'
      <3>1. CASE PushPacket \/ Tick \/ Flush
        <4>1. Statistics'
              BY <3>1, StatisticsFrame DEF ReceiveInv, PushPacket, Tick, Flush, statVars
        <4>2. Taken /\ Greedy(coll.digits) /\ UNCHANGED <<kind, seen, coll, ordered>>
              BY <3>1 DEF ReceiveInv, PushPacket, Tick, Flush, statVars
        <4>3. \/ pc'["receive"] = pc["receive"] /\ pkt'["receive"] = pkt["receive"]
              \/ pc["receive"] # "accept" /\ pc'["receive"] # "accept"
              BY <3>1 DEF ReceiveInv, ReceiveTypeOK, Readers, PushPacket, Tick, Flush, Goto, readVars
        <4>4. Taken' /\ Greedy(coll.digits)'
              BY <4>2, <4>3, TakenFrame
        <4> QED BY <3>1, <4>1, <4>4, PushStep, TickStep, FlushStep
      <3>2. ASSUME NEW r \in Readers, Count(r)
            PROVE  ReceiveTypeOK' /\ Playing' /\ Statistics' /\ Taken' /\ Greedy(coll.digits)'
        <4>1. /\ ReceiveTypeOK /\ Playing /\ Greedy(coll.digits)
              /\ UNCHANGED <<kind, start, copies, pkt, stop, jbClosed, playVars, coll>>
              BY <3>2 DEF ReceiveInv, Playing, Count
        <4>2. Playing'
              BY <4>1, PlayingFrame DEF playVars
        <4>3. /\ pc' \in [Readers -> {"poll", "reading", "count", "push", "accept", "gone"}]
              /\ copies' \in [Stream -> 0 .. Copies] /\ pkt' \in [Readers -> Stream \union {0}]
              /\ stop' \in BOOLEAN /\ jbClosed' \in BOOLEAN /\ coll' \in Collectors
              BY <3>2, <4>1 DEF ReceiveTypeOK, Count, Goto, Collectors
        <4>4. ReceiveTypeOK' /\ Statistics'
              BY <3>2, <4>1, <4>3, CountStep, LoopTypes
        <4>5. Taken' /\ Greedy(coll.digits)'
              BY <3>2, <4>1, TakenCount
        <4> QED BY <4>2, <4>4, <4>5
      <3>3. CASE \/ \E r \in Readers : Poll(r) \/ Timeout(r) \/ \E i \in Stream : Read(r, i)
                 \/ AcceptEvent \/ Stop
            BY <3>3, QuietStep
      <3> QED BY <1>2, <3>1, <3>2, <3>3 DEF ReceiveNext, Loop
    <2>2. Loops' /\ InReach'
          BY <1>2, LoopsStep, InReachStep
    <2> QED BY <2>1, <2>2 DEF ReceiveInv, Playing
  <1> QED BY <1>1, <1>2

\* The invariant holds in every behaviour.
LEMMA ReceiveInvariant == ReceiveSpec => []ReceiveInv
  BY ReceiveInitInv, ReceiveStepInv, PTL DEF ReceiveSpec

\* Every variable keeps its type, for any stream and any network: telephone
\* events never reach the jitter buffer and no loss count is negative
\* (receiver.go, stats.go).
THEOREM ReceiveTypeCorrect == ReceiveSpec => []ReceiveTypeOK
  <1>1. ReceiveInv => ReceiveTypeOK
        BY DEF ReceiveInv
  <1> QED BY <1>1, ReceiveInvariant, PTL

\* The turns are played in the order of the stream and none twice, strays from
\* the other side of a wrap apart, and an encrypted call writes in each turn the
\* bytes of its packet, for any stream, playout and slack (jitter.go: Push, Tick;
\* srtp.go: DecryptPacket).  A plain call writes what the buffer of its receiver
\* holds by then (receiver.go: buf): no theorem is about its bytes.
THEOREM Order == ReceiveSpec => []InStreamOrder
  <1>1. ReceiveInv => InStreamOrder
        BY DEF ReceiveInv
  <1> QED BY <1>1, ReceiveInvariant, PTL

\* What is pushed before its turn, with no wrap in between, has had its turn or
\* still waits for it, unless a stray has taken its number (jitter.go: Push, Tick).
THEOREM OnTime == ReceiveSpec => []OnTimeIsRecorded
  <1>1. ReceiveInv => OnTimeIsRecorded
        BY DEF ReceiveInv
  <1> QED BY <1>1, ReceiveInvariant, PTL

\* The loss count and the extended sequence number are exact while no packet
\* overtakes another, for any losses and duplicates and across the wrap
\* (stats.go: update).
THEOREM Exact == ReceiveSpec => []StatsExact
  <1>1. ReceiveInv => StatsExact
    <2> SUFFICES ASSUME ReceiveInv, ordered, Seen # {}
                 PROVE  /\ stats.lost = (Latest - Oldest + 1) - Cardinality(Seen)
                        /\ stats.highest = Number(Oldest) + (Latest - Oldest)
        BY DEF StatsExact
    <2>1. PICK f \in Seen, l \in Seen : Counted(f, l)
          BY DEF ReceiveInv, Statistics
    <2>2. Seen \subseteq Nat
          BY SeenIs, StreamSize DEF ReceiveInv
    <2>3. \A j \in Seen : f <= j /\ j <= l
          BY <2>1 DEF Counted
    <2>4. Oldest = f
      <3>1. Oldest \in Seen /\ \A j \in Seen : Oldest <= j
            BY <2>3 DEF Oldest
      <3> QED BY <2>2, <2>3, <3>1
    <2>5. Latest = l
      <3>1. Latest \in Seen /\ \A j \in Seen : j <= Latest
            BY <2>3 DEF Latest
      <3> QED BY <2>2, <2>3, <3>1
    <2> QED BY <2>1, <2>4, <2>5 DEF Counted
  <1> QED BY <1>1, ReceiveInvariant, PTL

\* Each key press counts once and in order while no packet overtakes another,
\* and the verdict on the expected digits is that they are among the collected
\* ones in their order, whatever was collected (dtmf.go: accept, MatchesExpected).
THEOREM Digits == ReceiveSpec => []DigitsExact
  <1>1. ReceiveInv => DigitsExact
    <2> SUFFICES ASSUME ReceiveInv PROVE DigitsExact
        OBVIOUS
    <2>1. DTMF!MatchesExpected(coll, Expected) <=> Contain(coll.digits, Len(Expected))
          BY VerdictIsExact DEF ReceiveInv
    <2>2. ordered /\ Expected # << >> =>
              \E keys \in {Heard, Heard \union Waiting} : InOrder(keys, coll.digits)
          BY DEF ReceiveInv, Taken
    <2> QED BY <2>1, <2>2 DEF DigitsExact
  <1> QED BY <1>1, ReceiveInvariant, PTL
=============================================================================
