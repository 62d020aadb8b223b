------------------------------- MODULE Recorder -------------------------------
(***************************************************************************)
(* The audio recorder of a call (core/rtp/recorder.go) at the end of the   *)
(* call: the reactor still ticks the jitter buffer and writes frames to    *)
(* the recorder, the recorder's goroutine writes them to disk, the         *)
(* receiver closes the jitter buffer and leaves, and the finalizer         *)
(* (sip/handle.go: startFinalize), which waits for the receiver but not    *)
(* for the reactor, takes the recorded bytes and closes the recorder.      *)
(* Frames are numbered in the order in which Write is called.              *)
(***************************************************************************)
EXTENDS Integers, Sequences

CONSTANTS
    Cap,        \* the capacity of writeCh, 4096 in the code
    MaxFrames,  \* bound: frames played before the jitter buffer is closed
    MaxTail     \* bound: frames the jitter buffer still holds then

ASSUME RecorderAssumption == Cap \in Nat \ {0} /\ MaxFrames \in Nat /\ MaxTail \in Nat

VARIABLES
    onDisk,     \* the recorder has a path, and so a channel and a writer
    receiver,   \* "run", then "closed": jb.stop is closed, then "gone": wg.Done
    reactor,    \* "play", "flush" the jitter buffer, "gone": it is removed
    tail,       \* frames left to flush
    taken,      \* frames in buf
    sending,    \* Write has put frame number taken in buf and not sent it yet
    ch,         \* writeCh
    chClosed,
    dropped,    \* DroppedFrames
    writer,     \* fileWriter: "range", "write", "done"
    inHand,     \* the frame it has taken from the channel
    file,       \* frames on disk
    fin,        \* the finalizer
    snapshot,   \* frames that Bytes returned
    played,     \* frames in buf when the jitter buffer was closed (history)
    panicked    \* a panic has ended the process

writeVars == <<taken, sending, ch, dropped, panicked>>
tickVars == <<reactor, tail, taken, sending>>
writerVars == <<writer, inHand, file>>
finVars == <<fin, snapshot>>
recVars == <<onDisk, receiver, reactor, tail, taken, sending, ch, chClosed, dropped, writer,
          inHand, file, fin, snapshot, played, panicked>>

RecInit ==
    /\ onDisk \in BOOLEAN
    /\ receiver = "run" /\ reactor = "play" /\ tail = 0
    /\ taken = 0 /\ sending = FALSE
    /\ ch = << >> /\ chClosed = FALSE /\ dropped = 0
    /\ writer = IF onDisk THEN "range" ELSE "done"
    /\ inHand = 0 /\ file = << >>
    /\ fin = "wait" /\ snapshot = 0 /\ played = 0 /\ panicked = FALSE

-----------------------------------------------------------------------------
(* The receiver returns: jb.Close, then wg.Done.                           *)

ReceiverCloses ==
    /\ ~panicked /\ receiver = "run"
    /\ receiver' = "closed"
    /\ tail' \in 0 .. MaxTail
    /\ played' = taken
    /\ UNCHANGED <<onDisk, reactor, taken, sending, ch, chClosed, dropped, writerVars, finVars, panicked>>

ReceiverDone ==
    /\ ~panicked /\ receiver = "closed"
    /\ receiver' = "gone"
    /\ UNCHANGED <<onDisk, tickVars, ch, chClosed, dropped, writerVars, finVars, played, panicked>>

-----------------------------------------------------------------------------
(* The reactor's ticks of the jitter buffer, and Write in two steps.       *)

\* Write, first half: the frame is in buf.
Take == taken' = taken + 1 /\ sending' = onDisk

PlayTick ==
    /\ ~panicked /\ reactor = "play" /\ receiver = "run" /\ ~sending
    /\ taken < MaxFrames
    /\ Take
    /\ UNCHANGED <<onDisk, receiver, reactor, tail, ch, chClosed, dropped, writerVars, finVars, played, panicked>>

\* A tick sees that the buffer is closed and starts to flush.
FlushTick ==
    /\ ~panicked /\ reactor = "play" /\ receiver # "run" /\ ~sending
    /\ reactor' = "flush"
    /\ UNCHANGED <<onDisk, receiver, tail, writeVars, chClosed, writerVars, finVars, played>>

FlushFrame ==
    /\ ~panicked /\ reactor = "flush" /\ ~sending
    /\ tail > 0 /\ tail' = tail - 1
    /\ Take
    /\ UNCHANGED <<onDisk, receiver, reactor, ch, chClosed, dropped, writerVars, finVars, played, panicked>>

FlushEnds ==
    /\ ~panicked /\ reactor = "flush" /\ ~sending /\ tail = 0
    /\ reactor' = "gone"
    /\ UNCHANGED <<onDisk, receiver, tail, writeVars, chClosed, writerVars, finVars, played>>

\* Slip: a full channel loses the frame without counting it.
SendSilently ==
    /\ ~panicked /\ sending
    /\ \/ /\ chClosed /\ panicked' = TRUE
          /\ UNCHANGED <<sending, ch, dropped>>
       \/ /\ ~chClosed /\ sending' = FALSE
          /\ ch' = IF Len(ch) < Cap THEN Append(ch, taken) ELSE ch
          /\ UNCHANGED <<dropped, panicked>>
    /\ UNCHANGED <<onDisk, receiver, reactor, tail, taken, chClosed, writerVars, finVars, played>>

\* Write, second half: a full channel drops the frame, a closed one panics.
Send ==
    /\ ~panicked /\ sending
    /\ \/ /\ chClosed
          /\ panicked' = TRUE
          /\ UNCHANGED <<sending, ch, dropped>>
       \/ /\ ~chClosed /\ Len(ch) < Cap
          /\ sending' = FALSE
          /\ ch' = Append(ch, taken)
          /\ UNCHANGED <<dropped, panicked>>
       \/ /\ ~chClosed /\ Len(ch) = Cap
          /\ sending' = FALSE
          /\ dropped' = dropped + 1
          /\ UNCHANGED <<ch, panicked>>
    /\ UNCHANGED <<onDisk, receiver, reactor, tail, taken, chClosed, writerVars, finVars, played>>

-----------------------------------------------------------------------------
(* fileWriter.                                                             *)

WriterTakes ==
    /\ ~panicked /\ writer = "range" /\ ch # << >>
    /\ inHand' = Head(ch) /\ ch' = Tail(ch)
    /\ writer' = "write"
    /\ UNCHANGED <<onDisk, receiver, tickVars, chClosed, dropped, file, finVars, played, panicked>>

WriterWrites ==
    /\ ~panicked /\ writer = "write"
    /\ file' = Append(file, inHand) /\ inHand' = 0
    /\ writer' = "range"
    /\ UNCHANGED <<onDisk, receiver, tickVars, ch, chClosed, dropped, finVars, played, panicked>>

\* The range over a closed channel ends when the channel is empty.
WriterEnds ==
    /\ ~panicked /\ writer = "range" /\ chClosed /\ ch = << >>
    /\ writer' = "done"
    /\ UNCHANGED <<onDisk, receiver, tickVars, ch, chClosed, dropped, inHand, file, finVars, played, panicked>>

-----------------------------------------------------------------------------
(* The finalizer.                                                          *)

Advance(from, to) == ~panicked /\ fin = from /\ fin' = to

\* Slip: wg is not waited for.
WaitNotWorkers ==
    /\ Advance("wait", "bytes")
    /\ UNCHANGED <<onDisk, receiver, tickVars, ch, chClosed, dropped, writerVars, snapshot, played, panicked>>

WaitWorkers ==
    /\ Advance("wait", "bytes")
    /\ receiver = "gone"
    /\ UNCHANGED <<onDisk, receiver, tickVars, ch, chClosed, dropped, writerVars, snapshot, played, panicked>>

TakeBytes ==
    /\ Advance("bytes", "close")
    /\ snapshot' = taken
    /\ UNCHANGED <<onDisk, receiver, tickVars, ch, chClosed, dropped, writerVars, played, panicked>>

\* Slip: writeCh is not closed.
CloseForgets ==
    /\ Advance("close", "drain")
    /\ UNCHANGED <<onDisk, receiver, tickVars, ch, chClosed, dropped, writerVars, snapshot, played, panicked>>

CloseChannel ==
    /\ Advance("close", "drain")
    /\ chClosed' = onDisk
    /\ UNCHANGED <<onDisk, receiver, tickVars, ch, dropped, writerVars, snapshot, played, panicked>>

\* Slip: writerDone is not waited for.
CloseFileEarly ==
    /\ Advance("drain", "done")
    /\ UNCHANGED <<onDisk, receiver, tickVars, ch, chClosed, dropped, writerVars, snapshot, played, panicked>>

\* Close waits for the writer and closes the file.
CloseFile ==
    /\ Advance("drain", "done")
    /\ writer = "done"
    /\ UNCHANGED <<onDisk, receiver, tickVars, ch, chClosed, dropped, writerVars, snapshot, played, panicked>>

Receiver == ReceiverCloses \/ ReceiverDone
Flushing == FlushTick \/ FlushFrame \/ FlushEnds \/ Send
Writer == WriterTakes \/ WriterWrites \/ WriterEnds
Finalizer == WaitWorkers \/ TakeBytes \/ CloseChannel \/ CloseFile

RecNext == Receiver \/ PlayTick \/ Flushing \/ Writer \/ Finalizer

RecSpec == RecInit /\ [][RecNext]_recVars

\* Goroutines that can run do; nobody has to hang up.
RecFairSpec == RecSpec /\ WF_recVars(ReceiverDone) /\ WF_recVars(Flushing) /\ WF_recVars(Writer) /\ WF_recVars(Finalizer)

-----------------------------------------------------------------------------
(* Properties.                                                             *)

RecTypeOK ==
    /\ onDisk \in BOOLEAN /\ sending \in BOOLEAN /\ chClosed \in BOOLEAN /\ panicked \in BOOLEAN
    /\ receiver \in {"run", "closed", "gone"} /\ reactor \in {"play", "flush", "gone"}
    /\ tail \in Nat /\ taken \in Nat /\ dropped \in Nat /\ inHand \in Nat
    /\ snapshot \in Nat /\ played \in Nat
    /\ ch \in Seq(Nat) /\ Len(ch) <= Cap /\ file \in Seq(Nat)
    /\ writer \in {"range", "write", "done"}
    /\ fin \in {"wait", "bytes", "close", "drain", "done"}

\* Frames that were sent, in order: on disk, in the writer's hand, queued.
Hand == IF inHand = 0 THEN << >> ELSE <<inHand>>
Sent == file \o Hand \o ch

\* Every frame in buf of a recorder with a file is on disk, on its way, being
\* sent, or counted as dropped, so DroppedFrames is exact; and frames reach
\* the disk in the order they were written (recorder.go: Write, fileWriter).
FramesAccounted ==
    onDisk => /\ taken = Len(Sent) + dropped + (IF sending THEN 1 ELSE 0)
              /\ \A m, n \in 1 .. Len(Sent) : m < n => Sent[m] < Sent[n]

\* When Close has returned no frame is queued or half written, so the file it
\* closed is complete (recorder.go:91: Close flushes all pending writes).
Drained == fin = "done" => ch = << >> /\ inHand = 0

\* The silence ratio is computed from everything that was played before the
\* receiver closed the jitter buffer: the wait group orders Bytes after it
\* (handle.go: startFinalize).
SnapshotCoversPlayed == fin \in {"close", "drain", "done"} => snapshot >= played

\* Once the receiver has returned, Close returns, however slow the disk, and
\* the jitter buffer writes its tail and leaves the reactor, unless the
\* process dies (recorder.go: Close, jitter.go: Tick).
RecorderSettles ==
    receiver # "run" ~> \/ fin = "done" /\ reactor = "gone" /\ tail = 0
                        \/ panicked

\* The recorder is safe for concurrent use, Write against Close included
\* (recorder.go:11).
NoPanic == ~panicked
=============================================================================
