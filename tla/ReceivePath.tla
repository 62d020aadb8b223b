------------------------------ MODULE ReceivePath ------------------------------
(***************************************************************************)
(* The receiving side of a call: the loop of core/rtp/receiver.go (and of  *)
(* ReceiveSRTP), which feeds the statistics, the digit collector and the   *)
(* jitter buffer; the reactor tick that plays the jitter buffer into the   *)
(* recorder; and the loop of core/rtp/echo.go, which in echo mode reads    *)
(* from the same socket.  The remote sends one stream of packets; the      *)
(* network loses, duplicates and reorders them.  A packet is known by its  *)
(* place in the stream.  The payload that a plain call pushes is a slice   *)
(* of the buffer the next read goes to (receiver.go), that of an encrypted *)
(* call is its own (srtp.go: DecryptPacket): a packet's place in the order *)
(* of playout and the bytes written in its turn are told apart.            *)
(***************************************************************************)
EXTENDS Integers, Sequences, FiniteSets

CONSTANTS
    Wrap, Half, Slack,  \* 2^16, 2^15 and 256 in the code
    Kinds,      \* possible streams: what each packet carries, 0 for audio and
                \* k > 0 for an end packet of the k-th key press
    Digit,      \* the event code of each key press
    Expected,   \* cfg.IVRExpect
    Starts,     \* possible sequence numbers of the first packet
    Echoed,     \* the streams that are sent to a call with AudioMode "echo"
    Encrypted,  \* the streams that are sent to a call with SRTP
    Conceal,    \* silenceSize > 0: a missing packet is replaced by silence
    Copies,     \* bound: how often the network delivers one packet
    Horizon,    \* bound: how far a packet may overtake others
    MaxPlayed   \* bound: ticks that play

Presses == DOMAIN Digit
Readers == {"receive", "echo"}

\* A stream ends before its extended sequence numbers outgrow 32 bits, what is
\* lost in a row is less than a quarter of a turn, and the remote sends the end
\* packets of one key press before those of the next.
ASSUME ReceiveAssumption ==
    /\ Wrap \in Nat /\ Half \in Nat /\ Slack \in Nat
    /\ Wrap = 2 * Half /\ 0 < Slack /\ Slack < Half
    /\ Digit \in Seq(Nat) /\ Expected \in Seq(Nat)
    /\ \A k \in Kinds :
          /\ k \in Seq({0} \union Presses) /\ Len(k) <= Wrap * (Wrap - 1)
          /\ \A m, n \in DOMAIN k : m < n /\ k[n] # 0 => k[m] <= k[n]
    /\ Starts \subseteq 0 .. (Wrap - 1)
    /\ Echoed \subseteq Kinds /\ Encrypted \subseteq Kinds /\ Conceal \in BOOLEAN
    /\ Copies \in Nat /\ MaxPlayed \in Nat
    /\ Horizon \in Nat /\ 2 * (Horizon + 1) < Half

JB   == INSTANCE JitterBuffer
ST   == INSTANCE RTPStats
DTMF == INSTANCE DTMFCollector

VARIABLES
    kind,       \* the stream
    start,      \* the sequence number of the first packet of the stream
    copies,     \* how often each packet has been read
    stop,       \* channel stop of the call is closed
    pc,         \* where each reader is
    pkt,        \* the packet each reader has read last
    stats,      \* h.recvStats
    coll,       \* h.dtmfColl
    jb,         \* the jitter buffer
    jbClosed,   \* jb.stop is closed
    registered, \* the jitter buffer is in the reactor
    recorded,   \* the frames the recorder was given
    seen,       \* packets counted by stats, by reader (history)
    ordered,    \* ... and none after a later one (history)
    head,       \* the packet that nextSeq stands for (history)
    due,        \* audio pushed before its turn, no wrap in between (history)
    strays      \* audio taken although its turn is over or a wrap away (history)

readVars == <<copies, pc, pkt>>
histVars == <<due, strays>>
playVars == <<jb, registered, recorded, head, histVars>>
statVars == <<stats, seen, ordered>>
receiveVars == <<kind, start, copies, stop, pc, pkt, stats, coll, jb, jbClosed, registered,
          recorded, seen, ordered, head, histVars>>

N == Len(kind)
Stream == 1 .. N
\* Packets whose payload goes to the jitter buffer: without expected digits
\* the call has no collector and takes telephone events for audio.
Audio == {i \in Stream : kind[i] = 0 \/ Expected = << >>}
Number(i) == (start + i - 1) % Wrap
Lap(i) == (start + i - 1) \div Wrap     \* how often the numbers have wrapped
Arrived == {i \in Stream : copies[i] > 0}
Seen == UNION {seen[r] : r \in Readers}
Goto(r, label) == pc' = [pc EXCEPT ![r] = label]

\* A frame is written in the turn of a packet with the bytes of a packet: its
\* own in an encrypted call, else what the receiver's buffer holds by then.
\* A read may be filling the buffer at that moment, and leaves a mixture.
Silence == [turn |-> 0, bytes |-> 0]
Torn == -1
Bytes(i) ==
    IF kind \in Encrypted THEN {i}
    ELSE {pkt["receive"]} \union (IF pc["receive"] = "reading" THEN {Torn} ELSE {})
Frames(i) == {[turn |-> i, bytes |-> b] : b \in Bytes(i)}

ReceiveInit ==
    /\ kind \in Kinds /\ start \in Starts
    /\ copies = [i \in Stream |-> 0]
    /\ stop = FALSE
    /\ pc = [r \in Readers |-> IF r = "receive" \/ kind \in Echoed THEN "poll" ELSE "gone"]
    /\ pkt = [r \in Readers |-> 0]
    /\ stats = ST!NewStats /\ coll = DTMF!NewCollector /\ jb = JB!NewJitterBuffer
    /\ jbClosed = FALSE /\ registered = TRUE /\ recorded = << >>
    /\ seen = [r \in Readers |-> {}] /\ ordered = TRUE /\ head = 0
    /\ due = {} /\ strays = {}

-----------------------------------------------------------------------------
(* The loops.                                                              *)

\* Slip: the receiver returns without closing its buffer.
PollLeaves(r) ==
    /\ pc[r] = "poll"
    /\ Goto(r, IF stop THEN "gone" ELSE "reading")
    /\ UNCHANGED <<kind, start, copies, pkt, stop, jbClosed, playVars, statVars, coll>>

\* Each turn looks at stop first; the receiver closes its jitter buffer.
Poll(r) ==
    /\ pc[r] = "poll"
    /\ Goto(r, IF stop THEN "gone" ELSE "reading")
    /\ jbClosed' = (jbClosed \/ (stop /\ r = "receive"))
    /\ UNCHANGED <<kind, start, copies, pkt, stop, playVars, statVars, coll>>

\* The read deadline passes.
Timeout(r) ==
    /\ pc[r] = "reading"
    /\ Goto(r, "poll")
    /\ UNCHANGED <<kind, start, copies, pkt, stop, jbClosed, playVars, statVars, coll>>

\* The network delivers packet i to the reader that waits.
Read(r, i) ==
    /\ pc[r] = "reading"
    /\ copies[i] < Copies
    /\ \A j \in Arrived : j - Horizon <= i
    /\ \E j \in Arrived \union {0} : i <= j + 1 + Horizon
    /\ copies' = [copies EXCEPT ![i] = @ + 1]
    /\ pkt' = [pkt EXCEPT ![r] = i]
    /\ Goto(r, "count")
    /\ UNCHANGED <<kind, start, stop, jbClosed, playVars, statVars, coll>>

\* Slip: events go on to the jitter buffer.
CountAndPush(r) ==
    LET i == pkt[r] IN
    /\ pc[r] = "count"
    /\ stats' = ST!Update(stats, Number(i))
    /\ seen' = [seen EXCEPT ![r] = @ \union {i}]
    /\ ordered' = (ordered /\ \A j \in Seen : j <= i)
    /\ Goto(r, IF r = "echo" THEN "poll" ELSE "push")
    /\ UNCHANGED <<kind, start, copies, pkt, stop, jbClosed, playVars, coll>>

\* stats.update; the echo loop then reflects the packet and is done with it.
Count(r) ==
    LET i == pkt[r] IN
    /\ pc[r] = "count"
    /\ stats' = ST!Update(stats, Number(i))
    /\ seen' = [seen EXCEPT ![r] = @ \union {i}]
    /\ ordered' = (ordered /\ \A j \in Seen : j <= i)
    /\ Goto(r, IF r = "echo" THEN "poll" ELSE IF i \in Audio THEN "push" ELSE "accept")
    /\ UNCHANGED <<kind, start, copies, pkt, stop, jbClosed, playVars, coll>>

AcceptEvent ==
    LET k == kind[pkt["receive"]] IN
    /\ pc["receive"] = "accept"
    /\ coll' = DTMF!Accept(coll, k, Digit[k])
    /\ Goto("receive", "poll")
    /\ UNCHANGED <<kind, start, copies, pkt, stop, jbClosed, playVars, statVars>>

PushPacket ==
    LET i == pkt["receive"] IN
    /\ pc["receive"] = "push"
    /\ jb' = JB!Push(jb, Number(i), i)
    /\ head' = IF jb.started THEN head ELSE i
    /\ LET inTurn == head' <= i /\ Lap(head') = Lap(i) IN
          /\ due' = IF inTurn THEN due \union {i} ELSE due
          /\ strays' = IF inTurn \/ JB!TooLate(JB!Begun(jb, Number(i)), Number(i)) THEN strays
                       ELSE strays \union {i}
    /\ Goto("receive", "poll")
    /\ UNCHANGED <<kind, start, copies, pkt, stop, jbClosed, registered, recorded, statVars, coll>>

-----------------------------------------------------------------------------
(* The reactor.                                                            *)

\* What a tick writes: the expected packet, or silence for a missing one.
Writes == IF JB!Holds(jb, jb.nextSeq) THEN {<<f>> : f \in Frames(jb.packets[jb.nextSeq])}
          ELSE {IF Conceal THEN <<Silence>> ELSE << >>}

\* Ticks before the first packet, or during the playout delay, do nothing.
Tick ==
    /\ registered /\ ~jbClosed /\ jb.started
    /\ head < MaxPlayed
    /\ \E frames \in Writes : recorded' = recorded \o frames
    /\ jb' = JB!Played(jb)
    /\ head' = head + 1
    /\ UNCHANGED <<kind, start, readVars, stop, jbClosed, registered, histVars, statVars, coll>>

\* The tick after Close writes what is left and leaves the reactor.  The
\* receiver has returned: nothing is read into its buffer any more.
Flush ==
    /\ registered /\ jbClosed
    /\ \E order \in JB!FlushOrders(jb) :
          LET Left(n) == jb.packets[order[n]] IN
          recorded' = recorded \o
                      [n \in DOMAIN order |-> CHOOSE frame \in Frames(Left(n)) : TRUE]
    /\ jb' = [jb EXCEPT !.packets = << >>]
    /\ registered' = FALSE
    /\ UNCHANGED <<kind, start, readVars, stop, jbClosed, head, histVars, statVars, coll>>

\* Hangup.
Stop ==
    /\ ~stop
    /\ stop' = TRUE
    /\ UNCHANGED <<kind, start, readVars, jbClosed, playVars, statVars, coll>>

Loop(r) == Poll(r) \/ Timeout(r) \/ Count(r) \/ \E i \in Stream : Read(r, i)

ReceiveNext == \/ \E r \in Readers : Loop(r)
               \/ AcceptEvent \/ PushPacket
               \/ Tick \/ Flush
               \/ Stop

ReceiveSpec == ReceiveInit /\ [][ReceiveNext]_receiveVars

\* What the scheduler and the clock provide: goroutines run, a read returns
\* by its deadline at the latest, the reactor ticks.
ReceiveFairness ==
    /\ \A r \in Readers : /\ WF_receiveVars(Poll(r)) /\ WF_receiveVars(Count(r))
                          /\ WF_receiveVars(Timeout(r) \/ \E i \in Stream : Read(r, i))
    /\ WF_receiveVars(AcceptEvent) /\ WF_receiveVars(PushPacket) /\ WF_receiveVars(Flush)

ReceiveFairSpec == ReceiveSpec /\ ReceiveFairness

-----------------------------------------------------------------------------
(* Properties.                                                             *)

\* Every variable keeps its type: telephone-event packets never reach the
\* jitter buffer, and no loss count is negative.
ReceiveTypeOK ==
    /\ kind \in Kinds /\ start \in Starts /\ copies \in [Stream -> 0 .. Copies]
    /\ stop \in BOOLEAN /\ jbClosed \in BOOLEAN /\ registered \in BOOLEAN
    /\ pc \in [Readers -> {"poll", "reading", "count", "push", "accept", "gone"}]
    /\ pkt \in [Readers -> Stream \union {0}]
    /\ stats \in [received : Nat, lost : Nat, lastSeq : JB!SeqNums, initialized : BOOLEAN,
                  rollover : JB!SeqNums, highest : Nat]
    /\ coll \in [digits : Seq(Nat), lastTS : Presses \union {0}, lastEvt : Nat, seeded : BOOLEAN]
    /\ jb.nextSeq \in JB!SeqNums /\ DOMAIN jb.packets \subseteq JB!SeqNums
    /\ \A s \in DOMAIN jb.packets : jb.packets[s] \in Audio
    /\ recorded \in Seq([turn : Audio \union {0}, bytes : Stream \union {0, Torn}])
    /\ seen \in [Readers -> SUBSET Stream] /\ ordered \in BOOLEAN
    /\ head \in Stream \union 0 .. MaxPlayed /\ due \subseteq Audio /\ strays \subseteq Audio

\* The turns are taken in the order of the stream and none twice, however the
\* network reorders and duplicates and wherever Hangup cuts the stream, the
\* tail that Flush writes included (jitter.go: Tick): a frame is out of place
\* only where it is a stray that Push took from the other side of a wrap.  In
\* an encrypted call each frame has the bytes of its own packet; in a plain
\* call the turn is all that is sure (receiver.go: buf).
Placed(i) == i > 0 /\ i \notin strays
InStreamOrder ==
    /\ \A m, n \in DOMAIN recorded :
          m < n /\ Placed(recorded[m].turn) /\ Placed(recorded[n].turn)
              => recorded[m].turn < recorded[n].turn
    /\ kind \in Encrypted => \A n \in DOMAIN recorded : recorded[n].bytes = recorded[n].turn

Recorded(i) == \E n \in DOMAIN recorded : recorded[n].turn = i

Kept(i) ==
    \/ Recorded(i)
    \/ registered /\ head <= i /\ JB!Holds(jb, Number(i)) /\ jb.packets[Number(i)] = i

\* A packet that is pushed before its turn has its turn in the end: it waits in
\* the buffer until it is played or flushed (jitter.go: Push and Tick), but for
\* a stray that takes its number.  Push drops what comes early from the other
\* side of a wrap: that is not in due.
OnTimeIsRecorded ==
    \A i \in due : Kept(i) \/ \E j \in strays : Number(j) = Number(i)

\* The bytes of a recording are those of the stream in its order, none twice
\* (jitter.go: "in sequence order ... to avoid scrambling the recorded audio
\* tail"), but for mixtures and strays.
RecordingInOrder ==
    \A m, n \in DOMAIN recorded :
        m < n /\ Placed(recorded[m].bytes) /\ Placed(recorded[n].bytes)
            => recorded[m].bytes < recorded[n].bytes

Oldest == CHOOSE i \in Seen : \A j \in Seen : i <= j
Latest == CHOOSE i \in Seen : \A j \in Seen : j <= i

\* While no packet overtakes another, PacketsLost is the number of packets of
\* the stream between the first and the last one counted that never came,
\* duplicates and the wrap-around notwithstanding, and the extended highest
\* sequence number is the first one plus the distance to the last (stats.go:
\* update).
StatsExact ==
    ordered /\ Seen # {} =>
        /\ stats.lost = (Latest - Oldest + 1) - Cardinality(Seen)
        /\ stats.highest = Number(Oldest) + (Latest - Oldest)

\* Key presses whose end packet the receiver is done with.
Heard == {kind[i] : i \in seen["receive"] \ (IF pc["receive"] = "accept" THEN {pkt["receive"]} ELSE {})} \ {0}
Waiting == IF pc["receive"] = "accept" THEN {kind[pkt["receive"]]} ELSE {}

\* The digits of these key presses, in the order of the presses and each once.
InOrder(keys, digits) ==
    \E press \in [DOMAIN digits -> keys] :
        /\ \A k \in keys : \E n \in DOMAIN digits : press[n] = k
        /\ \A m, n \in DOMAIN digits : m < n => press[m] < press[n]
        /\ \A n \in DOMAIN digits : digits[n] = Digit[press[n]]

\* The first m expected digits are among these, in their order.
Contain(digits, m) ==
    \E at \in [1 .. m -> DOMAIN digits] :
        /\ \A j, n \in 1 .. m : j < n => at[j] < at[n]
        /\ \A n \in 1 .. m : digits[at[n]] = Expected[n]

\* While no packet overtakes another, each key press the receiver gets counts
\* once, in order, although its end packet is sent and delivered several times
\* and the same key may be pressed twice; and the verdict is whether the
\* expected digits were pressed in that order, others in between or not
\* (dtmf.go: accept, MatchesExpected).
DigitsExact ==
    /\ ordered /\ Expected # << >> =>
          \E keys \in {Heard, Heard \union Waiting} : InOrder(keys, coll.digits)
    /\ DTMF!MatchesExpected(coll, Expected) <=> Contain(coll.digits, Len(Expected))

\* After Hangup the jitter buffer is flushed and leaves the reactor, which
\* would tick it for the life of the process otherwise (receiver.go: defer).
BufferLeaves == stop ~> ~registered
=============================================================================
