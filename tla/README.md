# A TLA+ development of xk6-sip-media

`xk6-sip-media` is a k6 extension that places and answers SIP calls and streams
RTP media in them. This directory holds TLA+ modules that model its concurrent
core, the TLC configurations that check them, and proofs checked by TLAPS.
Source paths below are relative to the repository root (`src/` in
`PROJECT.json`).

## 1. Inventory

| Component | Source | State it keeps | Operations | Hard behaviour |
|---|---|---|---|---|
| Call handle | `sip/handle.go`, `sip/hold.go`, `sip/transfer.go`, `sip/info.go`, tail of `sip/dial.go` | `active`, `onHold`, `stop`, `done`, `wg`, `result`, `sdpVer` | Hangup, Hold, Unhold, BlindTransfer, AttendedTransfer, SendDTMF, SendInfo, WaitDone, Result, startFinalize, auto-hangup goroutine | API threads, the duration timer, the media goroutines and the finalizer interleave; a check under `mu` is used after the unlock; BYE races the close of the SIP client; `result` is written by two owners |
| Call setup | `sip/dial.go`, `sip/invite.go`, `sip/early_media.go`, `sip/call.go` | local resources: SIP client, RTP socket, SIP dialog, SRTP sessions | Dial, SendINVITE, SendINVITEWithEarlyMedia, StartCall | one step of several failing; CancelAfter racing the answer; resources left behind |
| Jitter buffer | `core/rtp/jitter.go` | `packets` map, `nextSeq`, `started`, `delayExpired`, `stop` | Push, Tick, Close | 16-bit sequence numbers wrap; late, early, lost and duplicated packets |
| Recorder | `core/rtp/recorder.go` | `buf`, `writeCh`, `writerDone`, `DroppedFrames` | Write, Bytes, Close, fileWriter | bounded channel with drop, close of a channel that others send on |
| Reactor | `core/rtp/reactor.go` | per-shard item lists, per-shard tick channels | Add, tick, fan-out, Stop | ticks skipped while a shard is busy, items pruned while being added |
| Receiver, echo, sender | `core/rtp/receiver.go`, `echo.go`, `sender.go`, `session.go` | socket, `seq`, `ts`, `idx`, `onDone` | Receive, Echo, StreamPlayer.Tick, NextSeqTS, Send | two readers on one socket; two senders on one sequence space; onDone exactly once |
| Receive statistics | `core/rtp/stats.go`, `mos.go` | `lastSeq`, `rollover`, `highestSeqExtended`, counters | update, Snapshot | wrap-around, loss, reordering, two updating goroutines |
| DTMF | `core/rtp/dtmf.go` | collected digits, last end event | SendDTMF, accept, MatchesExpected | retransmitted and reordered end events |
| RTCP | `core/rtp/rtcp.go` | last SR, RTT | Run, buildSR, parseSR, buildRR, parseRR | SR timer against the receive loop on one `stats` record; 32-bit arithmetic |
| SRTP | `core/rtp/srtp.go`, `sip/sdp_srtp.go` | packet index, last sequence number | EncryptPacket, DecryptPacket, estimateIndex | rollover counter agreement between the two ends |
| Registered UAS | `sip/registered_uas.go` | `active`, `stopMap`, `results`, registrar binding | handleInvite, handleBye, sendRegister, autoRefresh, Stop | BYE against timeout; second INVITE with one Call-ID; refresh against unregister |
| UAS server | `sip/server.go` | `active`, `results` | handleInvite | the handler of an uncapped call |
| Registration | `sip/register.go` | `ExpiresAt`, client | Register, Refresh, Unregister | digest challenge, timeout, failure after close |
| Conference | `sip/conference.go` | `legs` | StartConference, AddParticipant, Hangup, WaitDone, Result | a leg added while Hangup works on a copy |
| Third-party call | `sip/threepcc.go` | two legs | Dial3PCC, Dial3PCCWithTimeout, HangupAll | deadline against a dial that succeeds later |
| Health check | `sip/healthcheck.go`, `sip/options.go` | counters, `Healthy` | run, ping, Stop | cancel during a ping |
| SIP client | `sip/client.go`, `transport_utils.go`, `retransmit.go` | sipgo UA, client, dialog cache | NewClientWithTransport, Close, OnBye, OnOptions | what a BYE from the remote does |
| SDP | `sip/sdp.go`, `sip/sdp_srtp.go` | none | buildSDP, ParseSDP, ParseSDPCrypto | text formats |
| Codecs, audio loading | `core/codec/*`, `core/audio/*` | encoder state | Encode, Decode, load, resample | numeric signal processing |
| Credential pool | `k6ext/csv_pool.go` | rows, counter | Pick, PickRoundRobin, PickRandom | shared counter |
| k6 bindings, metrics | `k6ext/*`, `metrics/*` | metric handles | option parsing, sample emission | none beyond the components above |

Interactions. `Dial` builds a client, a socket and a dialog, starts the media
goroutines (receiver, echo or a `StreamPlayer` in the reactor, RTCP), counts them
in `wg`, and starts the finalizer, which waits for `wg`, computes the result,
closes the recorder, the codec, the socket and the client, and closes `done`.
`Receive` owns a `JitterBuffer` that is registered in the reactor and writes to
the recorder on each 20 ms tick; nobody waits for that tick. `Conference` and
`ThirdPartyCall` drive several handles; `AttendedTransfer` drives two.

What makes each component correct:

- Call handle: one thread owns the teardown; the call is `active` only while
  everything it needs is open; metrics are computed after the last worker is
  gone; one BYE at most, and one if this side hung up; a result that was made
  readable does not change; every API call returns; a timed call ends.
- Call setup: a live handle is complete; two remotes send to one port only if a
  call ended without its BYE; a failed Dial leaves neither a client nor a remote
  party in a call.
- Jitter buffer: packets have their turns in the order of the stream, once each,
  and what arrived before its turn has one; in an encrypted call the bytes written
  are the packet's own; the buffer leaves the reactor after Hangup.
- Recorder: no frame is lost uncounted, the file is complete when it is closed,
  nobody sends on the closed channel.
- Statistics, DTMF: loss, highest sequence number and digits are exact when the
  network only loses and duplicates.
- Reactor, sender: each stream has its turn once in each tick until it ends,
  `onDone` runs once; audio and digits share the numbers and times of a session as
  a receiver expects, across their wraps.
- RTCP, SRTP: the two fields of an answer belong to one report; both ends agree on
  the rollover counter.
- UAS: every accepted INVITE has one running handler and one result; a BYE, the
  cap or Stop ends it once.
- Conference, third-party call, attended transfer: what a Hangup was called for
  has ended when it returns; a leg is in somebody's hands or ends.
- Registration, health check: a binding lasts as long as `ExpiresAt` says; a
  client is open exactly while it may be used; every request and Stop return.

## 2. Modules

| Module | Models | Extends / instantiates |
|---|---|---|
| `CallLifecycle` | the abstract call: up, ending, done; what is promised in each | |
| `CallHandle` | one established call with all its threads | refines `CallLifecycle` |
| `CallGroup` | conference, third-party call, attended transfer: several calls driven together | legs behave as `CallLifecycle` says |
| `JitterBuffer` | `Push`, the play-out and the flush order as operators | |
| `RTPStats` | `update` and the counters as operators | |
| `DTMFCollector` | `accept` and `MatchesExpected` as operators | |
| `ReceivePath` | receive loop, echo loop, reactor tick, network | the three above |
| `Recorder` | Write, fileWriter, Close at the end of a call | |
| `MediaSender` | reactor, players, SendDTMF and the session they share | |
| `SrtpStream` | the packet index at both ends of an encrypted stream | |
| `Sending` | the two side by side: the sending side | `MediaSender`, `SrtpStream` |
| `Rtcp` | report threads of two calls and what they make of each other's reports | |
| `CallEnd` | recorder and RTCP session side by side: what is still at work when a call ends | `Recorder`, `Rtcp` |
| `Dial` | concurrent call set-ups and their remote parties | |
| `RegisteredUAS` | answered calls: INVITE and BYE handlers, registration, Stop; the plain listener as a configuration | |
| `Server` | a SIP server that goes down and comes back | |
| `Registration` | Register, Refresh, Unregister of several virtual users, and the registrar | `Server` |
| `HealthCheck` | the pinging goroutine and Stop | `Server` |
| `Services` | the two side by side against one server | `Registration`, `HealthCheck` |
| `Agents` | services and the answering agent side by side: what a script runs beside its calls | `Services`, `RegisteredUAS` |
| `CallHandleProofs`, `CallGroupProofs`, `DialProofs`, `RtcpProofs`, `RegisteredUASProofs`, `ServicesProofs` | theorems | the module named, TLAPS |
| `ReceivingProofs` | theorems about `ReceivePath` and `Recorder` | both, TLAPS |
| `SendingProofs` | theorems about `MediaSender` and `SrtpStream` | both, TLAPS |
| `MC*` | constants for TLC | the module named |

`PROJECT.json` maps every definition to the lines it models. The division
between modules follows the objects that share state. `Dial` ends where the
handle is returned and treats the rest of the call as one step; `CallHandle`
begins with the goroutines that `Dial` starts and treats media as workers that
exit; `ReceivePath`, `Recorder`, `MediaSender` and `Rtcp` are inside such workers
and the reactor; `CallGroup` stands above several handles and sees of each what
`CallLifecycle` promises, which `CallHandle` is proved to keep.

`Sending`, `CallEnd` and `Agents` compose parts that share no state in the code
either. They add one variable, `part`, which says whose steps a behaviour takes
while the other part rests; a run of the composition is a run of each part, with
the fairness each part states for itself, and the theorems are about the parts.

Operators whose comment begins with "Slip:" (`AppendReplaces`, `ReadHangs`,
`EstimateAtZero`, ...) are not part of any specification. Each is a plausible
mistake in the action that follows it, and `PROJECT.json` names the property
that has to fail when it takes the action's place.

### CallHandle

State: `active`, `onHold`, `sdpVer`, `result`, `stop`, `done` are the fields of
`CallHandle`; `wg` is the counter of the wait group and `running` the goroutines
that still owe a `Done`; `recorder`, `conn`, `client` say what the finalizer has
not closed; `pc` is where a script thread or the duration timer is inside an API
call. `remote` is the far end as the dialog sees it. `crossed` and `adrift` are
history variables that only `HoldAgrees` reads: the threads whose re-INVITE was
accepted while that of another thread, for the other direction, was not noted
yet; and that the last re-INVITE was one of these or lost its answer or its ACK.

A step is what runs between two points at which another goroutine may observe
the call: a critical section under `mu`, an operation on a channel or the wait
group, a message exchange. `Hangup` is `HangupLock` (clear `active` under `mu`),
`CloseStop`, `SendBye` (which fails when the client is already closed) and
`SeeDone`. `Hold` and `Unhold` are `HoldLock`, `Reinvite`, `AckReinvite`, `SetHold`:
the flag is read in the first and written in the last, with `mu` released between.
Any number of threads (`Holders`) may be inside at once. `sdpVer`, which the code
takes under `mu` a moment after `HoldLock`, is taken in it: no other thread reads it
and it only counts the re-INVITEs. `BlindTransfer` is `TransferLock`, `Refer`,
`SetTransfer`. The finalizer is `FinWait`, `Collect`, `Publish`, `Release`,
`CloseDone`. `SendInfo` checks `active` and changes nothing here.

### CallGroup

`leg` is what became of each call, `group` whether the script has a handle of the
conference or third-party call, `legs` that handle's list. A script thread is at
`pc` in call `op`; `work` is the part of its copy of `legs` that its loop has yet
to visit, `copied` (history) the whole copy. `dialer` is the goroutine of
`Dial3PCCWithTimeout` and `answer` its buffered channel; `grace` is, for each leg,
the goroutine that `AttendedTransfer` leaves behind to hang it up.

`StartConference` and `AddParticipant` dial, `DialReturns`, and `AppendLeg` takes
the mutex. `Dial3PCC` starts `DialA`, `DialB`, and on a failure of B `HangupA`,
`AwaitA`; `Select` takes its answer or the deadline. `Hangup`, `WaitDone` and
`Result` are `Begin` (the copy, under the mutex), then `Visit` and `Await` leg by
leg without it. `AttendedTransfer` is `Transfer`, `Consult`, `Refer`, `Accepted`.
A leg ends by `BeginTeardown` and `LegDone`, or by its own `LegTimeout`.

### ReceivePath

A packet is its place in the stream. A frame that the recorder is given has a
`turn`, the packet whose turn it is, and `bytes`, the packet whose payload is
written. In an encrypted call (`Encrypted`) they are the same, for `DecryptPacket`
returns a copy. In a plain call the payload in the jitter buffer is a slice of
the one buffer that `ReadFrom` fills, so the bytes are those of the packet that
the receiver has read last, or a mixture (`Torn`) if a read is going on (`Bytes`).
`Read` takes a packet at most `Copies` times, at most `Horizon` places behind the newest one read or `Horizon + 1`
ahead of it: duplication, reordering, and loss of up to `Horizon` packets in a
row. The receive loop is `Poll` (stop?), `Read` or `Timeout`, `Count`
(statistics and the filter on the payload type), then `AcceptEvent` or
`PushPacket`; the echo loop shares `Poll`, `Read`, `Timeout` and `Count` and the
socket. `Tick` plays one frame or one frame of silence, `Flush` writes the rest
after `Close`. The sequence numbers are computed modulo `Wrap` with the
comparisons of the code; `Half` stands for 2^15 and `Slack` for 256.
`head`, `due` and `strays` are history variables: the place in the stream that
`nextSeq` stands for; the packets pushed before their turn with no wrap in between;
and those that `Push` files although their turn is over or a wrap away, because it
subtracts the numbers as signed 32-bit integers. `InStreamOrder` says that turns
are taken in the order of the stream and none twice, in streams that wrap too, and
leaves out the strays only; `OnTimeIsRecorded` that a packet in `due` has its turn
unless a stray took its very number. What both say of plain calls is about turns;
the bytes of a plain call are the subject of the run `recording` (section 6).
`MatchesExpected` is stated as the pass that the code makes over the
digits (`Pass`), and `DigitsExact` compares it with the definition of a
subsequence (`Contain`).

### Recorder

Frames are numbered by the order of `Write`. `Write` is two steps, append to
`buf` (`Take`) and the non-blocking send (`Send`), because the mutex is released
between them. `fileWriter` takes a frame and writes it. The finalizer is
`WaitWorkers`, `TakeBytes`, `CloseChannel`, `CloseFile`; it waits for the receiver
and not for the reactor. `inHand` is the frame that `fileWriter` has taken and not
written. A write to disk succeeds: the error that `fileWriter` ignores
(`recorder.go:46`) is not modelled. `panicked` stops every process, as a Go panic does.

### MediaSender

`token` is the set of shards whose one-element channel holds a tick, `ticking`
the set of those that hold their mutex in `tick`. `items` is the list of a shard,
`todo` what its `range` has yet to visit, `kept` the list `active` it builds. Of a
player, `stage` and `home` say where it is, `idx`, `stopped` and `done` are its
fields and the calls of `onDone`. `session` is the next sequence number and time
stamp of a call, which wrap at `SeqRange` and `TsRange` as `uint16` and `uint32` do;
`held` is what the player and the keypad have each drawn and not yet sent, `drawn`
(history) how often `NextSeqTS` was called, `spent` (history) what has left. Each
packet carries how many were drawn before it, so that `NumbersInOrder` can compare
numbers that have wrapped.

`Add` is two actions, the round-robin under `addMu` and `ShardAdd` under the
shard's mutex. `Broadcast` fills the channels that are empty and skips the
others. A tick is `TickBegins`, `PlayerEnds` or `PlayerDraws` and `PlayerSends` for
each item, and `TickEnds`. `SendDTMF` is `KeyDraw` and `KeySend`, packet by packet
and digit after digit (`Digits`), each of `KeyPackets` packets and an end packet that
does not advance the time. Drawing is under the session's mutex, sending is not.
The time advances by one for a frame or a digit's packet, whatever the codec's
step is.

### SrtpStream

A place in the stream is an era (how often the number has wrapped) and a number.
A context is the same pair, `index` and `lastSeq` of `srtpContext`: `senderCtx` and
`receiverCtx`. `EstimateIndex` is `estimateIndex`. `SendFrame` numbers, encrypts and
sends; `SendDTMF` takes numbers without encrypting; `Decrypt` handles an intact
packet on `wire`, again and again; `DecryptDamaged` one that is damaged, in its
number too: the context moves to whatever the number says before the tag is
verified. `lastRead` (history) is where the packet before has left the context, and
`strayed` (history) says that an intact packet came from before a wrap that lies
behind that place, or from more than half the range away.

### Rtcp

`last` is the pair `LastSRNTPCompact` and `LastSRReceived` with, as history, whose
report it was and when it was sent. `rtt` is the round-trip time with, as history,
what the comment at its computation means it to be. `SendSR` is `buildSR` and the `WriteTo`; the reading thread is
`CheckStop`, `ReadTimeout`, `ParseSR` with `BuildRR` as a step of its own (the mutex
is released between them and `SendSR` may come between), `ParseRR`. `CloseRTCP`,
`RunStops`, `RunReturns`, `CloseSocket` are the end. Time stamps are taken from a
clock with an `Offset` and kept modulo `ClockRange`, which stands for 2^32; `Units`
subtracts, modulo `ClockRange`, the fields that `parseRR` subtracts.

### Dial

Each call is a record of what `Dial` has acquired so far (codec, client, socket,
RTCP socket, SRTP contexts) and a program counter, each remote party another
record. One action per step of `Dial`, with a disjunct per error return;
sockets that an error return does not close stay bound, as they do in the
process. A remote party may hang up at any time after the ACK (`RemoteHangsUp`, then
it is `"left"`), which changes nothing on this side. `End` frees the ports of a call
whether its BYE reaches the remote or not, for the finalizer does not wait for it.
The errors of `StartMedia`'s SRTP sessions are left out because they do not occur:
the keys are generated, or their length was checked when they were parsed. An answer is one of five: without an address, without a key, with a key
as RFC 4568 writes it, and two that `ParseSDPCrypto` reads as a key.

### RegisteredUAS

State: `active`, `stopMap`, `results` are the fields of `RegisteredUAS`; `closed`
says of each handler whether its `callStop` has been signalled; `pc` and `resp`
are where the handler of an INVITE is and what it answered. `ContextDone` says that
`cancel` has been called. `bye` holds
`handleBye` for each Call-ID with the channel it has looked up and not yet
closed. `script` is the thread that registers, unregisters and stops; `request`
and `bound` are a REGISTER on its way and the registrar's view. `removed` is a
history variable for `StopUnregisters`: the REGISTER of `Stop` was answered 200.

`handleInvite` is `Admit` (the critical section that counts against
`MaxConcurrent`, or 486), `Prepare`, `Store`, `AnswerInvite`, `Wake` (cap, BYE or Stop),
`SignalOwn`, `Publish`, and its deferred functions in the order Go runs them,
`Unstore` and then `Leave`; every error return enters that sequence where the
defers that exist by then begin. `handleBye` is `ByeLookup` and `ByeSignal`,
because `mu` is released between them. `Stop` is `UnregisterOrStop`,
`ScriptReturns`, `Cancel`, `CloseUA`; `autoRefresh` is `RefreshDue`,
`RefreshReturns`, `RefreshEnds`, and a REGISTER reaches the registrar in
`RegistrarAccepts` or never. A configuration with `plain` is the listener of
`server.go`: no registration, no BYE handler, no stop channel, and the RTP port
bound after the 200 (`BindLate`).

### Registration, HealthCheck, Services

A virtual user is in the method `call`; `flight` is where its REGISTER is, and
`remaining` the time its context has left. `client` says whose client is open,
`promise` is `ExpiresAt` and `binding` what the registrar has for each row of the
pool, both as seconds left; `Second` counts all of them down. `RowOf` is the
sequential pick of `csv_pool.go`. `Challenge` is the 401 and the request that
`DoDigestAuth` sends, `Accept` the 200 at the registrar, `Succeeds` and `Fails` what
the method does when `Do` returns; an answer that gets lost is a `Fails` at the end
of the context after an `Accept`.

Of the checker, `checker` is the goroutine, `fails` and `healthy` its counters,
`stopper` the script in `Stop`. A ping is answered with whatever status, fails when
the server is down or there is no client, or fails because `Stop` cancels it.
`Server` has one variable, `up`, which both read.

## 3. Runs

| Run | Expect | Shows | Bounds | States |
|---|---|---|---|---|
| `call_handle` | pass | Hangup from two script threads, the timer, Hold and Unhold by both at once, BlindTransfer, media and finalizer interleaved; the handle implements `CallLifecycle` | two script threads; stream, receiver and RTCP; three re-INVITEs; answers and ACKs may be lost | 265 k |
| `remote_bye` | violation | a BYE from the remote does not end the call | one script thread, no duration, echo mode | |
| `call_group` | pass | what a group's Hangup was called for has ended when it returns, a failed group leaves no leg up, no leg is forgotten, the consultant ends | three legs, two script threads, five kinds of group | 177 k |
| `receive_path` | pass | order of turns, completeness, exact statistics and digits under loss, duplication and reordering, also across the wrap; the bytes of encrypted calls | plain streams of 2 and 4 packets, encrypted ones of 4 and, echoed, of 3; 16 sequence numbers, each packet at most twice, a packet may overtake or skip one, 4 ticks | 743 k |
| `recording` | violation | a plain call's recording has the bytes of one packet twice | the plain streams of `receive_path` | |
| `call_end` | pass | every frame accounted for, file complete, everything ends; answers of RTCP are whole, both threads return | capacity 2, 6 frames before and 3 after the receiver closes; two ends, 8 time stamps, clocks 6 and 1 ahead, 2 ticks of time, one report of each | 297 k |
| `recorder_panic` | violation | a send on the closed channel | capacity 2, two frames, a tail of one | |
| `rtt` | violation | the round-trip time is not what its comment and its test say | as `call_end`, jitter 0 or 1 | |
| `sending` | pass | a stream has its turn once in each tick until it ends; numbers and times of audio and digits as a receiver expects, across their wraps; every stream leaves; the sender's packet index is exact, the receiver's the same | two streams, one of a frame with two digits, the other empty; two shards; 4 numbers and 3 times, one packet of a digit before its end packet; for the index 8 numbers, half of them 4, at most 2 digit packets between frames, a packet at most 4 places late, two wraps | 279 k |
| `dial` | pass | two Dials compete for ports and fail at any step; remotes hang up, and BYEs are lost | two calls; ports 1 and 2 for RTP, 3 only for RTCP; two tries | 349 k |
| `agents` | pass | slots are counted exactly, a BYE is not missed, Stop settles everything; a binding lasts as long as `ExpiresAt` says, clients are open exactly while needed, everything returns | two INVITEs of two callers, or a call and its re-INVITE; limits 0, 1, 2; with and without cap; one refresh; the plain listener; one user with one row, `Expires` 3, a timeout of 2, unhealthy after 3 failures | 101 k |
| `stop` | violation | after Stop the registrar may have a binding again | the INVITEs and the refresh of `agents` | |

Why the bounds are enough. Every race in `CallHandle` is between two API calls
or between one and the timer or finalizer, so two threads and the timer have all
pairs; a third thread repeats one of the two roles. Three re-INVITEs are two that
cross and one that puts right what they left. A group of three legs has a leg
before, at and after the one that a loop is waiting for, or one that joins after
the copy; two threads are one that works on a copy and one that changes the list.
In `ReceivePath` a window of 16 numbers with streams of four packets has all
relations of a packet to the play-out head (behind, at, within and beyond half
the range), one of its starts puts the wrap inside the stream, and four ticks
outlast it. Losing one packet in a row at most is a real limit: a burst moves the
head no differently, but a gap of more than `Slack` at once is not reached; the
proofs allow a burst of up to a quarter of a turn. In `Recorder`, capacity 2 with a frame in the writer's
hand lets the channel be empty, partly full, full, and full again after a drop.
In `Rtcp` the clocks differ, one of them wraps while reports are under way, and an
own report may come between `parseSR` and `buildRR`. In `MediaSender` two players and
two shards let a player be added to a shard that ticks, before or after another
one in its list, and two shards tick at once; a player with one frame draws, sends
and ends in three different ticks; two digits and a frame are five draws of four
numbers and three steps of three times, so a number comes back, the time wraps, and
audio is drawn on either side of it. In `SrtpStream` packets that come half the
range late may stray, which are excluded by the property and not by the bounds; two
wraps show what a first wrap leaves behind. In `Dial`, two ports are few enough for
collisions, for the last try and for a leaked socket to decide the outcome, and
for a call to be given the port of one whose BYE was lost. In `RegisteredUAS`,
handlers meet in `active` and, if they share a Call-ID, in one entry of `stopMap`:
two of them make every pair, and limit 1 makes the second compete for the slot.
One tick of the refresh loop falls before, within or after `Stop`. In `Services`
users with rows of their own share nothing but the server, and a binding of three
seconds outlives a request of two; several users are covered by the proof. A slack
of two seconds in three is wide: it is the time of one request, which the code
leaves out of `ExpiresAt` (section 6), and it is narrow beside the hour of a
binding by default (`register.go:51`).

Runs that switch deadlock checking off model a system that stops: a call that is
over, a stream that has been played.

## 4. Fairness

Safety properties use no fairness. The liveness properties assume:

- A goroutine that can run does (weak fairness per goroutine and not for `Next`):
  Go's scheduler is preemptive, and every wait inside these goroutines has a
  deadline or ends with `stop`. A read has a one-second deadline
  (`receiver.go:38`, `rtcp.go:230`), a request the deadline of its context.
- Timers fire: the duration timer, the context of the INVITE, the reactor's tick,
  the second after an accepted REFER; in `Registration` time passes.
- Nothing is assumed of scripts, remote parties or the network: no fairness on
  `Decide`, on `KeyDraw` and `KeySend`, on `RemoteHangsUp`, on `AnswerCall`, on
  `Toggle`, on a report that may arrive, on a caller or a registrar that may answer, on a stream that may run
  out. `Services` asks what the checker reports of a server only on behaviours
  whose server stays as it is.
- A worker is fair only once `stop` is closed.
- `MediaSender` assumes strong fairness of `ShardAdd`: a shard's mutex is free
  again and again but may be taken by the next tick each time, and Go's
  `sync.Mutex` hands it to a waiter after a millisecond (its starvation mode).
- `Services` assumes strong fairness of the checker's return: its `select` finds
  the closed channel each time, and a random choice takes it sooner or later.
- In `CallGroup` a leg whose teardown has begun comes to its end, which is
  `CallEnds` of `CallHandle`.
- In `RegisteredUAS` a handler, a BYE handler and the refresh loop are fair, a
  REGISTER returns with an answer or an error, and a Stop that has begun goes on.

`call_end` also assumes that a write to disk returns. The three compositions state
the fairness of their parts for behaviours that follow the part.

## 5. Proofs

TLAPS checks, for every value of the constants that satisfies the modules'
assumptions:

| Theorem | Statement |
|---|---|
| `CallHandleProofs!TypeCorrect` | `Spec => []TypeOK`: the wait group's counter is never negative |
| `CallHandleProofs!Quiet` | `Spec => []QuietWhenFinalizing` |
| `CallHandleProofs!Owner` | `Spec => []OneOwner` |
| `CallHandleProofs!Usable` | `Spec => []UpIsUsable` |
| `CallHandleProofs!HoldsAgree` | `Spec => []HoldAgrees`, for any set of threads that hold and resume at once |
| `CallHandleProofs!Implements` | `Spec => ImplementsLifecycle` |
| `CallGroupProofs!TypeCorrect` | `Spec => []TypeOK` |
| `CallGroupProofs!Covers` | `Spec => []CallCoversCopy`, for any number of legs and threads |
| `CallGroupProofs!FailedOver` | `Spec => []FailedGroupIsOver` |
| `CallGroupProofs!LegsLiveOnce` | `Spec => [][\A l \in Legs : LegStep(l)]_vars`: a leg is dialed once and then takes only the steps of `CallLifecycle` |
| `DialProofs!TypeCorrect` | `Spec => []TypeOK` |
| `DialProofs!WholeHandle` | `Spec => []LiveHandleIsWhole` |
| `DialProofs!OwnPort` | `Spec => []NoCrossTalk`, for any number of calls and ports, whatever BYEs are lost |
| `DialProofs!QuietFailure` | `Spec => []FailedDialIsQuiet` |
| `ReceivingProofs!TypeCorrect` | `RecSpec => []RecTypeOK`: the channel stays within its capacity |
| `ReceivingProofs!Accounted` | `RecSpec => []FramesAccounted` |
| `ReceivingProofs!CompleteFile` | `RecSpec => []Drained` |
| `ReceivingProofs!Snapshot` | `RecSpec => []SnapshotCoversPlayed` |
| `ReceivingProofs!ReceiveTypeCorrect` | `ReceiveSpec => []ReceiveTypeOK` |
| `ReceivingProofs!Order` | `ReceiveSpec => []InStreamOrder`, for any network and any number of wraps |
| `ReceivingProofs!OnTime` | `ReceiveSpec => []OnTimeIsRecorded`, wraps included |
| `ReceivingProofs!Exact` | `ReceiveSpec => []StatsExact`, over any number of wraps, for 2^16 as for any even range |
| `ReceivingProofs!Digits` | `ReceiveSpec => []DigitsExact`, for any digits pressed and expected |
| `SendingProofs!TypeCorrect` | `MediaSpec => []MediaTypeOK` |
| `SendingProofs!Carries` | `MediaSpec => []CarriedOnce`, for any number of players and shards |
| `SendingProofs!Numbers` | `MediaSpec => []NumbersInOrder`, for any number of frames and digits of a call and any number of wraps |
| `SendingProofs!SrtpTypeCorrect` | `SrtpSpec => []SrtpTypeOK` |
| `SendingProofs!Sender` | `SrtpSpec => []SenderExact`, for 2^16 as for any even range |
| `SendingProofs!Receiver` | `SrtpSpec => []IndexAgrees`, with damaged packets of any number |
| `RtcpProofs!TypeCorrect` | `RtcpSpec => []RtcpTypeOK` |
| `RtcpProofs!Answers` | `RtcpSpec => []AnswerIsWhole` |
| `RtcpProofs!Closed` | `RtcpSpec => []ClosedUnused` |
| `RegisteredUASProofs!TypeCorrect` | `UASSpec => []UASTypeOK`: the counter of calls is never negative |
| `RegisteredUASProofs!Slots` | `UASSpec => []SlotsExact`, for any limit |
| `RegisteredUASProofs!Entries` | `UASSpec => []EntryIsLive` |
| `ServicesProofs!TypeCorrect` | `Spec => []TypeOK` |
| `ServicesProofs!Lasts` | `Spec => []BindingLasts`, for any number of users and rows |
| `ServicesProofs!Clients` | `Spec => []ClientsExact` |

Assumptions. `CallAssumption`: finitely many script threads, the receiver is
always among the workers and does not end by itself. `GroupAssumption`: host and
party B are different legs. `DialAssumption`: at least one port and one try.
`RecorderAssumption`: a channel with room for at least one frame.
`ReceiveAssumption`: the range of sequence numbers is twice the bound of the
comparisons, the slack of `Push` (256) is below that bound, the remote sends the
end packets of one key press before those of the next, a stream ends before its
extended sequence numbers outgrow 32 bits, and what is lost in a row is less than
a quarter of a turn, five minutes of a call; from half a turn on the code would
miss a wrap.
`MediaAssumption`: two shards or more (`reactor.go:76`); numbers and times have some
range.
`SrtpAssumption`: the range is twice the bound of the rollover check, and fewer
numbers than that are drawn by digits between two frames. `RtcpAssumption`: two
ends, time stamps of any range, clocks of any offset. `UASAssumption`: finitely
many INVITEs. `RegistrationAssumption`: a pool with a row, a timeout that is not
zero.

`CallHandle`. None of the invariants is inductive. `TypeOK` needs
`wg = Cardinality(running)` (`WaitGroup`). `QuietWhenFinalizing` needs that the
finalizer cannot pass the wait group before `stop` is closed, which holds
because the receiver runs until then, and that nothing is still to be started
(`Finalizer`). `OneOwner` and `UpIsUsable` need the relation between `active`,
`stop`, the finalizer's position and the thread that cleared `active`
(`Teardown`). The conjunction `IInv` is inductive, each action in a step of its
own, and the four theorems follow. The refinement then needs only `IInv`: each
action of `CallHandle` is one action of `CallLifecycle` or a stutter.
`HoldAgrees` has an invariant of its own (`HoldState`): of the threads between the
remote's answer and the second critical section, those that crossed no re-INVITE
of the other direction asked for the direction the remote has; when none is there
and the last one was undisturbed, `onHold` tells that direction. `ReinviteAgrees`
is the step where threads may cross: whoever is open and asked for something else
than the remote now accepts becomes a member of `crossed`.

`CallGroup`. `CallCoversCopy` is almost inductive: it needs that a thread in
`await` still has the leg it waits for at the head of its list (`Waiting`).
`FailedGroupIsOver` needs to know who dials: while a conference opens that is one
thread and leg A (`Opening`), no two threads dial the same leg (`OneEach`), and
for a third-party call what the goroutine has done so far (`DialerFits`). Most
actions only let legs move towards their end; `WaneKeeps` deals with those at
once. `LegsLiveOnce` is an action property with the same invariant: without
`OneEach` a second thread's dial could fail a leg that is up. That an ended leg stays
so, which `CallCoversCopy` needs, is a case of it. No run lists `LegStep`; it was
checked on the instance of `call_group` before it was proved.

`Dial`. `Fits` says, for each place in the body of `Dial`, what it holds, what it
has offered and what its remote may be doing; `OneSocket` that a port has one
socket. Nearly every step changes one call and its remote, and `Local` shows that
such a step keeps everything if the call fits where it goes and its socket is
none, its own or a free one, so an action is a matter of the record it writes.
What makes `NoCrossTalk` hold after failures is the last line of `Fits`: a remote
that may send has been offered the bound socket even if its `Dial` has failed,
since an error return leaks that socket and does not free it. The one place where
this is not so is a call that has ended, whose BYE may never have arrived, and
that is the exception in the property.

`ReceivePath`. The turns are in order because what is held, strays apart, is at the
head or after it with no wrap in between, and what has been played is before it
(`AroundHead`), and because each packet is filed under its own number and `nextSeq`
is the number of the head (`Filed`). The comparisons of `Push` and the sort of the
flush are about numbers; `Laps`, `SameLap` and `LapsAscend` turn them into comparisons
of places: within a lap numbers are as far apart as places. The bytes of an
encrypted call follow its turns, because `Frames` gives a packet its own.
`Statistics` says that the
counters are those of the stretch from the first packet counted to the last, and
that the extended number is made of the rollover and the number read last;
adding a packet adds an element to the set counted, so the loss is a cardinality
(`CountNext`). `Ahead` and `Turn` are the remainders that `update` meets at a wrap,
and `InReach` shows that it never meets half a turn: two readers may each hold a
packet that the other has not counted, so a packet is at most twice the network's
reach ahead of the last one counted. That makes `StatsExact` true over any number
of wraps, of which the run has one.

For the digits, `Taken` says which key presses have been taken and which was
last. The verdict is proved without induction over the digits: `Greedy` is an
invariant of the collector, saying that there is one pass over what has been
collected and that it ends behind as many expected digits as can be found among
them, and `GreedyAppend` extends it when `accept` appends a digit.

Two of the proofs changed a model. `Taken` needs that the presses of a stream come
in their order, which the streams checked had and the assumption did not say. And
`DigitsExact` states the verdict of `MatchesExpected` for every behaviour, where it
had been stated only for those without overtaking.

`Recorder`. Accounting is about the concatenation of what is on disk, in the
writer's hand and in the channel (`Sent`). `SentStep` shows that a step leaves
it alone or appends the frame being sent; that the writer moves a frame without
changing `Sent` rests on the laws of concatenation. Order needs `Numbered`: sent
frames have numbers up to `taken`, below it while a frame is being sent. Numbers
start at 1, which is what lets `inHand = 0` say that the writer's hand is empty
(`HeadIsNumbered`). `Channel` relates the finalizer, the closed channel and the
writer's end, and gives `Drained`.

`MediaSender`. `CarriedOnce` needs that the lists of a shard have no element
twice and that, during a tick, the players that run are those yet to be visited
and those kept, without overlap (`Lists`): only then does the assignment at the
end of the tick lose nobody. That `ShardAdd` takes the shard's mutex is used
exactly there; the lemmas `AppendMembers`, `TailMembers` and `OnePlace` say what
lists, their members and places have to do with each other. For `NumbersInOrder` the
session counts the draws modulo the range (`Counted`), and each packet has the number
of its place among the draws and is behind the session's time by a frame for each
draw since, at most (`Placed`). What that says of two packets is arithmetic of
remainders: `Euclid` and `SameRemainder` relate a remainder to its multiple, `StepOn`
is one draw, and `Ahead` and `Apart` say that two places less than a turn apart have
different numbers.

`SrtpStream`. The sender's context is behind the session by the digits since the
last frame, and one, maybe across a wrap (`SenderClose`); the receiver's context is
the place of the packet read last (`ReceiverFollows`), where a damaged packet counts
as read at the place that its number stood for (`DamagedInv`). `EstimateNear` is the
arithmetic both rest on: from a place less than half the range away,
`EstimateIndex` computes the true era.

`Rtcp`. An answer is whole because what an end keeps always is one report
(`KeptIsWhole`), its own or its peer's, and a report under way carries the time
stamp of its sender's clock (`Stamped`). `Threads` gives `Closed`.

`RegisteredUAS`. The counter is the cardinality of the set of handlers that hold
a slot, so an admission adds an element and a return removes one. `EntryIsLive`
is inductive with types, for the deferred delete of a handler runs before it
gives up its slot. `PlainHasNone` excludes the plain listener where it keeps no stop channels.

`Services`. With a row for each user, `RowOf` is the identity (`OwnRow`). A
binding outlives what is promised but for one request because the answer on its
way was granted within that request (`AnswerIsFresh`); `CallsFit` says in which
phases a method can be.

Only model-checked: liveness (`CallEnds`, `NoLegForgotten`, `GroupSettles`,
`BufferLeaves`, `RecorderSettles`, `StreamsEnd`, `RTCPEnds`, `DialSettles`,
`ByeEndsCall`, `UASSettles`, `ServicesSettle`), which is outside the prover. Every
safety property of a passing run has a theorem. No module declares a RECURSIVE
operator, and nothing is proved by induction over data: what is computed step by
step (the pass over the digits, the loss count, the list of a channel) has a
state invariant instead.

## 6. Where the code and its documents disagree

Five disagreements have a run whose counterexample is a behaviour of the code; the
quotations are in `PROJECT.json`.

- `remote_bye`: the `OnBye` handler answers 200 and does nothing else, so
  `WaitDone` does not return when the remote hangs up.
- `recording`: the payload pushed into the jitter buffer is a slice of the buffer
  that the next read overwrites (`receiver.go:73`), so in a call without SRTP what
  waits for its turn is written with the bytes of whatever was read last. The run
  finds a recording that has one packet's bytes twice.
- `recorder_panic`: the finalizer closes the recorder's channel while the
  reactor may be in `Write`.
- `stop`: `Stop` sends its REGISTER with `Expires: 0` before it cancels `autoRefresh`
  (`registered_uas.go:221`), so a refresh that is due or under way may register
  the listener again that then is gone. `Unregister` without `Stop` is undone by the
  next refresh in any case.
- `rtt`: `parseRR` says "RTT = now - LSR - DLSR" (`rtcp.go:289`) and reads the two from
  bytes 20 to 27 (`rtcp.go:282`), where a report block has its jitter and its LSR.
  What it computes is now less LSR less jitter: the delay of the peer is not
  subtracted, and when the jitter field is larger than the time that has passed,
  the difference wraps to almost 2^32.

Met while modelling, without a run. Where a property would be false because of
one of these, its definition says what it leaves out.

Calls:

- `BlindTransfer` sets `result.TransferOK` (`transfer.go:41`), and the finalizer
  then assigns a fresh `CallResult` that does not carry the flag over
  (`handle.go:152`).
- `Hangup` closes `stop` before it sends the BYE, and the finalizer may have
  closed the client by then, so a call can end without a BYE.
- `Hold` and `Unhold` release `mu` for the re-INVITE (`hold.go:23`), although the comment
  of `CallHandle` calls all its public methods goroutine-safe (`handle.go:21`).
  Two script threads inside at once, for opposite directions, can leave `onHold` and
  the remote in disagreement, and so can a lost answer. `HoldAgrees` lets any number
  of threads hold and resume, and says that nothing else can, and that the next
  re-INVITE that completes undisturbed brings the two together.
- A remote that does not see the BYE of a call that has ended goes on sending to its
  port, which the OS may give to another call; `NoCrossTalk` names that exception.
- A third-party call that is established after the deadline of
  `Dial3PCCWithTimeout` stays in a channel nobody reads (`threepcc.go:130`);
  its legs end at their `Duration`, and without one they stay up, out of reach.
- The comment of `AttendedTransfer` (`transfer.go:52`) says that the primary leg is
  finished by a BYE; the code waits for none, and `remote_bye` shows that it would
  not notice one.
- Error returns of `Dial` leave the codec and, once bound, the socket open
  (`dial.go:139` and after), although `.ai/memory/lessons-learned.md:55` asks for
  `defer cod.Close()`; the model keeps such a socket bound, and `NoCrossTalk` and
  `DialSettles` hold nevertheless.
- The README of the repository (line 872) promises media to the address of a 183
  before the call is answered, and `Dial` starts the stream only after the 200.

Received media:

- In echo mode `Receive` and `Echo` read one socket and count into one `RTPStats`,
  each between its read and its update; packets counted in another order than
  they came look like a wrap-around, and about 65,535 are reported lost
  (`stats.go:118`).
- `Push` subtracts sequence numbers as 32-bit integers (`jitter.go:71`), so packet 0
  that comes while 65535 is expected is judged to be long past and dropped, and packet
  65535 that comes after the play-out has wrapped is filed for its next turn
  (`strays`).
- A retransmitted DTMF end packet that arrives after the next key counts again
  (`dtmf.go`), and a packet that overtakes another across the wrap counts one
  rollover too many (`stats.go:103`); `DigitsExact` and `StatsExact` therefore speak
  of streams in which no packet overtakes another.

Sent media:

- The packets of a digit advance the time stamp by 160 each, in addition to the
  audio that is sent meanwhile, and are not counted in `PacketsSent`.
- A number is drawn under the session's mutex and sent without it, so a packet of a
  digit may leave after a later one of the audio, or the other way round.
  `NumbersInOrder` says that there is no other disorder.
- In an SRTP call `SendDTMF` sends in the clear; the other end refuses such a
  packet as too short (`srtp.go:151`), and the digit is lost.
- `Reactor.Stop` is called by nothing.

SRTP and RTCP:

- `ParseSDPCrypto` wants four words where the line of RFC 4568, and the one
  `BuildSDPWithSRTP` writes, has three (`sdp_srtp.go:81`); a call so answered is
  encrypted in one direction only.
- A packet from before a wrap that comes after it makes the receiver take the
  next one for a second wrap, and it never recovers (`srtp.go:219`). The context
  moves before the tag is verified (`srtp.go:161`), so a packet with a damaged number
  does the same, and `IndexAgrees` then is about what is near where it moved to. The tag does not cover the rollover count.
- The receiving session is made with the local SSRC (`dial.go:283`), which enters
  the key stream; and the session salt that is derived is used by nothing.
- `buildSR` takes its own report down where `parseSR` keeps the peer's
  (`rtcp.go:136`), so an answer may be to the own report. The loss fields of
  `RTCPStats` are never filled.

Answering side and services:

- A re-INVITE gets a handler of its own and replaces the entry of its Call-ID, so
  a BYE ends at most one of the two; the other is live without an entry and runs on
  to the cap or to Stop. `EntryIsLive` is about the entries there are, and
  `ByeEndsCall` speaks of Call-IDs with one INVITE.
- A handler that reaches `CallDuration` returns without sending a BYE. The plain
  listener has no end for a call without `CallDuration` (`server.go:248`) and binds
  its port only after the 200 (`server.go:184`), so a caller can be up with nothing
  behind it.
- `ExpiresAt` counts from when the answer came and ignores the expiry that the
  registrar granted (`register.go`); `BindingLasts` allows for the first with the
  time of one request, and the model's registrar grants what was asked.
- Users that share a row of the pool, because there are more of them or because
  the pick is not sequential, share a Contact, and one that unregisters removes
  the binding of the other. `BindingLasts` speaks of a row for each.
- `Unregister` leaves the client open when its request gets no answer.
- The checker counts a ping that `Stop` cancels as a failure, and any response, a
  503 too, as success.

## 7. Not modelled

- Codecs, resampling, audio files and pcap reading, MOS and PESQ: sequential
  arithmetic on samples and floating-point numbers, without state that anything
  else observes. TLA+ has no floats, and a word-by-word model would be the code
  again.
- SDP and SIP texts: builders and parsers without state, reduced in `Dial` to what
  it branches on.
- k6 bindings and metrics (`k6ext`, `metrics`): they convert options and emit
  samples around the calls that are modelled; the pool's sequential pick is in
  `Registration`, its random and round-robin picks and the loading of the file are
  not.
- TLS and TCP transports, `retransmit.go`, `transport_utils.go`: configuration of
  the SIP library, which is external. The digest challenge inside `WaitAnswer` of
  `Dial` is the library's too; the one of `Register` is modelled.
- The jitter average, octet counters, loss fields of reports, averages of
  conference results and of ping times: sums that no decision depends on.
- The error of a write to the recorder's file, which `fileWriter` ignores
  (`recorder.go:46`): the frame is missing and counted nowhere.
- The version number in the SDP of a re-INVITE: it is counted, and nothing here says
  what a remote makes of it.
- `SendInfo`, which checks `active` and sends; `SendOptions` with a client of its
  own; `Reactor.Stop`, which nothing calls.
- In `CallHandle` the media workers do nothing but run and exit; in `ReceivePath`
  decryption returns a copy of the packet as it was sent, for what can go wrong in it
  is in `SrtpStream`; in `RegisteredUAS` the interval at which `autoRefresh` ticks is left
  open, and media is a handler that waits.

## 8. Plan

All components that keep state shared between goroutines, or between two ends of a
call, have a module, and each module that lends itself to it has proofs. What is
left, in the order of what it would add:

1. A composition of `MediaSender` and `SrtpStream`: the bound on digits between two
   frames is an assumption of the second, which only the real time of the first's
   tick can justify.
2. `CallGroup` over instances of `CallHandle` in place of `CallLifecycle`. `Implements`
   and `LegsLiveOnce` have the two sides of it: a handle takes only the steps of
   `CallLifecycle`, and `CallGroup` asks of a leg no others.
