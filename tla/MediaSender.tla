------------------------------ MODULE MediaSender ------------------------------
(***************************************************************************)
(* How media leaves a call: the reactor that gives every stream its turn   *)
(* each 20 ms (core/rtp/reactor.go), the players it drives (Stream of      *)
(* core/rtp/sender.go, StreamSRTP of core/rtp/srtp.go), and SendDTMF       *)
(* (core/rtp/dtmf.go), which draws packet numbers from the same session    *)
(* (core/rtp/session.go).  Threads: the fan-out goroutine, one goroutine   *)
(* per shard, and per call the thread that adds the player and the one     *)
(* that sends digits.                                                      *)
(***************************************************************************)
EXTENDS Integers, Sequences, FiniteSets

CONSTANTS
    NShards,
    Players,    \* each with a session of its own
    Frames,     \* how many payloads a player has
    KeyPackets, \* packets of a digit before its end packet (5)
    Digits,     \* bound: how many digits are sent in the call of a player
    SeqRange,   \* 2^16, the range of sequence numbers
    TsRange     \* 2^32, the range of time stamps, in units of a frame

ASSUME MediaAssumption ==
    /\ NShards \in Nat \ {0, 1}
    /\ Frames \in [Players -> Nat] /\ KeyPackets \in Nat \ {0}
    /\ Digits \in [Players -> Nat]
    /\ SeqRange \in Nat \ {0} /\ TsRange \in Nat \ {0}

Shards == 1 .. NShards

VARIABLES
    token,              \* the shards whose channel holds a tick
    ticking,            \* the shards whose tick holds s.mu
    items, todo, kept,  \* per shard: s.items, what range has yet to visit, active
    next,               \* the round-robin counter
    stage, home,        \* of a player: where it is, its shard
    idx, stopped, done, \* p.idx, p.stop, calls of onDone
    keys,               \* packets of digits to send yet, KeyPackets + 1 for each
    session,            \* seq and ts of the call's session
    held,               \* drawn and not sent yet, by "player" and by "keypad"
    drawn,              \* how often NextSeqTS was called (history)
    spent               \* the packets whose Send has returned (history)

reactorVars == <<token, ticking, todo, kept>>
sessionVars == <<session, held, drawn, spent>>
mediaVars == <<reactorVars, items, next, stage, home, idx, stopped, done, keys, sessionVars>>

Sources == {"player", "keypad"}
Nothing == [seq |-> 0, ts |-> 0, nth |-> 0, from |-> "none"]

MediaInit ==
    /\ token = {} /\ ticking = {}
    /\ items = [s \in Shards |-> <<>>] /\ todo = items /\ kept = items
    /\ next = 0
    /\ stage = [p \in Players |-> "new"] /\ home = [p \in Players |-> 1]
    /\ idx = [p \in Players |-> 0] /\ done = [p \in Players |-> 0]
    /\ stopped = {}
    /\ keys = [p \in Players |-> Digits[p] * (KeyPackets + 1)]
    /\ session = [p \in Players |-> [seq |-> 0, ts |-> 0]]
    /\ held = [p \in Players |-> [from \in Sources |-> Nothing]]
    /\ drawn = [p \in Players |-> 0] /\ spent = [p \in Players |-> {}]

-----------------------------------------------------------------------------
(* Session.                                                                *)

\* What is drawn, and how many were drawn before it (history).
Packet(p, from) ==
    [seq |-> session[p].seq, ts |-> session[p].ts, nth |-> drawn[p], from |-> from]

\* Slip: the end packet of a digit reuses the number, as it does the time.
NextSeqTSReuses(p, from, step) ==
    /\ held' = [held EXCEPT ![p][from] = Packet(p, from)]
    /\ session' = [session EXCEPT ![p] =
                     [seq |-> IF step = 0 THEN @.seq ELSE (@.seq + 1) % SeqRange,
                      ts |-> (@.ts + step) % TsRange]]
    /\ drawn' = [drawn EXCEPT ![p] = @ + 1]

\* NextSeqTS, under the session's mutex; uint16 and uint32 wrap.
NextSeqTS(p, from, step) ==
    /\ held' = [held EXCEPT ![p][from] = Packet(p, from)]
    /\ session' = [session EXCEPT ![p] = [seq |-> (@.seq + 1) % SeqRange,
                                         ts |-> (@.ts + step) % TsRange]]
    /\ drawn' = [drawn EXCEPT ![p] = @ + 1]

\* Marshal, encrypt and Send, without the mutex; after an error the stream
\* goes on with the next number all the same.
Transmit(p, from) ==
    /\ held[p][from] # Nothing
    /\ spent' = [spent EXCEPT ![p] = @ \union {held[p][from]}]
    /\ held' = [held EXCEPT ![p][from] = Nothing]
    /\ UNCHANGED <<session, drawn>>

-----------------------------------------------------------------------------
(* A call: Stream, and at some time its stop channel closes.               *)

\* Add, its first part, under addMu.
Add(p) ==
    /\ stage[p] = "new"
    /\ home' = [home EXCEPT ![p] = (next % NShards) + 1]
    /\ next' = (next + 1) % NShards
    /\ stage' = [stage EXCEPT ![p] = "placed"]
    /\ UNCHANGED <<reactorVars, items, idx, stopped, done, keys, sessionVars>>

\* Streams of other calls, and jitter buffers, are added as well; followed
\* only while it matters to these.
OthersAdd ==
    /\ \E p \in Players : stage[p] = "new"
    /\ next' = (next + 1) % NShards
    /\ UNCHANGED <<reactorVars, items, stage, home, idx, stopped, done, keys, sessionVars>>

\* Slip: shard.add does not take the shard's mutex.
ShardAddUnlocked(p) ==
    /\ stage[p] = "placed"
    /\ items' = [items EXCEPT ![home[p]] = Append(@, p)]
    /\ stage' = [stage EXCEPT ![p] = "running"]
    /\ UNCHANGED <<reactorVars, next, home, idx, stopped, done, keys, sessionVars>>

\* shard.add, which waits while the shard ticks.
ShardAdd(p) ==
    /\ stage[p] = "placed" /\ home[p] \notin ticking
    /\ items' = [items EXCEPT ![home[p]] = Append(@, p)]
    /\ stage' = [stage EXCEPT ![p] = "running"]
    /\ UNCHANGED <<reactorVars, next, home, idx, stopped, done, keys, sessionVars>>

CloseStop(p) ==
    /\ p \notin stopped
    /\ stopped' = stopped \union {p}
    /\ UNCHANGED <<reactorVars, items, next, stage, home, idx, done, keys, sessionVars>>

\* SendDTMF, packet by packet, digit after digit; the time does not advance for
\* the end packet.
KeyDraw(p) ==
    /\ keys[p] > 0 /\ held[p]["keypad"] = Nothing
    /\ NextSeqTS(p, "keypad", IF keys[p] % (KeyPackets + 1) = 1 THEN 0 ELSE 1)
    /\ keys' = [keys EXCEPT ![p] = @ - 1]
    /\ UNCHANGED <<reactorVars, items, next, stage, home, idx, stopped, done, spent>>

KeySend(p) ==
    /\ Transmit(p, "keypad")
    /\ UNCHANGED <<reactorVars, items, next, stage, home, idx, stopped, done, keys>>

-----------------------------------------------------------------------------
(* The fan-out goroutine.                                                  *)

\* The 20 ms timer: each shard is sent a tick; one that has not taken its last
\* tick yet misses this one.
Broadcast ==
    /\ token' = Shards
    /\ UNCHANGED <<ticking, todo, kept>>
    /\ UNCHANGED <<items, next, stage, home, idx, stopped, done, keys, sessionVars>>

-----------------------------------------------------------------------------
(* A shard: for range ch, and tick under its mutex.                        *)

TickBegins(s) ==
    /\ s \in token /\ s \notin ticking
    /\ token' = token \ {s} /\ ticking' = ticking \union {s}
    /\ todo' = [todo EXCEPT ![s] = items[s]] /\ kept' = [kept EXCEPT ![s] = <<>>]
    /\ UNCHANGED <<items, next, stage, home, idx, stopped, done, keys, sessionVars>>

\* The item whose turn it is.
Turn(s, p) == todo[s] # <<>> /\ p = Head(todo[s])

\* Tick of a player that was stopped or has no payload left: onDone, and false.
PlayerEnds(s, p) ==
    /\ Turn(s, p) /\ held[p]["player"] = Nothing
    /\ p \in stopped \/ idx[p] = Frames[p]
    /\ done' = [done EXCEPT ![p] = @ + 1]
    /\ stage' = [stage EXCEPT ![p] = "gone"]
    /\ todo' = [todo EXCEPT ![s] = Tail(@)]
    /\ UNCHANGED <<token, ticking, kept>>
    /\ UNCHANGED <<items, next, home, idx, stopped, keys, sessionVars>>

PlayerDraws(s, p) ==
    /\ Turn(s, p) /\ held[p]["player"] = Nothing
    /\ p \notin stopped /\ idx[p] < Frames[p]
    /\ idx' = [idx EXCEPT ![p] = @ + 1]
    /\ NextSeqTS(p, "player", 1)
    /\ UNCHANGED <<reactorVars, items, next, stage, home, stopped, done, keys, spent>>

\* Slip: Tick returns false with the last payload, before its end is told.
PlayerSendsLast(s, p) ==
    /\ Turn(s, p) /\ Transmit(p, "player")
    /\ todo' = [todo EXCEPT ![s] = Tail(@)]
    /\ kept' = [kept EXCEPT ![s] = IF idx[p] = Frames[p] THEN @ ELSE Append(@, p)]
    /\ UNCHANGED <<token, ticking>>
    /\ UNCHANGED <<items, next, stage, home, idx, stopped, done, keys>>

\* The packet leaves, and Tick returns true.
PlayerSends(s, p) ==
    /\ Turn(s, p) /\ Transmit(p, "player")
    /\ todo' = [todo EXCEPT ![s] = Tail(@)]
    /\ kept' = [kept EXCEPT ![s] = Append(@, p)]
    /\ UNCHANGED <<token, ticking>>
    /\ UNCHANGED <<items, next, stage, home, idx, stopped, done, keys>>

\* The items that returned true stay.
TickEnds(s) ==
    /\ s \in ticking /\ todo[s] = <<>>
    /\ ticking' = ticking \ {s}
    /\ items' = [items EXCEPT ![s] = kept[s]]
    /\ kept' = [kept EXCEPT ![s] = <<>>]
    /\ UNCHANGED <<token, todo>>
    /\ UNCHANGED <<next, stage, home, idx, stopped, done, keys, sessionVars>>

-----------------------------------------------------------------------------
Playing(s) == \E p \in Players : PlayerEnds(s, p) \/ PlayerDraws(s, p) \/ PlayerSends(s, p)
Shard(s) == TickBegins(s) \/ Playing(s) \/ TickEnds(s)
Call(p) == Add(p) \/ ShardAdd(p) \/ CloseStop(p) \/ KeyDraw(p) \/ KeySend(p)

MediaNext == Broadcast \/ OthersAdd \/ (\E s \in Shards : Shard(s)) \/ (\E p \in Players : Call(p))

MediaSpec == MediaInit /\ [][MediaNext]_mediaVars

\* The timer fires, goroutines run, and Go's mutex is not withheld for ever
\* from a waiter (its starvation mode), so shard.add returns although the
\* shard may be ticking each time.  Nobody has to stop a stream or to begin it,
\* nor to press a key.
MediaFairSpec == /\ MediaSpec
                 /\ WF_mediaVars(Broadcast)
                 /\ \A s \in Shards : WF_mediaVars(Shard(s))
                 /\ \A p \in Players : SF_mediaVars(ShardAdd(p))

-----------------------------------------------------------------------------
(* Properties.                                                             *)

Stamps == [seq : 0 .. SeqRange - 1, ts : 0 .. TsRange - 1]
Drawn == [seq : 0 .. SeqRange - 1, ts : 0 .. TsRange - 1, nth : Nat, from : Sources]

MediaTypeOK ==
    /\ token \subseteq Shards /\ ticking \subseteq Shards
    /\ {items, todo, kept} \subseteq [Shards -> Seq(Players)]
    /\ next \in 0 .. NShards - 1
    /\ stage \in [Players -> {"new", "placed", "running", "gone"}] /\ home \in [Players -> Shards]
    /\ idx \in [Players -> Nat] /\ done \in [Players -> Nat] /\ stopped \subseteq Players
    /\ keys \in [Players -> Nat]
    /\ session \in [Players -> Stamps]
    /\ held \in [Players -> [Sources -> Drawn \union {Nothing}]]
    /\ drawn \in [Players -> Nat] /\ spent \in [Players -> SUBSET Drawn]

\* The places of p in the list of shard s.
PlacesOf(p, s) == {i \in 1 .. Len(items[s]) : items[s][i] = p}

\* A stream that was added has its turn once in each tick until it ends: it is
\* in the list of one shard, once, though streams are added while ticks prune
\* the lists; and it has ended exactly when onDone was called, once
\* (shard.tick, shard.add, Tick).
CarriedOnce ==
    \A p \in Players :
        /\ stage[p] = "running" =>
              \A s \in Shards : Cardinality(PlacesOf(p, s)) = IF s = home[p] THEN 1 ELSE 0
        /\ done[p] = IF stage[p] = "gone" THEN 1 ELSE 0

\* The packets of a call: sent, or drawn and in the hands of the player or the
\* keypad.
Packets(p) == spent[p] \union ({held[p][from] : from \in Sources} \ {Nothing})

\* The audio and the digits of a call share its numbers: a number comes back
\* only after all the others, and the one after it goes to the packet drawn
\* next, so a receiver counts no loss; the time goes on by at most a frame from
\* draw to draw and never back, across the wrap of either; and the packets of
\* the player leave in the order of their numbers, as do those of the keypad,
\* so that only a packet of the other can leave after a later one (NextSeqTS,
\* Tick, SendDTMF).
NumbersInOrder ==
    \A p \in Players :
        /\ \A m, n \in Packets(p) : m.nth < n.nth =>
              /\ n.nth < m.nth + SeqRange => m.seq # n.seq
              /\ n.nth = m.nth + 1 => n.seq = (m.seq + 1) % SeqRange
              /\ (n.ts - m.ts) % TsRange <= n.nth - m.nth
        /\ \A m \in spent[p] : LET n == held[p][m.from] IN n # Nothing => m.nth < n.nth

\* A stream that is stopped, or has nothing left to send, calls onDone and
\* leaves the reactor, however often others are added and digits are sent
\* (StreamPlayer.Tick, shard.add).
StreamsEnd ==
    \A p \in Players :
        stage[p] = "placed" ~> \A s \in Shards : PlacesOf(p, s) = {} /\ done[p] = 1
=============================================================================
