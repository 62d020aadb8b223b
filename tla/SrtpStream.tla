------------------------------ MODULE SrtpStream ------------------------------
(***************************************************************************)
(* The packet index of SRTP (core/rtp/srtp.go): a sender that numbers      *)
(* packets and encrypts them, a network that loses, repeats and reorders,  *)
(* and a receiver that reconstructs the index from 16 bits of it.  A place *)
(* in the stream is a pair of its era, how often the number has wrapped,   *)
(* and its number; an index is the same pair, as a context computes it.    *)
(* The key stream depends on the index: a frame is recovered if and only   *)
(* if both ends arrive at the same one.                                    *)
(***************************************************************************)
EXTENDS Integers

CONSTANTS
    Wrap,       \* 2^16, the range of sequence numbers
    Half,       \* 2^15, the bound of the rollover check
    Burst,      \* packets of SendDTMF between two frames, at most
    Window,     \* bound: how far behind the newest a packet may arrive
    LastEra     \* bound: the era the stream ends in; a receiver beyond it is not
                \* followed further

ASSUME SrtpAssumption ==
    /\ Half \in Nat \ {0} /\ Wrap = 2 * Half
    /\ Burst \in Nat /\ Burst + 1 < Half
    /\ Window \in Nat /\ LastEra \in Nat

VARIABLES
    upcoming,    \* the place the session will number next
    burst,       \* numbers drawn by SendDTMF since the last frame
    senderCtx,   \* the sender's context: index and lastSeq
    wire,        \* frames under way, each with the index it was encrypted with
    receiverCtx, \* the receiver's context
    lastRead,    \* the place of the packet read last, by its number (history)
    strayed,     \* a packet came too far from the one before (history)
    garbled      \* a frame was decrypted with another index (history)

srtpVars == <<upcoming, burst, senderCtx, wire, receiverCtx, lastRead, strayed, garbled>>

Places == [era : Nat, seq : 0 .. Wrap - 1]
Start == [era |-> 0, seq |-> 0]
NextSeq(p) == IF p.seq = Wrap - 1 THEN [era |-> p.era + 1, seq |-> 0]
              ELSE [p EXCEPT !.seq = @ + 1]

\* How far q is ahead of p.
Distance(p, q) == (q.era - p.era) * Wrap + q.seq - p.seq

\* A context is the index computed last: its era is the rollover count, its
\* number is lastSeq.
Context == Places

-----------------------------------------------------------------------------
\* Slip: the rollover is seen only in the number 0 itself.
EstimateAtZero(ctx, seq) ==
    [era |-> IF seq = 0 /\ ctx.seq # 0 THEN ctx.era + 1 ELSE ctx.era, seq |-> seq]

\* estimateIndex: a step back by more than half the range is a rollover.
EstimateIndex(ctx, seq) ==
    [era |-> IF seq - ctx.seq < -Half THEN ctx.era + 1 ELSE ctx.era, seq |-> seq]

SrtpInit ==
    /\ upcoming = Start /\ burst = 0
    /\ senderCtx = Start /\ receiverCtx = Start
    /\ wire = {} /\ lastRead = Start
    /\ strayed = FALSE /\ garbled = FALSE

\* StreamSRTPPlayer.Tick: a number, EncryptPacket, and the packet leaves.
\* What is too old by now is lost.
SendFrame ==
    /\ upcoming.era <= LastEra
    /\ senderCtx' = EstimateIndex(senderCtx, upcoming.seq)
    /\ wire' = {p \in wire : Distance(p.place, upcoming) <= Window}
                 \union {[place |-> upcoming, index |-> senderCtx']}
    /\ upcoming' = NextSeq(upcoming) /\ burst' = 0
    /\ UNCHANGED <<receiverCtx, lastRead, strayed, garbled>>

\* SendDTMF draws from the same session and sends in the clear; such a packet
\* is shorter than a header and a tag, and DecryptPacket refuses it at once.
SendDTMF ==
    /\ upcoming.era <= LastEra /\ burst < Burst
    /\ upcoming' = NextSeq(upcoming) /\ burst' = burst + 1
    /\ UNCHANGED <<senderCtx, wire, receiverCtx, lastRead, strayed, garbled>>

\* q is less than half the range from p, and not before a wrap that p is after.
Near(p, q) == \/ q.era = p.era /\ Distance(p, q) >= -Half
              \/ q.era = p.era + 1 /\ Distance(p, q) < Half

\* Slip: lastSeq is written for a rollover only.
DecryptForgets(p) ==
    /\ p \in wire /\ receiverCtx.era <= LastEra
    /\ receiverCtx' = IF EstimateIndex(receiverCtx, p.place.seq).era # receiverCtx.era
                      THEN EstimateIndex(receiverCtx, p.place.seq) ELSE receiverCtx
    /\ garbled' = (garbled \/ EstimateIndex(receiverCtx, p.place.seq) # p.index)
    /\ lastRead' = p.place
    /\ strayed' = (strayed \/ ~Near(lastRead, p.place))
    /\ UNCHANGED <<upcoming, burst, senderCtx, wire>>

\* DecryptPacket of an intact packet, which may come again later.
Decrypt(p) ==
    /\ p \in wire /\ receiverCtx.era <= LastEra
    /\ receiverCtx' = EstimateIndex(receiverCtx, p.place.seq)
    /\ garbled' = (garbled \/ receiverCtx' # p.index)
    /\ lastRead' = p.place
    /\ strayed' = (strayed \/ ~Near(lastRead, p.place))
    /\ UNCHANGED <<upcoming, burst, senderCtx, wire>>

\* DecryptPacket of a damaged one, in its number too: the context moves before
\* the tag is verified, so what follows is measured from where it is now.
DecryptDamaged(seq) ==
    /\ wire # {} /\ receiverCtx.era <= LastEra
    /\ receiverCtx' = EstimateIndex(receiverCtx, seq)
    /\ lastRead' = receiverCtx'
    /\ UNCHANGED <<upcoming, burst, senderCtx, wire, strayed, garbled>>

SrtpNext == \/ SendFrame \/ SendDTMF
            \/ \E p \in wire : Decrypt(p)
            \/ \E seq \in 0 .. Wrap - 1 : DecryptDamaged(seq)

SrtpSpec == SrtpInit /\ [][SrtpNext]_srtpVars

-----------------------------------------------------------------------------
(* Properties.                                                             *)

SrtpTypeOK ==
    /\ upcoming \in Places /\ burst \in 0 .. Burst
    /\ senderCtx \in Context /\ receiverCtx \in Context /\ lastRead \in Places
    /\ wire \subseteq [place : Places, index : Places]
    /\ strayed \in BOOLEAN /\ garbled \in BOOLEAN

\* What the sender computes is the true place of every frame, over any number
\* of wraps, with the numbers that key presses take in between (EncryptPacket,
\* nextIndex).
SenderExact == \A p \in wire : p.index = p.place

\* The receiver decrypts every frame with the index of its sender, through
\* losses, repetitions, reordering and damage, as long as no packet comes from
\* before a wrap that has been seen or from more than half the range away,
\* measured from where the packet before has left the context, a damaged number
\* too (DecryptPacket, estimateIndex).
IndexAgrees == ~strayed => ~garbled
=============================================================================
