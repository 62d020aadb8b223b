------------------------------ MODULE DialProofs ------------------------------
(***************************************************************************)
(* Proofs about Dial: for any number of calls set up at once, any supply   *)
(* of ports and any behaviour of the remote parties, a live handle is      *)
(* complete, two remotes share a port only when one of them was left       *)
(* behind by a call that has ended, and what fails is quiet.               *)
(***************************************************************************)
EXTENDS Dial, TLAPS

\* What Dial holds, has offered and knows of its remote at each place in its
\* body.  A remote that may send media has been offered the bound socket, also
\* when its Dial has failed (the socket is leaked, not reused), unless its call
\* has ended.
Fits(o, me, far) ==
    /\ me.pc \in {"idle", "client", "bind", "offer", "invite"} => far.st = "idle"
    /\ me.pc \in {"idle", "client"} => ~me.client
    /\ me.pc \in {"client", "bind"} => me.port # 0
    /\ me.pc \in {"idle", "client", "bind", "done"} => me.sock = 0
    /\ me.pc \in {"client", "bind", "offer"} => me.cod
    /\ me.pc \in {"bind", "offer"} => me.client
    /\ me.pc = "offer" => me.sock # 0
    /\ me.pc \in {"invite", "wait", "ack", "answer", "key", "media", "live"} =>
          /\ me.cod /\ me.client
          /\ me.sock # 0 /\ me.offered = me.sock
          /\ me.send = o.srtp
    /\ me.recv => o.srtp
    /\ me.pc = "wait" => far.st \in {"ringing", "answered", "refused"}
    /\ me.pc = "ack" => far.st = "answered"
    /\ me.pc \in {"answer", "key", "media", "live"} => far.st \in {"up", "left"}
    /\ me.pc \in {"key", "media", "live"} => me.dest # "none"
    /\ me.pc \in {"failed", "dead"} =>
          /\ ~me.client
          /\ far.st = "up" => me.exit = "answer" \/ (me.exit = "key" /\ me.expired)
    /\ me.pc = "done" => far.st \in {"up", "left", "down"}
    /\ far.cancelled => me.pc \in {"failed", "dead"}
    /\ far.st \in {"ringing", "answered", "up"} /\ me.pc # "done" =>
          me.sock # 0 /\ me.offered = me.sock

\* The operating system gives a port to one socket.
OneSocket == \A c, k \in Calls : c # k /\ d[c].sock # 0 => d[c].sock # d[k].sock

IInv == TypeOK /\ OneSocket /\ \A c \in Calls : Fits(opts[c], d[c], remote[c])

-----------------------------------------------------------------------------
(* Lemmas: a step of one call.                                             *)

\* What the invariant says of one call.
LEMMA OneCall ==
    ASSUME IInv, NEW c \in Calls
    PROVE  /\ d[c] \in Dials /\ remote[c] \in Remotes /\ opts[c] \in Options
           /\ Fits(opts[c], d[c], remote[c])
           /\ remote = [remote EXCEPT ![c] = remote[c]] /\ d = [d EXCEPT ![c] = d[c]]
  BY DEF IInv, TypeOK

\* A call that moves to a place that fits, with no socket, its own socket or
\* one that was free, disturbs no other call.
LEMMA Local ==
    ASSUME IInv, NEW c \in Calls, NEW me \in Dials, NEW far \in Remotes,
           d' = [d EXCEPT ![c] = me], remote' = [remote EXCEPT ![c] = far],
           opts' = opts, Fits(opts[c], me, far),
           me.sock \in {0, d[c].sock} \/ Free(me.sock)
    PROVE  IInv'
  <1>1. TypeOK'
        BY DEF IInv, TypeOK
  <1>2. \A k \in Calls : /\ d'[k] = IF k = c THEN me ELSE d[k]
                         /\ remote'[k] = IF k = c THEN far ELSE remote[k]
        BY DEF IInv, TypeOK
  <1>3. \A k \in Calls : Fits(opts'[k], d'[k], remote'[k])
    <2> TAKE k \in Calls
    <2>1. CASE k = c
          BY <1>2, <2>1
    <2>2. CASE k # c
          BY <1>2, <2>2 DEF IInv
    <2> QED BY <2>1, <2>2
  <1>4. OneSocket'
    <2> SUFFICES ASSUME NEW k \in Calls, NEW m \in Calls, k # m, d'[k].sock # 0
                 PROVE  d'[k].sock # d'[m].sock
        BY DEF OneSocket
    <2>1. CASE k # c /\ m # c
          BY <1>2, <2>1 DEF IInv, OneSocket
    <2>2. CASE k = c
      <3>1. me.sock # 0 /\ m # c /\ d'[m] = d[m] /\ d'[k] = me
            BY <1>2, <2>2
      <3>2. me.sock # d[m].sock
            BY <3>1 DEF IInv, OneSocket, Free
      <3> QED BY <3>1, <3>2
    <2>3. CASE m = c
      <3>1. k # c /\ d'[k] = d[k] /\ d'[m] = me
            BY <1>2, <2>3
      <3>2. me.sock # d[k].sock
            BY <3>1 DEF IInv, OneSocket, Free
      <3> QED BY <3>1, <3>2
    <2> QED BY <2>1, <2>2, <2>3
  <1> QED BY <1>1, <1>3, <1>4 DEF IInv

\* The same for a step of which the remote sees nothing.
LEMMA AloneInv ==
    ASSUME IInv, NEW c \in Calls, NEW me \in Dials, Alone(c, me),
           Fits(opts[c], me, remote[c]),
           me.sock \in {0, d[c].sock} \/ Free(me.sock)
    PROVE  IInv'
  <1>1. /\ d' = [d EXCEPT ![c] = me] /\ opts' = opts
        /\ remote' = [remote EXCEPT ![c] = remote[c]]
        BY OneCall DEF Alone, Become
  <1>2. remote[c] \in Remotes
        BY OneCall
  <1> QED BY <1>1, <1>2, Local

\* The same for a step that moves the call and its remote.
LEMMA BothInv ==
    ASSUME IInv, NEW c \in Calls, NEW me \in Dials, NEW far \in Remotes,
           Become(c, me), remote' = [remote EXCEPT ![c] = far],
           Fits(opts[c], me, far), me.sock \in {0, d[c].sock}
    PROVE  IInv'
  BY Local DEF Become

\* The result of an error return, field by field.
LEMMA ReturnedFields ==
    ASSUME NEW me \in Dials, NEW pc \in {"failed", "dead"},
           NEW exit \in {"codec", "media", "client", "bind", "offer", "target",
                         "invite", "wait", "ack", "answer", "key"}
    PROVE  /\ Returned(me, pc, exit) \in Dials
           /\ Returned(me, pc, exit).pc = pc
           /\ Returned(me, pc, exit).exit = exit
           /\ Returned(me, pc, exit).sock = me.sock
           /\ Returned(me, pc, exit).offered = me.offered
           /\ Returned(me, pc, exit).client <=> me.client
           /\ ~Returned(me, pc, exit).recv
           /\ Returned(me, pc, exit).expired <=> me.expired
  <1>1. 0 \in Ports \union {0} /\ 0 \in 0 .. (Tries - 1)
        BY DialAssumption
  <1> HIDE DEF Ports
  <1>2. Returned(me, pc, exit) \in Dials
        BY <1>1 DEF Returned, Dials
  <1> QED BY <1>2 DEF Returned, Dials

\* A Dial without a client that fails, before its remote is up or for want of
\* an address, fits, with the remote as it was or released.
LEMMA ReturnedFits ==
    ASSUME NEW me \in Dials, NEW far \in Remotes, NEW o,
           far.st \in {"ringing", "answered", "up"} => me.sock # 0 /\ me.offered = me.sock,
           NEW pc \in {"failed", "dead"},
           NEW exit \in {"codec", "media", "client", "bind", "offer", "target",
                         "invite", "wait", "ack", "answer", "key"},
           far.st = "up" => exit = "answer" \/ (exit = "key" /\ me.expired),
           ~me.client
    PROVE  LET new == Returned(me, pc, exit)
           IN  new \in Dials /\ Fits(o, new, far) /\ new.sock = me.sock
  <1> DEFINE new == Returned(me, pc, exit)
  <1>1. /\ new \in Dials
        /\ new.pc = pc /\ new.exit = exit
        /\ new.sock = me.sock /\ new.offered = me.offered
        /\ (new.client <=> me.client) /\ ~new.recv /\ (new.expired <=> me.expired)
        BY ReturnedFields
  <1> HIDE DEF new
  <1>2. Fits(o, new, far)
        BY <1>1 DEF Fits
  <1> QED BY <1>1, <1>2 DEF new

\* An error return before the INVITE.
LEMMA EarlyError ==
    ASSUME IInv, NEW c \in Calls, d[c].pc \in {"idle", "client", "bind", "offer"},
           NEW me \in Dials, ~me.client,
           me.sock = d[c].sock,
           NEW exit \in {"codec", "media", "client", "bind", "offer", "target"},
           Alone(c, Failed(me, exit))
    PROVE  IInv'
  <1>1. Fits(opts[c], d[c], remote[c]) /\ remote[c] \in Remotes
        BY OneCall
  <1>2. remote[c].st = "idle"
        BY <1>1 DEF Fits
  <1>3. /\ Returned(me, "failed", exit) \in Dials
        /\ Fits(opts[c], Returned(me, "failed", exit), remote[c])
        /\ Returned(me, "failed", exit).sock = me.sock
        BY <1>1, <1>2, ReturnedFits
  <1> QED BY <1>3, AloneInv DEF Failed

-----------------------------------------------------------------------------
(* Before the INVITE.                                                      *)

\* The codec and the media file.
LEMMA PrepareInv == ASSUME IInv, NEW c \in Calls, Prepare(c) PROVE IInv'
  <1> DEFINE me == d[c]
  <1>0. me \in Dials /\ Fits(opts[c], me, remote[c]) /\ me.pc = "idle"
        BY OneCall DEF Prepare
  <1>1. ~me.client
        BY <1>0 DEF Fits
  <1>2. CASE Alone(c, Failed(me, "codec")) \/ Alone(c, Failed([me EXCEPT !.cod = TRUE], "media"))
    <2> DEFINE new == [me EXCEPT !.cod = TRUE]
    <2>1. new \in Dials /\ new.sock = me.sock /\ new.client = me.client
          BY <1>0 DEF Dials
    <2> QED BY <1>0, <1>1, <1>2, <2>1, EarlyError
  <1>3. ASSUME NEW p \in Ports, Alone(c, [me EXCEPT !.pc = "client", !.cod = TRUE, !.port = p])
        PROVE  IInv'
    <2> DEFINE new == [me EXCEPT !.pc = "client", !.cod = TRUE, !.port = p]
    <2>1. new \in Dials
          BY <1>0 DEF Dials, Setup
    <2>2. p # 0
          BY DEF Ports
    <2>3. Fits(opts[c], new, remote[c]) /\ new.sock = me.sock
          BY <1>0, <2>2 DEF Fits, Dials
    <2> QED BY <1>3, <2>1, <2>3, AloneInv
  <1> QED BY <1>2, <1>3 DEF Prepare

\* The SIP client.
LEMMA OpenClientInv == ASSUME IInv, NEW c \in Calls, OpenClient(c) PROVE IInv'
  <1> DEFINE me == d[c]
  <1>0. me \in Dials /\ Fits(opts[c], me, remote[c]) /\ me.pc = "client"
        BY OneCall DEF OpenClient
  <1>1. CASE Alone(c, Failed(me, "client"))
    <2>1. ~me.client
          BY <1>0 DEF Fits
    <2> QED BY <1>0, <1>1, <2>1, EarlyError
  <1>2. CASE Alone(c, [me EXCEPT !.pc = "bind", !.client = TRUE])
    <2> DEFINE new == [me EXCEPT !.pc = "bind", !.client = TRUE]
    <2>1. new \in Dials
          BY <1>0 DEF Dials, Setup
    <2>2. Fits(opts[c], new, remote[c]) /\ new.sock = me.sock
          BY <1>0 DEF Fits, Dials
    <2> QED BY <1>2, <2>1, <2>2, AloneInv
  <1> QED BY <1>1, <1>2 DEF OpenClient

\* The socket: the port that was free, another one to try, or none.
LEMMA BindInv == ASSUME IInv, NEW c \in Calls, Bind(c) PROVE IInv'
  <1> DEFINE me == d[c]
  <1>0. me \in Dials /\ Fits(opts[c], me, remote[c]) /\ me.pc = "bind"
        BY OneCall DEF Bind
  <1>1. CASE Free(me.port) /\ Alone(c, [me EXCEPT !.pc = "offer", !.sock = me.port, !.tries = 0])
    <2> DEFINE new == [me EXCEPT !.pc = "offer", !.sock = me.port, !.tries = 0]
    <2>0. 0 \in 0 .. (Tries - 1)
          BY DialAssumption
    <2> HIDE DEF Ports
    <2>1. new \in Dials
          BY <1>0, <2>0 DEF Dials, Setup
    <2>2. Fits(opts[c], new, remote[c]) /\ new.sock = me.port
          BY <1>0 DEF Fits, Dials
    <2> QED BY <1>1, <2>1, <2>2, AloneInv
  <1>2. ASSUME NEW p \in Ports, me.tries + 1 < Tries,
               Alone(c, [me EXCEPT !.port = p, !.tries = @ + 1])
        PROVE  IInv'
    <2> DEFINE new == [me EXCEPT !.port = p, !.tries = @ + 1]
    <2>1. me.tries \in 0 .. (Tries - 1)
          BY <1>0 DEF Dials
    <2>2. me.tries + 1 \in 0 .. (Tries - 1)
          BY <1>2, <2>1, DialAssumption
    <2>3. p # 0
          BY DEF Ports
    <2>4. new \in Dials
          BY <1>0, <2>2 DEF Dials
    <2>5. Fits(opts[c], new, remote[c]) /\ new.sock = me.sock
          BY <1>0, <2>3 DEF Fits, Dials
    <2> QED BY <1>2, <2>4, <2>5, AloneInv
  <1>3. CASE Alone(c, Failed([me EXCEPT !.client = FALSE], "bind"))
    <2> DEFINE new == [me EXCEPT !.client = FALSE]
    <2>1. new \in Dials /\ new.sock = me.sock /\ ~new.client
          BY <1>0 DEF Dials
    <2> QED BY <1>0, <1>3, <2>1, EarlyError
  <1> QED BY <1>1, <1>2, <1>3 DEF Bind

\* The offer names the socket that is bound.
LEMMA OfferInv == ASSUME IInv, NEW c \in Calls, Offer(c) PROVE IInv'
  <1> DEFINE me == d[c]
  <1>0. me \in Dials /\ Fits(opts[c], me, remote[c]) /\ me.pc = "offer"
        BY OneCall DEF Offer
  <1>1. ASSUME NEW exit \in {"offer", "target"},
               Alone(c, Failed([me EXCEPT !.client = FALSE], exit))
        PROVE  IInv'
    <2> DEFINE new == [me EXCEPT !.client = FALSE]
    <2>1. new \in Dials /\ new.sock = me.sock /\ ~new.client
          BY <1>0 DEF Dials
    <2> QED BY <1>0, <1>1, <2>1, EarlyError
  <1>2. CASE Alone(c, [me EXCEPT !.pc = "invite", !.offered = me.sock, !.send = opts[c].srtp])
    <2> DEFINE new == [me EXCEPT !.pc = "invite", !.offered = me.sock, !.send = opts[c].srtp]
    <2>1. opts[c].srtp \in BOOLEAN
          BY OneCall, DialAssumption
    <2>2. new \in Dials
          BY <1>0, <2>1 DEF Dials, Setup
    <2>3. Fits(opts[c], new, remote[c]) /\ new.sock = me.sock
          BY <1>0 DEF Fits, Dials
    <2> QED BY <1>2, <2>2, <2>3, AloneInv
  <1> QED BY <1>1, <1>2 DEF Offer

-----------------------------------------------------------------------------
(* INVITE, answer, ACK.                                                    *)

\* An error of the INVITE exchange: the remote is not up, or the answer had
\* no address.
LEMMA InviteErrorFits ==
    ASSUME NEW me \in Dials, NEW far \in Remotes, NEW o,
           NEW exit \in {"invite", "wait", "ack", "answer"},
           far.st = "up" => exit = "answer", NEW pc \in {"dead", "failed"},
           far.st \in {"ringing", "answered", "up"} => me.sock # 0 /\ me.offered = me.sock
    PROVE  LET new == Returned([me EXCEPT !.client = FALSE], pc, exit)
           IN  new \in Dials /\ Fits(o, new, far) /\ new.sock = me.sock
  <1> DEFINE mid == [me EXCEPT !.client = FALSE]
  <1>1. /\ mid \in Dials /\ ~mid.client
        /\ mid.sock = me.sock /\ mid.offered = me.offered
        BY DEF Dials
  <1> HIDE DEF mid
  <1>2. LET new == Returned(mid, pc, exit)
        IN  new \in Dials /\ Fits(o, new, far) /\ new.sock = mid.sock
        BY <1>1, ReturnedFits
  <1> QED BY <1>1, <1>2 DEF mid

\* Such an error keeps the invariant; a CANCEL changes nothing it speaks of.
LEMMA InviteErrorInv ==
    ASSUME IInv, NEW c \in Calls, NEW exit \in {"invite", "wait", "ack", "answer"},
           InviteError(c, d[c], exit), d[c].pc \in {"invite", "wait", "ack", "answer"},
           remote[c].st = "up" => exit = "answer",
           NEW b \in BOOLEAN,
           remote' = [remote EXCEPT ![c] = [remote[c] EXCEPT !.cancelled = b]]
    PROVE  IInv'
  <1> DEFINE pc == IF opts[c].cancel /\ d[c].expired THEN "dead" ELSE "failed"
             new == Returned([d[c] EXCEPT !.client = FALSE], pc, exit)
             far == [remote[c] EXCEPT !.cancelled = b]
  <1>1. d[c] \in Dials /\ remote[c] \in Remotes /\ Fits(opts[c], d[c], remote[c])
        BY OneCall
  <1>2. far \in Remotes /\ far.st = remote[c].st
        BY <1>1 DEF Remotes
  <1>3. far.st \in {"ringing", "answered", "up"} => d[c].sock # 0 /\ d[c].offered = d[c].sock
        BY <1>1, <1>2 DEF Fits
  <1>4. new \in Dials /\ Fits(opts[c], new, far) /\ new.sock = d[c].sock
    <2>1. pc \in {"dead", "failed"}
          OBVIOUS
    <2> HIDE DEF pc, far
    <2> QED BY <1>1, <1>2, <1>3, <2>1, InviteErrorFits
  <1>5. Become(c, new)
        BY DEF InviteError
  <1> QED BY <1>2, <1>4, <1>5, BothInv

\* A remote whose CANCEL flag is left alone.
LEMMA Uncancelled ==
    ASSUME IInv, NEW c \in Calls, UNCHANGED remote
    PROVE  \E b \in BOOLEAN : remote' = [remote EXCEPT ![c] = [remote[c] EXCEPT !.cancelled = b]]
  <1>1. remote[c] \in Remotes /\ remote = [remote EXCEPT ![c] = remote[c]]
        BY OneCall
  <1>2. /\ remote[c].cancelled \in BOOLEAN
        /\ remote[c] = [remote[c] EXCEPT !.cancelled = remote[c].cancelled]
        BY <1>1 DEF Remotes
  <1> QED BY <1>1, <1>2

\* The INVITE leaves, or does not.
LEMMA WriteInviteInv == ASSUME IInv, NEW c \in Calls, WriteInvite(c) PROVE IInv'
  <1> DEFINE me == d[c]
  <1>0. /\ me \in Dials /\ remote[c] \in Remotes
        /\ Fits(opts[c], me, remote[c]) /\ me.pc = "invite"
        BY OneCall DEF WriteInvite
  <1>1. CASE InviteError(c, me, "invite") /\ UNCHANGED remote
    <2>1. remote[c].st # "up"
          BY <1>0 DEF Fits
    <2> QED BY <1>0, <1>1, <2>1, Uncancelled, InviteErrorInv
  <1>2. CASE Become(c, [me EXCEPT !.pc = "wait"]) /\ Remote(c, "ringing")
    <2> DEFINE new == [me EXCEPT !.pc = "wait"]
               far == [remote[c] EXCEPT !.st = "ringing"]
    <2>1. new \in Dials /\ far \in Remotes
          BY <1>0 DEF Dials, Remotes, Setup
    <2>2. Fits(opts[c], new, far) /\ new.sock = me.sock
          BY <1>0 DEF Fits, Dials, Remotes
    <2>3. remote' = [remote EXCEPT ![c] = far]
          BY <1>2 DEF Remote
    <2> QED BY <1>2, <2>1, <2>2, <2>3, BothInv
  <1> QED BY <1>1, <1>2 DEF WriteInvite

\* The end of the context.
LEMMA ContextExpiresInv == ASSUME IInv, NEW c \in Calls, ContextExpires(c) PROVE IInv'
  <1> DEFINE new == [d[c] EXCEPT !.expired = TRUE]
  <1>0. d[c] \in Dials /\ Fits(opts[c], d[c], remote[c])
        BY OneCall
  <1>1. new \in Dials
        BY <1>0 DEF Dials
  <1>2. /\ new.pc = d[c].pc /\ new.exit = d[c].exit /\ new.port = d[c].port
        /\ new.sock = d[c].sock /\ new.offered = d[c].offered /\ new.cod = d[c].cod
        /\ new.client = d[c].client /\ new.send = d[c].send /\ new.recv = d[c].recv
        /\ new.dest = d[c].dest /\ new.expired
        BY <1>0 DEF Dials
  <1> HIDE DEF new
  <1>3. Fits(opts[c], new, remote[c])
        BY <1>0, <1>2 DEF Fits
  <1> USE DEF new
  <1> QED BY <1>1, <1>2, <1>3, AloneInv DEF ContextExpires

\* Early media.
LEMMA SessionProgressInv == ASSUME IInv, NEW c \in Calls, SessionProgress(c) PROVE IInv'
  <1> DEFINE new == [d[c] EXCEPT !.dest = "183"]
  <1>0. d[c] \in Dials /\ Fits(opts[c], d[c], remote[c])
        BY OneCall
  <1>1. new \in Dials
        BY <1>0 DEF Dials
  <1>2. /\ new.pc = d[c].pc /\ new.exit = d[c].exit /\ new.port = d[c].port
        /\ new.sock = d[c].sock /\ new.offered = d[c].offered /\ new.cod = d[c].cod
        /\ new.client = d[c].client /\ new.send = d[c].send /\ new.recv = d[c].recv
        /\ new.dest # "none" /\ new.expired = d[c].expired
        BY <1>0 DEF Dials
  <1> HIDE DEF new
  <1>3. Fits(opts[c], new, remote[c])
        BY <1>0, <1>2 DEF Fits
  <1> USE DEF new
  <1> QED BY <1>1, <1>2, <1>3, AloneInv DEF SessionProgress

\* A final response or the end of the wait.
LEMMA WaitAnswerInv == ASSUME IInv, NEW c \in Calls, WaitAnswer(c) PROVE IInv'
  <1> DEFINE me == d[c]
  <1>0. me \in Dials /\ Fits(opts[c], me, remote[c]) /\ me.pc = "wait"
        BY OneCall DEF WaitAnswer
  <1>1. remote[c].st # "up"
        BY <1>0 DEF Fits
  <1>2. CASE remote[c].st = "answered" /\ Become(c, [me EXCEPT !.pc = "ack"]) /\ UNCHANGED remote
    <2> DEFINE new == [me EXCEPT !.pc = "ack"]
    <2>1. new \in Dials
          BY <1>0 DEF Dials, Setup
    <2>2. Fits(opts[c], new, remote[c]) /\ new.sock = me.sock
          BY <1>0, <1>2 DEF Fits, Dials
    <2> QED BY <1>2, <2>1, <2>2, AloneInv DEF Alone
  <1>3. CASE InviteError(c, me, "wait") /\ UNCHANGED remote
        BY <1>0, <1>1, <1>3, Uncancelled, InviteErrorInv
  <1>4. CASE InviteError(c, me, "wait") /\ remote' = [remote EXCEPT ![c].cancelled = TRUE]
        BY <1>0, <1>1, <1>4, InviteErrorInv
  <1> QED BY <1>2, <1>3, <1>4 DEF WaitAnswer

\* The ACK.
LEMMA AckInv == ASSUME IInv, NEW c \in Calls, Ack(c) PROVE IInv'
  <1> DEFINE me == d[c]
  <1>0. /\ me \in Dials /\ remote[c] \in Remotes
        /\ Fits(opts[c], me, remote[c]) /\ me.pc = "ack"
        BY OneCall DEF Ack
  <1>1. remote[c].st = "answered"
        BY <1>0 DEF Fits
  <1>2. CASE InviteError(c, me, "ack") /\ UNCHANGED remote
        BY <1>0, <1>1, <1>2, Uncancelled, InviteErrorInv
  <1>3. CASE /\ Become(c, [me EXCEPT !.pc = "answer"])
             /\ remote' = [remote EXCEPT ![c].st = IF @ = "answered" THEN "up" ELSE @]
    <2> DEFINE new == [me EXCEPT !.pc = "answer"]
               far == [remote[c] EXCEPT !.st = "up"]
    <2>1. new \in Dials /\ far \in Remotes
          BY <1>0 DEF Dials, Remotes, Setup
    <2>2. Fits(opts[c], new, far) /\ new.sock = me.sock
          BY <1>0 DEF Fits, Dials, Remotes
    <2>3. remote' = [remote EXCEPT ![c] = far]
          BY <1>1, <1>3
    <2> QED BY <1>3, <2>1, <2>2, <2>3, BothInv
  <1> QED BY <1>2, <1>3 DEF Ack

\* The answer: an address for media, or a call without a peer.
LEMMA ParseAnswerInv == ASSUME IInv, NEW c \in Calls, ParseAnswer(c) PROVE IInv'
  <1> DEFINE me == d[c]
  <1>0. me \in Dials /\ Fits(opts[c], me, remote[c]) /\ me.pc = "answer"
        BY OneCall DEF ParseAnswer
  <1>1. CASE InviteError(c, me, "answer") /\ UNCHANGED remote
        BY <1>0, <1>1, Uncancelled, InviteErrorInv
  <1>2. CASE Alone(c, [me EXCEPT !.pc = "key", !.dest = IF @ = "183" THEN @ ELSE "200"])
    <2> DEFINE new == [me EXCEPT !.pc = "key", !.dest = IF @ = "183" THEN @ ELSE "200"]
    <2>1. new \in Dials
          BY <1>0 DEF Dials, Setup
    <2>2. Fits(opts[c], new, remote[c]) /\ new.sock = me.sock
          BY <1>0 DEF Fits, Dials
    <2> QED BY <1>2, <2>1, <2>2, AloneInv
  <1> QED BY <1>1, <1>2 DEF ParseAnswer

-----------------------------------------------------------------------------
(* After the ACK, and the remote party.                                    *)

\* A remote that gets a BYE is not up, and as it was if it was not up before.
LEMMA ReleasedIs ==
    ASSUME IInv, NEW c \in Calls, Released(c)
    PROVE  \E far \in Remotes : /\ far.st # "up" /\ far.st \in {"down", remote[c].st}
                                /\ (far.cancelled <=> remote[c].cancelled)
                                /\ remote' = [remote EXCEPT ![c] = far]
  <1> DEFINE far == [remote[c] EXCEPT !.st = IF @ = "up" THEN "down" ELSE @]
  <1>1. remote[c] \in Remotes
        BY OneCall
  <1>2. /\ far \in Remotes /\ far.st # "up" /\ far.st \in {"down", remote[c].st}
        /\ (far.cancelled <=> remote[c].cancelled)
        BY <1>1 DEF Remotes
  <1>3. remote' = [remote EXCEPT ![c] = far]
        BY DEF Released
  <1> QED BY <1>2, <1>3

\* The remote's key: a call that cannot read it says BYE, if there is time.
LEMMA RemoteKeyInv == ASSUME IInv, NEW c \in Calls, RemoteKey(c) PROVE IInv'
  <1> DEFINE me == d[c]
             found == opts[c].srtp /\ KeyFound(remote[c].answer)
  <1>0. /\ me \in Dials /\ remote[c] \in Remotes
        /\ Fits(opts[c], me, remote[c]) /\ me.pc = "key"
        BY OneCall DEF RemoteKey
  <1>1. ASSUME Become(c, Failed([me EXCEPT !.client = FALSE], "key")),
               NEW far \in Remotes, remote' = [remote EXCEPT ![c] = far],
               far.st = "up" => me.expired,
               far.st \in {"ringing", "answered", "up"} => far.st = remote[c].st
        PROVE  IInv'
    <2> DEFINE mid == [me EXCEPT !.client = FALSE]
    <2>1. /\ mid \in Dials /\ ~mid.client /\ (mid.expired <=> me.expired)
          /\ mid.sock = me.sock /\ mid.offered = me.offered
          BY <1>0 DEF Dials
    <2>2. me.sock # 0 /\ me.offered = me.sock
          BY <1>0 DEF Fits
    <2> HIDE DEF mid
    <2>3. /\ Returned(mid, "failed", "key") \in Dials
          /\ Fits(opts[c], Returned(mid, "failed", "key"), far)
          /\ Returned(mid, "failed", "key").sock = mid.sock
          BY <1>1, <2>1, <2>2, ReturnedFits
    <2>4. Become(c, Returned(mid, "failed", "key"))
          BY <1>1 DEF Failed, mid
    <2> QED BY <1>1, <2>1, <2>3, <2>4, BothInv
  <1>2. CASE Become(c, Failed([me EXCEPT !.client = FALSE], "key")) /\ Released(c)
    <2>1. PICK far \in Remotes : /\ far.st # "up" /\ far.st \in {"down", remote[c].st}
                                 /\ remote' = [remote EXCEPT ![c] = far]
          BY <1>0, <1>2, ReleasedIs
    <2> QED BY <1>1, <1>2, <2>1
  <1>3. CASE /\ Become(c, Failed([me EXCEPT !.client = FALSE], "key"))
             /\ me.expired /\ UNCHANGED remote
    <2>1. remote' = [remote EXCEPT ![c] = remote[c]]
          BY <1>3, OneCall
    <2> QED BY <1>0, <1>1, <1>3, <2>1
  <1>4. CASE Alone(c, [me EXCEPT !.pc = "media", !.recv = found])
    <2> DEFINE new == [me EXCEPT !.pc = "media", !.recv = found]
    <2>1. found \in BOOLEAN /\ (found => opts[c].srtp)
          OBVIOUS
    <2> HIDE DEF found
    <2>2. new \in Dials
          BY <1>0, <2>1 DEF Dials, Setup
    <2>3. /\ new.pc = "media" /\ (new.recv <=> found) /\ new.exit = me.exit
          /\ new.sock = me.sock /\ new.offered = me.offered /\ new.dest = me.dest
          /\ (new.client <=> me.client) /\ (new.cod <=> me.cod) /\ new.send = me.send
          BY <1>0, <2>1 DEF Dials
    <2> HIDE DEF new
    <2>4. Fits(opts[c], new, remote[c])
          BY <1>0, <2>1, <2>3 DEF Fits
    <2> USE DEF new
    <2> QED BY <1>4, <2>2, <2>3, <2>4, AloneInv DEF found
  <1> QED BY <1>2, <1>3, <1>4 DEF RemoteKey

\* The goroutines, and a port for RTCP if it is free.
LEMMA StartMediaInv == ASSUME IInv, NEW c \in Calls, StartMedia(c) PROVE IInv'
  <1> DEFINE me == d[c]
             port == IF opts[c].rtcp /\ Free(me.sock + 1) THEN me.sock + 1 ELSE 0
             new == [me EXCEPT !.pc = "live", !.rtcp = port]
  <1>0. me \in Dials /\ Fits(opts[c], me, remote[c]) /\ me.pc = "media"
        BY OneCall DEF StartMedia
  <1>1. port \in 0 .. (TopPort + 1)
    <2>1. me.sock \in Ports \union {0}
          BY <1>0 DEF Dials
    <2> QED BY <2>1, DialAssumption DEF Ports
  <1> HIDE DEF port
  <1>2. new \in Dials
        BY <1>0, <1>1 DEF Dials
  <1>3. Fits(opts[c], new, remote[c]) /\ new.sock = me.sock
        BY <1>0 DEF Fits, Dials
  <1> USE DEF port
  <1> QED BY <1>2, <1>3, AloneInv DEF StartMedia

\* The end of a call gives everything back, whether or not its BYE arrives.
LEMMA EndInv == ASSUME IInv, NEW c \in Calls, End(c) PROVE IInv'
  <1> DEFINE new == [Idle EXCEPT !.pc = "done", !.offered = d[c].offered]
  <1>1. /\ remote[c] \in Remotes /\ d[c] \in Dials
        /\ Fits(opts[c], d[c], remote[c]) /\ d[c].pc = "live"
        BY OneCall DEF End
  <1>2. remote[c].st \in {"up", "left"} /\ ~remote[c].cancelled
        BY <1>1 DEF Fits
  <1>3. PICK far \in Remotes : /\ far.st \in {"up", "left", "down"} /\ ~far.cancelled
                               /\ remote' = [remote EXCEPT ![c] = far]
    <2>1. CASE Released(c)
          BY <1>2, <2>1, ReleasedIs
    <2>2. CASE UNCHANGED remote
          BY <1>1, <1>2, <2>2, OneCall
    <2> QED BY <2>1, <2>2 DEF End
  <1>4. new \in Dials
    <2>1. 0 \in 0 .. (Tries - 1) /\ 0 \in 0 .. (TopPort + 1)
          BY DialAssumption
    <2> HIDE DEF Ports
    <2>2. d[c].offered \in Ports \union {0}
          BY <1>1 DEF Dials
    <2> QED BY <2>1, <2>2 DEF Idle, Dials, Setup
  <1>5. Fits(opts[c], new, far) /\ new.sock = 0
        BY <1>3 DEF Fits, Idle
  <1> QED BY <1>3, <1>4, <1>5, BothInv DEF End

\* What the remote does of itself: it answers, refuses, gives up or hangs up.
LEMMA RemoteInv ==
    ASSUME IInv, NEW c \in Calls,
           AnswerCall(c) \/ Refuse(c) \/ RemoteGivesUp(c) \/ RemoteHangsUp(c)
    PROVE  IInv'
  <1>0. d[c] \in Dials /\ remote[c] \in Remotes /\ Fits(opts[c], d[c], remote[c])
        BY OneCall
  <1>1. ASSUME NEW far \in Remotes, remote' = [remote EXCEPT ![c] = far],
               UNCHANGED <<opts, d>>, Fits(opts[c], d[c], far)
        PROVE  IInv'
    <2>1. d' = [d EXCEPT ![c] = d[c]]
          BY <1>1, OneCall
    <2> QED BY <1>0, <1>1, <2>1, Local
  <1>2. ASSUME NEW a \in Answers, remote[c].st = "ringing", UNCHANGED <<opts, d>>,
               remote' = [remote EXCEPT ![c].st = "answered", ![c].answer = a]
        PROVE  IInv'
    <2> DEFINE far == [remote[c] EXCEPT !.st = "answered", !.answer = a]
    <2>1. far \in Remotes /\ far.st = "answered"
          BY <1>0 DEF Remotes
    <2>2. Fits(opts[c], d[c], far)
          BY <1>0, <1>2, <2>1 DEF Fits
    <2>3. remote' = [remote EXCEPT ![c] = far]
          BY <1>2, OneCall DEF IInv, TypeOK
    <2> QED BY <1>1, <1>2, <2>1, <2>2, <2>3
  <1>3. CASE Refuse(c)
    <2> DEFINE far == [remote[c] EXCEPT !.st = "refused"]
    <2>1. far \in Remotes /\ far.st = "refused"
          BY <1>0 DEF Remotes
    <2>2. Fits(opts[c], d[c], far)
          BY <1>0, <1>3, <2>1 DEF Fits, Refuse
    <2>3. remote' = [remote EXCEPT ![c] = far] /\ UNCHANGED <<opts, d>>
          BY <1>3 DEF Refuse, Remote
    <2> QED BY <1>1, <2>1, <2>2, <2>3
  <1>4. CASE RemoteGivesUp(c)
    <2> DEFINE far == [remote[c] EXCEPT !.st = "down"]
    <2>1. far \in Remotes /\ far.st = "down"
          BY <1>0 DEF Remotes
    <2>2. d[c].pc \in {"failed", "dead"}
          BY <1>0, <1>4 DEF Fits, RemoteGivesUp
    <2>3. Fits(opts[c], d[c], far)
          BY <1>0, <2>1, <2>2 DEF Fits
    <2>4. remote' = [remote EXCEPT ![c] = far] /\ UNCHANGED <<opts, d>>
          BY <1>4 DEF RemoteGivesUp, Remote
    <2> QED BY <1>1, <2>1, <2>3, <2>4
  <1>5. CASE RemoteHangsUp(c)
    <2> DEFINE far == [remote[c] EXCEPT !.st = "left"]
    <2>1. far \in Remotes /\ far.st = "left" /\ (far.cancelled <=> remote[c].cancelled)
          BY <1>0 DEF Remotes
    <2>2. Fits(opts[c], d[c], far)
          BY <1>0, <1>5, <2>1 DEF Fits, RemoteHangsUp
    <2>3. remote' = [remote EXCEPT ![c] = far] /\ UNCHANGED <<opts, d>>
          BY <1>5 DEF RemoteHangsUp, Remote
    <2> QED BY <1>1, <2>1, <2>2, <2>3
  <1> QED BY <1>2, <1>3, <1>4, <1>5 DEF AnswerCall

-----------------------------------------------------------------------------
(* The invariant.                                                          *)

\* Nothing is held at the start.
LEMMA InitInv == Init => IInv
  <1> SUFFICES ASSUME Init PROVE IInv
      OBVIOUS
  <1>1. Idle \in Dials
        BY DialAssumption DEF Idle, Dials, Setup
  <1>2. ASSUME NEW c \in Calls PROVE remote[c] \in Remotes
        BY DEF Init, Remotes
  <1>3. TypeOK
        BY <1>1, <1>2 DEF Init, TypeOK, Remotes
  <1>4. OneSocket
        BY DEF Init, OneSocket, Idle
  <1>5. ASSUME NEW c \in Calls PROVE Fits(opts[c], d[c], remote[c])
        BY DEF Init, Fits, Idle
  <1> QED BY <1>3, <1>4, <1>5 DEF IInv

\* Every step of Dial, of its timers and of the remote parties keeps it.
LEMMA StepInv == IInv /\ [Next]_vars => IInv'
  <1> SUFFICES ASSUME IInv, [Next]_vars PROVE IInv'
      OBVIOUS
  <1>1. ASSUME NEW c \in Calls, Step(c) PROVE IInv'
        BY <1>1, PrepareInv, OpenClientInv, BindInv, OfferInv, WriteInviteInv,
           WaitAnswerInv, AckInv, ParseAnswerInv, RemoteKeyInv, StartMediaInv DEF Step
  <1>2. CASE UNCHANGED vars
        BY <1>2 DEF vars, IInv, TypeOK, OneSocket
  <1> QED BY <1>1, <1>2, ContextExpiresInv, SessionProgressInv, EndInv, RemoteInv DEF Next

\* The invariant holds in every behaviour.
LEMMA Invariant == Spec => []IInv
  BY InitInv, StepInv, PTL DEF Spec

-----------------------------------------------------------------------------
(* Theorems.                                                               *)

\* Every variable keeps its type: the attempts stay below the bound and a port
\* is one of those that may be drawn (dial.go:98).
THEOREM TypeCorrect == Spec => []TypeOK
  <1>1. IInv => TypeOK
        BY DEF IInv
  <1> QED BY <1>1, Invariant, PTL

\* Dial returns an active handle only with all it needs (dial.go, step 15).
THEOREM WholeHandle == Spec => []LiveHandleIsWhole
  <1>1. IInv => LiveHandleIsWhole
    <2> SUFFICES ASSUME IInv, NEW c \in Calls, d[c].pc = "live"
                 PROVE  /\ d[c].cod /\ d[c].client
                        /\ d[c].sock # 0 /\ d[c].sock = d[c].offered
                        /\ remote[c].st \in {"up", "left"} /\ d[c].dest # "none"
                        /\ d[c].send = opts[c].srtp /\ (d[c].recv => d[c].send)
        BY DEF LiveHandleIsWhole
    <2>1. Fits(opts[c], d[c], remote[c])
          BY OneCall
    <2> QED BY <2>1 DEF Fits
  <1> QED BY <1>1, Invariant, PTL

\* However many Dials run and collide, two remotes send to one port only when
\* the call of one of them has ended and its BYE did not arrive (dial.go:98).
THEOREM OwnPort == Spec => []NoCrossTalk
  <1>1. IInv => NoCrossTalk
    <2> SUFFICES ASSUME IInv, NEW c \in Calls, NEW k \in Calls, c # k, Sends(c), Sends(k),
                        d[c].pc # "done", d[k].pc # "done"
                 PROVE  d[c].offered # d[k].offered
        BY DEF NoCrossTalk
    <2>1. Fits(opts[c], d[c], remote[c]) /\ Fits(opts[k], d[k], remote[k])
          BY OneCall
    <2>2. d[c].sock # 0 /\ d[c].offered = d[c].sock /\ d[k].offered = d[k].sock
          BY <2>1 DEF Fits, Sends
    <2> QED BY <2>2 DEF IInv, OneSocket
  <1> QED BY <1>1, Invariant, PTL

\* A failed Dial has closed its client, and released its remote but where the
\* code sends no BYE.
THEOREM QuietFailure == Spec => []FailedDialIsQuiet
  <1>1. IInv => FailedDialIsQuiet
        BY DEF IInv, Fits, FailedDialIsQuiet
  <1> QED BY <1>1, Invariant, PTL
=============================================================================
