--------------------------------- MODULE Dial ---------------------------------
(***************************************************************************)
(* Setting up calls (sip/dial.go: Dial, sip/invite.go: SendINVITE,         *)
(* sip/early_media.go): several Dials run at once, compete for UDP ports,  *)
(* offer the port they bound to their remote party, and fail at any step.  *)
(* A set-up call is the business of CallHandle; here it lives until it     *)
(* ends and gives everything back, whether its remote party has hung up by *)
(* then, hears the BYE, or stays behind.                                   *)
(***************************************************************************)
EXTENDS Integers, FiniteSets

CONSTANTS
    Calls,    \* Dials that may run at once
    TopPort,  \* bound: RTP ports are 1 .. TopPort, 20000 .. 39999 in the code
    Tries,    \* attempts to bind, 5 in the code
    Options   \* possible settings, as records [srtp, early, rtcp, cancel, timed]

ASSUME DialAssumption ==
    /\ TopPort \in Nat \ {0} /\ Tries \in Nat \ {0}
    /\ Options \subseteq [srtp : BOOLEAN, early : BOOLEAN, rtcp : BOOLEAN,
                          cancel : BOOLEAN, timed : BOOLEAN]

Ports == 1 .. TopPort

\* What a 200 carries: no address for media, no key, a key as RFC 4568 writes
\* it ("a=crypto:1 suite inline:..."), or a good or broken key after a space
\* in front of the tag.
Answers == {"no address", "no key", "key", "spaced key", "spaced broken key"}

\* ParseSDPCrypto wants four words, and a line as RFC 4568 writes it has
\* three.
KeyFound(a) == a \in {"spaced key", "spaced broken key"}

VARIABLES
    opts,    \* cfg of each call
    d,       \* the local variables of each Dial
    remote   \* each remote party

vars == <<opts, d, remote>>

Idle == [pc |-> "idle", exit |-> "", port |-> 0, tries |-> 0, sock |-> 0, rtcp |-> 0,
         offered |-> 0, cod |-> FALSE, client |-> FALSE, send |-> FALSE, recv |-> FALSE,
         dest |-> "none", expired |-> FALSE]

Init ==
    /\ opts \in [Calls -> Options]
    /\ d = [c \in Calls |-> Idle]
    /\ remote = [c \in Calls |-> [st |-> "idle", answer |-> "", cancelled |-> FALSE]]

\* A UDP socket of another call, live or leaked, keeps its port.
Free(p) == \A k \in Calls : p \notin {d[k].sock, d[k].rtcp}

Become(c, me) == d' = [d EXCEPT ![c] = me] /\ UNCHANGED opts
Alone(c, me) == Become(c, me) /\ UNCHANGED remote
Remote(c, st) == remote' = [remote EXCEPT ![c].st = st]
Released(c) == remote' = [remote EXCEPT ![c].st = IF @ = "up" THEN "down" ELSE @]

\* Local variables end with Dial; sockets, the client and the codec do not.
Returned(me, pc, exit) ==
    [me EXCEPT !.pc = pc, !.exit = exit, !.port = 0, !.tries = 0,
               !.send = FALSE, !.recv = FALSE, !.dest = "none"]
Failed(me, exit) == Returned(me, "failed", exit)

-----------------------------------------------------------------------------
(* Before the INVITE.                                                      *)

\* The codec, then the media file; the SIP client does not exist yet.
Prepare(c) ==
    LET me == d[c] IN
    /\ me.pc = "idle"
    /\ \/ Alone(c, Failed(me, "codec"))
       \/ Alone(c, Failed([me EXCEPT !.cod = TRUE], "media"))
       \/ \E p \in Ports : Alone(c, [me EXCEPT !.pc = "client", !.cod = TRUE, !.port = p])

OpenClient(c) ==
    LET me == d[c] IN
    /\ me.pc = "client"
    /\ \/ Alone(c, Failed(me, "client"))
       \/ Alone(c, [me EXCEPT !.pc = "bind", !.client = TRUE])

\* Slip: the attempts are not counted.
BindForever(c) ==
    LET me == d[c] IN
    /\ me.pc = "bind"
    /\ IF Free(me.port) THEN Alone(c, [me EXCEPT !.pc = "offer", !.sock = me.port])
       ELSE \E p \in Ports : Alone(c, [me EXCEPT !.port = p])

\* Another random port on each collision.
Bind(c) ==
    LET me == d[c] IN
    /\ me.pc = "bind"
    /\ \/ Free(me.port) /\ Alone(c, [me EXCEPT !.pc = "offer", !.sock = me.port, !.tries = 0])
       \/ /\ ~Free(me.port) /\ me.tries + 1 < Tries
          /\ \E p \in Ports : Alone(c, [me EXCEPT !.port = p, !.tries = @ + 1])
       \/ /\ ~Free(me.port) /\ me.tries + 1 = Tries
          /\ Alone(c, Failed([me EXCEPT !.client = FALSE], "bind"))

\* Slip: the offer is built from a port drawn before the socket is bound.
OfferAnyPort(c) ==
    LET me == d[c] IN
    /\ me.pc = "offer"
    /\ \E p \in Ports : Alone(c, [me EXCEPT !.pc = "invite", !.offered = p, !.send = opts[c].srtp])

\* The SDP offer, with a fresh key for SRTP, and the target URI; either may
\* fail.
Offer(c) ==
    LET me == d[c] IN
    /\ me.pc = "offer"
    /\ \/ opts[c].srtp /\ Alone(c, Failed([me EXCEPT !.client = FALSE], "offer"))
       \/ Alone(c, Failed([me EXCEPT !.client = FALSE], "target"))
       \/ Alone(c, [me EXCEPT !.pc = "invite", !.offered = me.sock, !.send = opts[c].srtp])

-----------------------------------------------------------------------------
(* INVITE, answer, ACK.                                                    *)

\* Every error of the INVITE exchange closes the client; when the context of
\* a call with CancelAfter has run out, it becomes a handle that is done.
InviteError(c, me, exit) ==
    Become(c, Returned([me EXCEPT !.client = FALSE],
                       IF opts[c].cancel /\ me.expired THEN "dead" ELSE "failed", exit))

WriteInvite(c) ==
    LET me == d[c] IN
    /\ me.pc = "invite"
    /\ \/ InviteError(c, me, "invite") /\ UNCHANGED remote
       \/ Become(c, [me EXCEPT !.pc = "wait"]) /\ Remote(c, "ringing")

\* The deadline of the INVITE's context: CancelAfter, or 30 seconds.
ContextExpires(c) ==
    LET me == d[c] IN
    /\ me.pc \in {"invite", "wait", "ack", "answer", "key"} /\ ~me.expired
    /\ Alone(c, [me EXCEPT !.expired = TRUE])

\* A 183 with an address for media, which only an early-media call reads.
SessionProgress(c) ==
    LET me == d[c] IN
    /\ me.pc = "wait" /\ remote[c].st = "ringing" /\ opts[c].early
    /\ Alone(c, [me EXCEPT !.dest = "183"])

\* Slip: the ACK is left to the transaction layer.
WaitAnswerAcks(c) ==
    LET me == d[c] IN
    /\ me.pc = "wait"
    /\ \/ remote[c].st = "answered" /\ Become(c, [me EXCEPT !.pc = "answer"]) /\ UNCHANGED remote
       \/ remote[c].st = "refused" /\ InviteError(c, me, "wait") /\ UNCHANGED remote
       \/ /\ me.expired /\ InviteError(c, me, "wait")
          /\ remote' = [remote EXCEPT ![c].cancelled = TRUE]

\* A final response, or the end of the context, which sends a CANCEL.
WaitAnswer(c) ==
    LET me == d[c] IN
    /\ me.pc = "wait"
    /\ \/ remote[c].st = "answered" /\ Become(c, [me EXCEPT !.pc = "ack"]) /\ UNCHANGED remote
       \/ remote[c].st = "refused" /\ InviteError(c, me, "wait") /\ UNCHANGED remote
       \/ /\ me.expired /\ InviteError(c, me, "wait")
          /\ remote' = [remote EXCEPT ![c].cancelled = TRUE]

Ack(c) ==
    LET me == d[c] IN
    /\ me.pc = "ack"
    /\ \/ InviteError(c, me, "ack") /\ UNCHANGED remote
       \/ /\ Become(c, [me EXCEPT !.pc = "answer"])
          /\ remote' = [remote EXCEPT ![c].st = IF @ = "answered" THEN "up" ELSE @]

\* The address of the 183 is kept when there was one.
ParseAnswer(c) ==
    LET me == d[c] IN
    /\ me.pc = "answer"
    /\ \/ /\ remote[c].answer = "no address"
          /\ InviteError(c, me, "answer") /\ UNCHANGED remote
       \/ /\ remote[c].answer # "no address"
          /\ Alone(c, [me EXCEPT !.pc = "key", !.dest = IF @ = "183" THEN @ ELSE "200"])

-----------------------------------------------------------------------------
(* After the ACK.                                                          *)

\* Slip: a key that does not parse ends Dial without a BYE.
RemoteKeyQuietly(c) ==
    LET me == d[c]
        found == opts[c].srtp /\ KeyFound(remote[c].answer) IN
    /\ me.pc = "key"
    /\ IF found /\ remote[c].answer = "spaced broken key"
       THEN Alone(c, Failed([me EXCEPT !.client = FALSE], "key"))
       ELSE Alone(c, [me EXCEPT !.pc = "media", !.recv = found])

\* The remote's SRTP key.  A BYE whose context has run out may not leave.
RemoteKey(c) ==
    LET me == d[c]
        found == opts[c].srtp /\ KeyFound(remote[c].answer) IN
    /\ me.pc = "key"
    /\ \/ /\ found /\ remote[c].answer = "spaced broken key"
          /\ Become(c, Failed([me EXCEPT !.client = FALSE], "key"))
          /\ \/ Released(c)
             \/ me.expired /\ UNCHANGED remote
       \/ /\ ~(found /\ remote[c].answer = "spaced broken key")
          /\ Alone(c, [me EXCEPT !.pc = "media", !.recv = found])

\* The goroutines start; RTCP binds the next port or does without.  The errors
\* of the SRTP sessions do not occur: the keys are generated, or their length
\* was checked when they were parsed (sdp_srtp.go, srtp.go: ParseSRTPConfig).
StartMedia(c) ==
    LET me == d[c] IN
    /\ me.pc = "media"
    /\ Alone(c, [me EXCEPT !.pc = "live",
                           !.rtcp = IF opts[c].rtcp /\ Free(me.sock + 1) THEN me.sock + 1 ELSE 0])

\* Hangup, by the script or by the timer of a timed call, up to the end of
\* the finalizer (CallHandle).  The finalizer does not wait for the BYE: the
\* client may be closed before it leaves, or nobody answers it, and then the
\* remote party stays in the call while the ports are free again.
End(c) ==
    LET me == d[c] IN
    /\ me.pc = "live"
    /\ Become(c, [Idle EXCEPT !.pc = "done", !.offered = me.offered])
    /\ Released(c) \/ UNCHANGED remote

-----------------------------------------------------------------------------
(* The remote party.                                                       *)

AnswerCall(c) ==
    /\ remote[c].st = "ringing"
    /\ \E a \in Answers : remote' = [remote EXCEPT ![c].st = "answered", ![c].answer = a]
    /\ UNCHANGED <<opts, d>>

Refuse(c) ==
    /\ remote[c].st = "ringing"
    /\ Remote(c, "refused")
    /\ UNCHANGED <<opts, d>>

\* It sees the CANCEL before it has answered, or gives up waiting for an ACK.
RemoteGivesUp(c) ==
    /\ \/ remote[c].st = "ringing" /\ remote[c].cancelled
       \/ remote[c].st = "answered" /\ d[c].pc \in {"failed", "dead"}
    /\ Remote(c, "down")
    /\ UNCHANGED <<opts, d>>

\* It hangs up, at any time after the ACK: the client says 200 to its BYE and
\* does nothing else (client.go: OnBye).
RemoteHangsUp(c) ==
    /\ remote[c].st = "up"
    /\ Remote(c, "left")
    /\ UNCHANGED <<opts, d>>

Step(c) == \/ Prepare(c) \/ OpenClient(c) \/ Bind(c) \/ Offer(c) \/ WriteInvite(c)
           \/ WaitAnswer(c) \/ Ack(c) \/ ParseAnswer(c) \/ RemoteKey(c) \/ StartMedia(c)

Next == \E c \in Calls : \/ Step(c) \/ ContextExpires(c) \/ SessionProgress(c) \/ End(c)
                         \/ AnswerCall(c) \/ Refuse(c) \/ RemoteGivesUp(c) \/ RemoteHangsUp(c)

Spec == Init /\ [][Next]_vars

\* A Dial that has begun goes on, timers fire, and a timed call ends (see
\* CallHandle); remote parties and scripts promise nothing.
FairSpec ==
    /\ Spec
    /\ \A c \in Calls : /\ WF_vars(d[c].pc # "idle" /\ Step(c))
                        /\ WF_vars(ContextExpires(c))
                        /\ WF_vars(opts[c].timed /\ End(c))

-----------------------------------------------------------------------------
(* Properties.                                                             *)

Setup == {"idle", "client", "bind", "offer", "invite", "wait", "ack", "answer", "key", "media"}

Dials == [pc : Setup \union {"live", "dead", "failed", "done"},
          exit : {"", "codec", "media", "client", "bind", "offer", "target",
                  "invite", "wait", "ack", "answer", "key"},
          port : Ports \union {0}, tries : 0 .. (Tries - 1),
          sock : Ports \union {0}, rtcp : 0 .. (TopPort + 1),
          offered : Ports \union {0}, cod : BOOLEAN, client : BOOLEAN,
          send : BOOLEAN, recv : BOOLEAN,
          dest : {"none", "183", "200"}, expired : BOOLEAN]

Remotes == [st : {"idle", "ringing", "answered", "refused", "up", "left", "down"},
            answer : Answers \union {""}, cancelled : BOOLEAN]

TypeOK ==
    /\ opts \in [Calls -> Options]
    /\ d \in [Calls -> Dials]
    /\ remote \in [Calls -> Remotes]

\* A handle that Dial returns as active has everything a call needs: codec,
\* client, the bound socket that was offered, a remote party that answered,
\* was acknowledged and is in the call unless it has hung up by itself, an
\* address for media, and its own key for SRTP (dial.go: the literal of step 15).
LiveHandleIsWhole ==
    \A c \in Calls : d[c].pc = "live" =>
        /\ d[c].cod /\ d[c].client
        /\ d[c].sock # 0 /\ d[c].sock = d[c].offered
        /\ remote[c].st \in {"up", "left"} /\ d[c].dest # "none"
        /\ d[c].send = opts[c].srtp /\ (d[c].recv => d[c].send)

\* Two remote parties that were invited and not released send their media to
\* one port only when the call of one of them has ended and left it behind: the
\* port in an offer is the one the OS bound, also after collisions, and stays
\* bound until Dial's call ends, for good where Dial fails (dial.go:98).
Sends(c) == remote[c].st \in {"ringing", "answered", "up"}
NoCrossTalk ==
    \A c, k \in Calls :
        c # k /\ Sends(c) /\ Sends(k) /\ d[c].offered = d[k].offered
            => "done" \in {d[c].pc, d[k].pc}

\* A Dial that gives no live handle leaves no SIP client behind, and a remote
\* party in a call without a peer only where the code sends no BYE after its
\* ACK: when the answer has no address, or when CancelAfter ran out before
\* the BYE (dial.go: the error returns).
FailedDialIsQuiet ==
    \A c \in Calls : d[c].pc \in {"failed", "dead"} =>
        /\ ~d[c].client
        /\ remote[c].st = "up" => d[c].exit = "answer" \/ (d[c].exit = "key" /\ d[c].expired)

\* Dial returns, whatever the remote party does and however many ports are
\* taken, and a timed call then ends and gives its ports back (call.go:
\* StartCall).
DialSettles ==
    \A c \in Calls : d[c].pc # "idle" ~>
        \/ d[c].pc \in {"failed", "dead", "done"}
        \/ d[c].pc = "live" /\ ~opts[c].timed
=============================================================================
