----------------------------- MODULE SendingProofs -----------------------------
(***************************************************************************)
(* Proofs about the sending side.  First MediaSender, for any number of    *)
(* players and shards, frames and digits, and numbers and times of any     *)
(* range: a stream has its turn once in each tick until it ends, and the   *)
(* numbers and times of a call go on as a receiver expects, across their   *)
(* wraps.  Then SrtpStream, for sequence numbers of any width: both ends   *)
(* of a stream agree on the index of a packet.                             *)
(***************************************************************************)
EXTENDS MediaSender, SrtpStream, FiniteSetTheorems, TLAPS

Members(s) == {s[i] : i \in 1 .. Len(s)}
Distinct(s) == \A i, j \in 1 .. Len(s) : s[i] = s[j] => i = j

\* A packet carries the number of its place among the draws, and the session's
\* time is ahead of its by a frame for each draw since, at most.
Placed(p, m) ==
    /\ m.nth < drawn[p] /\ m.seq = m.nth % SeqRange
    /\ (session[p].ts - m.ts) % TsRange <= drawn[p] - m.nth

\* The session counts the draws; what a hand holds it has drawn itself.
Counted ==
    \A p \in Players :
        /\ session[p].seq = drawn[p] % SeqRange
        /\ \A m \in Packets(p) : Placed(p, m)
        /\ \A from \in Sources : held[p][from] # Nothing => held[p][from].from = from

\* The lists of a shard name a player once, and only what belongs here; during
\* a tick each running player is either yet to be visited or kept.
Lists(s) ==
    /\ Distinct(items[s]) /\ Distinct(todo[s]) /\ Distinct(kept[s])
    /\ \A p \in Members(items[s]) : stage[p] \in {"running", "gone"} /\ home[p] = s
    /\ s \notin ticking => todo[s] = <<>> /\ \A p \in Members(items[s]) : stage[p] = "running"
    /\ s \in ticking =>
          /\ Members(todo[s]) \subseteq Members(items[s])
          /\ Members(kept[s]) \subseteq Members(items[s])
          /\ Members(todo[s]) \intersect Members(kept[s]) = {}
          /\ \A p \in Members(items[s]) :
                stage[p] = "running" <=> p \in Members(todo[s]) \union Members(kept[s])

\* A running player is in the list of its shard, and onDone was called at the end.
Carried(p) ==
    /\ stage[p] = "running" => p \in Members(items[home[p]])
    /\ done[p] = IF stage[p] = "gone" THEN 1 ELSE 0

IInv == /\ MediaTypeOK /\ Counted /\ NumbersInOrder
        /\ \A s \in Shards : Lists(s)
        /\ \A p \in Players : Carried(p)

-----------------------------------------------------------------------------
(* Lists.                                                                  *)

\* A list with another element at its end.
LEMMA AppendMembers ==
    ASSUME NEW S, NEW s \in Seq(S), NEW x \in S
    PROVE  /\ Append(s, x) \in Seq(S)
           /\ Members(Append(s, x)) = Members(s) \union {x}
           /\ Distinct(s) /\ x \notin Members(s) => Distinct(Append(s, x))
  <1> DEFINE t == Append(s, x)
  <1>1. /\ t \in Seq(S) /\ Len(t) = Len(s) + 1 /\ Len(s) \in Nat
        /\ t[Len(s) + 1] = x /\ \A i \in 1 .. Len(s) : t[i] = s[i]
        OBVIOUS
  <1> HIDE DEF t
  <1>2. 1 .. Len(t) = (1 .. Len(s)) \union {Len(s) + 1}
        BY <1>1
  <1>3. Members(t) = Members(s) \union {x}
        BY <1>1, <1>2 DEF Members
  <1>4. Distinct(s) /\ x \notin Members(s) => Distinct(t)
        BY <1>1, <1>2 DEF Members, Distinct
  <1> QED BY <1>1, <1>3, <1>4 DEF t

\* A list without its first element.
LEMMA TailMembers ==
    ASSUME NEW S, NEW s \in Seq(S), s # <<>>
    PROVE  /\ Tail(s) \in Seq(S) /\ Head(s) \in S /\ Head(s) \in Members(s)
           /\ Members(s) = Members(Tail(s)) \union {Head(s)}
           /\ Distinct(s) => Distinct(Tail(s)) /\ Head(s) \notin Members(Tail(s))
  <1> DEFINE t == Tail(s)
  <1>1. /\ t \in Seq(S) /\ Len(s) \in Nat \ {0} /\ Len(t) = Len(s) - 1 /\ Len(t) \in Nat
        /\ Head(s) = s[1] /\ s[1] \in S
        /\ \A i \in 1 .. Len(t) : t[i] = s[i + 1]
        OBVIOUS
  <1> HIDE DEF t
  <1>2. \A i \in 1 .. Len(s) : i = 1 \/ (i - 1 \in 1 .. Len(t) /\ s[i] = t[i - 1])
        BY <1>1
  <1>3. \A i \in 1 .. Len(t) : i + 1 \in 1 .. Len(s) /\ i + 1 # 1
        BY <1>1
  <1>4. Members(s) \subseteq Members(t) \union {s[1]}
        BY <1>2 DEF Members
  <1>5. Members(t) \subseteq Members(s) /\ s[1] \in Members(s)
        BY <1>1, <1>3 DEF Members
  <1>6. ASSUME Distinct(s) PROVE Distinct(t) /\ s[1] \notin Members(t)
    <2>1. Distinct(t)
          BY <1>1, <1>3, <1>6 DEF Distinct
    <2>2. s[1] \notin Members(t)
          BY <1>1, <1>3, <1>6 DEF Distinct, Members
    <2> QED BY <2>1, <2>2
  <1> QED BY <1>1, <1>4, <1>5, <1>6 DEF t

\* The members of a list of players are players.
LEMMA MembersType == ASSUME NEW S, NEW s \in Seq(S) PROVE Members(s) \subseteq S
  BY DEF Members

\* The empty list.
LEMMA EmptyMembers == Members(<<>>) = {} /\ Distinct(<<>>)
  BY DEF Members, Distinct

\* How often a list without repetitions names a player.
LEMMA OnePlace ==
    ASSUME MediaTypeOK, NEW s \in Shards, NEW p \in Players, Distinct(items[s])
    PROVE  Cardinality(PlacesOf(p, s)) = IF p \in Members(items[s]) THEN 1 ELSE 0
  <1>1. CASE p \in Members(items[s])
    <2>1. PICK i \in 1 .. Len(items[s]) : items[s][i] = p
          BY <1>1 DEF Members
    <2>2. PlacesOf(p, s) = {i}
          BY <2>1 DEF PlacesOf, Distinct
    <2> QED BY <1>1, <2>2, FS_Singleton
  <1>2. CASE p \notin Members(items[s])
    <2>1. PlacesOf(p, s) = {}
          BY <1>2 DEF PlacesOf, Members
    <2> QED BY <1>2, <2>1, FS_EmptySet
  <1> QED BY <1>1, <1>2

-----------------------------------------------------------------------------
(* Remainders.                                                             *)

\* Division with remainder.
LEMMA Euclid == ASSUME NEW w \in Nat \ {0}, NEW x \in Int
  PROVE \E q \in Int, r \in 0 .. w - 1 : x % w = r /\ x = w * q + r
  <1>1. w \in Nat /\ w > 0
        OBVIOUS
  <1>2. x % w = x - w * (x \div w)
        BY <1>1, Z3
  <1>3. x % w \in 0 .. w - 1 /\ x \div w \in Int
        OBVIOUS
  <1> DEFINE q == x \div w  r == x % w
  <1>4. q \in Int /\ r \in 0 .. w - 1 /\ r = x - w * q
        BY <1>2, <1>3
  <1> HIDE DEF q, r
  <1>5. w * q \in Int
        BY <1>4
  <1>6. x = w * q + r
        BY <1>4, <1>5
  <1> QED BY <1>4, <1>6 DEF r

\* A multiple of w between -w and w is 0.
LEMMA Small == ASSUME NEW w \in Nat \ {0}, NEW t \in Int, w * t < w, w * t > -w PROVE t = 0
  <1>1. ~(t >= 1)
    <2>1. t >= 1 => w * t >= w
          BY Z3
    <2> QED BY <2>1
  <1>2. ~(t <= -1)
    <2>1. t <= -1 => w * t <= -w
          BY Z3
    <2> QED BY <2>1
  <1> QED BY <1>1, <1>2

\* Multiples of w add up.
LEMMA Dist == ASSUME NEW w \in Nat, NEW p \in Int, NEW q \in Int, NEW k \in Int
    PROVE w * p - w * q - w * k = w * (p - q - k)
  OBVIOUS

\* Integers that differ by a multiple of w have the same remainder.
LEMMA SameRemainder ==
    ASSUME NEW w \in Nat \ {0}, NEW x \in Int, NEW y \in Int, NEW k \in Int, x = y + w * k
    PROVE  x % w = y % w
  <1>1. PICK p \in Int, r \in 0 .. w - 1 : x % w = r /\ x = w * p + r
        BY Euclid
  <1>2. PICK q \in Int, s \in 0 .. w - 1 : y % w = s /\ y = w * q + s
        BY Euclid
  <1>3. w * p - w * q - w * k = w * (p - q - k)
        BY Dist
  <1>4. w * p \in Int /\ w * q \in Int /\ w * k \in Int /\ p - q - k \in Int /\ w * (p - q - k) \in Int
        OBVIOUS
  <1>5. w * (p - q - k) = s - r
        BY <1>1, <1>2, <1>3, <1>4
  <1>6. p - q - k = 0
        BY <1>4, <1>5, Small
  <1>7. w * (p - q - k) = 0
        BY <1>6
  <1> QED BY <1>1, <1>2, <1>5, <1>7

\* The remainder after one step more.
LEMMA StepOn == ASSUME NEW w \in Nat \ {0}, NEW x \in Int
    PROVE  /\ (x + 1) % w = ((x % w) + 1) % w
           /\ (x + 1) % w <= (x % w) + 1
  <1>1. PICK q \in Int, r \in 0 .. w - 1 : x % w = r /\ x = w * q + r
        BY Euclid
  <1>2. w * q \in Int /\ r \in Int /\ x + 1 = (r + 1) + w * q /\ x + 1 \in Int /\ r + 1 \in Int
        BY <1>1
  <1>3. (x + 1) % w = (r + 1) % w
    <2>1. ASSUME NEW y \in Int, NEW z \in Int, y = z + w * q PROVE y % w = z % w
          BY <1>1, <2>1, SameRemainder
    <2> QED BY <1>2, <2>1
  <1>4. (r + 1) % w <= r + 1
    <2>1. CASE r + 1 < w
          BY <1>1, <2>1
    <2>2. CASE r + 1 = w
      <3>1. w = 0 + w * 1 /\ w \in Int
            OBVIOUS
      <3>2. w % w = 0 % w
            BY <3>1, SameRemainder
      <3> QED BY <2>2, <3>2
    <2> QED BY <1>1, <2>1, <2>2
  <1> QED BY <1>1, <1>3, <1>4

\* A distance on a clock after the clock has moved by one.
LEMMA Ahead ==
    ASSUME NEW w \in Nat \ {0}, NEW t \in Int, NEW u \in Int, NEW step \in {0, 1}
    PROVE  (((t + step) % w) - u) % w <= ((t - u) % w) + step
  <1>1. PICK q \in Int, r \in 0 .. w - 1 : (t + step) % w = r /\ t + step = w * q + r
    <2>1. t + step \in Int
          OBVIOUS
    <2> QED BY <2>1, Euclid
  <1>2. w * q \in Int /\ r \in Int /\ step \in Int
        BY <1>1
  <1>3. (r - u) % w = (t + step - u) % w
    <2>1. t + step - u = (r - u) + w * q /\ t + step - u \in Int /\ r - u \in Int
          BY <1>1, <1>2
    <2> QED BY <2>1, SameRemainder
  <1>4. (t + step - u) % w <= ((t - u) % w) + step
    <2>1. CASE step = 0
      <3>1. t + step - u = t - u /\ (t - u) % w \in Int
            BY <2>1
      <3> QED BY <2>1, <3>1
    <2>2. CASE step = 1
      <3>1. t + step - u = (t - u) + 1 /\ t - u \in Int
            BY <2>2
      <3> QED BY <2>2, <3>1, StepOn
    <2> QED BY <2>1, <2>2
  <1> QED BY <1>1, <1>3, <1>4

\* Remainders of numbers less than w apart differ.
LEMMA Apart ==
    ASSUME NEW w \in Nat \ {0}, NEW x \in Nat, NEW y \in Nat, x < y, y < x + w
    PROVE  x % w # y % w
  <1> SUFFICES ASSUME x % w = y % w PROVE FALSE
      OBVIOUS
  <1>0. x \in Int /\ y \in Int
        OBVIOUS
  <1>1. PICK p \in Int, r \in 0 .. w - 1 : x % w = r /\ x = w * p + r
        BY <1>0, Euclid
  <1>2. PICK q \in Int, s \in 0 .. w - 1 : y % w = s /\ y = w * q + s
        BY <1>0, Euclid
  <1>3. w * q - w * p - w * 0 = w * (q - p - 0)
        BY Dist
  <1>4. w * p \in Int /\ w * q \in Int /\ w * 0 = 0 /\ q - p - 0 \in Int /\ w * (q - p - 0) \in Int
        OBVIOUS
  <1>5. w * (q - p - 0) = y - x
        BY <1>1, <1>2, <1>3, <1>4
  <1>6. q - p - 0 = 0
        BY <1>4, <1>5, Small
  <1>7. w * (q - p - 0) = 0
        BY <1>6
  <1> QED BY <1>5, <1>7

-----------------------------------------------------------------------------
(* The numbers of a call.                                                  *)

\* Packets are records of what was drawn.
LEMMA PacketTypes ==
    ASSUME MediaTypeOK, NEW p \in Players, NEW m \in Packets(p)
    PROVE  /\ m \in Drawn
           /\ m.nth \in Nat /\ m.seq \in Int /\ m.ts \in Int
  <1>1. m \in Drawn
        BY DEF MediaTypeOK, Packets
  <1> QED BY <1>1, MediaAssumption DEF Drawn

\* Two packets that carry the numbers of their places.
LEMMA NumbersFollow ==
    ASSUME NEW m \in Drawn, NEW n \in Drawn, m.nth < n.nth,
           m.seq = m.nth % SeqRange, n.seq = n.nth % SeqRange
    PROVE  /\ n.nth < m.nth + SeqRange => m.seq # n.seq
           /\ n.nth = m.nth + 1 => n.seq = (m.seq + 1) % SeqRange
  <1>1. m.nth \in Nat /\ n.nth \in Nat /\ SeqRange \in Nat \ {0} /\ m.nth \in Int
        BY MediaAssumption DEF Drawn
  <1>2. n.nth < m.nth + SeqRange => m.seq # n.seq
        BY <1>1, Apart
  <1>3. (m.nth + 1) % SeqRange = ((m.nth % SeqRange) + 1) % SeqRange
        BY <1>1, StepOn
  <1> QED BY <1>2, <1>3

\* What NextSeqTS does to the numbers: the next one is drawn.
LEMMA DrawKeeps ==
    ASSUME IInv, NEW p \in Players, NEW from \in Sources, NEW step \in {0, 1},
           held[p][from] = Nothing, NextSeqTS(p, from, step), spent' = spent
    PROVE  /\ Counted' /\ NumbersInOrder'
           /\ session' \in [Players -> Stamps] /\ drawn' \in [Players -> Nat]
           /\ held' \in [Players -> [Sources -> Drawn \union {Nothing}]]
  <1> USE MediaAssumption
  <1> DEFINE m == Packet(p, from)
             t == [seq |-> (session[p].seq + 1) % SeqRange, ts |-> (session[p].ts + step) % TsRange]
  <1>1. /\ held' = [held EXCEPT ![p][from] = m] /\ session' = [session EXCEPT ![p] = t]
        /\ drawn' = [drawn EXCEPT ![p] = @ + 1]
        /\ session[p] \in Stamps /\ drawn[p] \in Nat
        BY DEF NextSeqTS, IInv, MediaTypeOK
  <1>2. /\ session[p].seq \in 0 .. SeqRange - 1 /\ session[p].ts \in 0 .. TsRange - 1
        /\ session[p].seq \in Int /\ session[p].ts \in Int /\ step \in Int
        BY <1>1 DEF Stamps
  <1>3. /\ m \in Drawn /\ m # Nothing /\ m.seq = session[p].seq /\ m.ts = session[p].ts
        /\ m.nth = drawn[p] /\ m.from = from
        BY <1>1, <1>2 DEF Drawn, Nothing, Sources, Packet
  <1>4. t \in Stamps /\ t.seq = (session[p].seq + 1) % SeqRange /\ t.ts = (session[p].ts + step) % TsRange
        BY <1>2 DEF Stamps
  <1> HIDE DEF m, t
  <1>5. /\ session' \in [Players -> Stamps] /\ drawn' \in [Players -> Nat]
        /\ held' \in [Players -> [Sources -> Drawn \union {Nothing}]]
        BY <1>1, <1>3, <1>4 DEF IInv, MediaTypeOK
  <1>6. Packets(p)' = Packets(p) \union {m}
        BY <1>1, <1>3 DEF Packets, IInv, MediaTypeOK
  <1>7. ASSUME NEW q \in Players, q # p
        PROVE  Packets(q)' = Packets(q) /\ session'[q] = session[q] /\ drawn'[q] = drawn[q] /\ held'[q] = held[q]
        BY <1>1, <1>7 DEF Packets, IInv, MediaTypeOK
  <1>8. session'[p] = t /\ drawn'[p] = drawn[p] + 1 /\ held'[p] = [held[p] EXCEPT ![from] = m]
        BY <1>1 DEF IInv, MediaTypeOK
  <1>9. t.seq = (drawn[p] + 1) % SeqRange
    <2>1. session[p].seq = drawn[p] % SeqRange
          BY DEF IInv, Counted
    <2> QED BY <1>1, <1>4, <2>1, StepOn
  <1>10. ASSUME NEW n \in Packets(p)
         PROVE  /\ n.nth \in Nat /\ n.seq \in Int /\ n.ts \in Int /\ n \in Drawn
                /\ n.nth < drawn[p] /\ n.seq = n.nth % SeqRange
                /\ (session[p].ts - n.ts) % TsRange <= drawn[p] - n.nth
                /\ (t.ts - n.ts) % TsRange <= drawn[p] + 1 - n.nth
    <2>1. n.nth \in Nat /\ n.seq \in Int /\ n.ts \in Int /\ n \in Drawn
          BY PacketTypes DEF IInv
    <2>2. Placed(p, n)
          BY DEF IInv, Counted
    <2>3. (((session[p].ts + step) % TsRange) - n.ts) % TsRange <= ((session[p].ts - n.ts) % TsRange) + step
          BY <1>2, <2>1, Ahead
    <2>4. /\ (t.ts - n.ts) % TsRange \in Int /\ (session[p].ts - n.ts) % TsRange \in Int
          BY <1>2, <1>4, <2>1
    <2> QED BY <1>1, <1>4, <2>1, <2>2, <2>3, <2>4 DEF Placed
  <1>11. (t.ts - m.ts) % TsRange <= 1
    <2>1. (((session[p].ts + step) % TsRange) - session[p].ts) % TsRange
              <= ((session[p].ts - session[p].ts) % TsRange) + step
          BY <1>2, Ahead
    <2>2. (session[p].ts - session[p].ts) % TsRange = 0
          BY <1>2
    <2>3. (t.ts - m.ts) % TsRange \in Int
          BY <1>2, <1>3, <1>4
    <2> QED BY <1>3, <1>4, <2>1, <2>2, <2>3
  <1>12. Counted'
    <2>1. ASSUME NEW n \in Packets(p)'
          PROVE  /\ n.nth < drawn'[p] /\ n.seq = n.nth % SeqRange
                 /\ (session'[p].ts - n.ts) % TsRange <= drawn'[p] - n.nth
      <3>1. CASE n \in Packets(p)
        <4>1. n.nth \in Int /\ drawn[p] \in Int
              BY <1>1, <1>10, <3>1
        <4> QED BY <1>8, <1>10, <3>1, <4>1
      <3>2. CASE n = m
        <4>1. n.nth = drawn[p] /\ drawn[p] \in Int /\ drawn'[p] - n.nth = 1
              BY <1>1, <1>3, <1>8, <3>2
        <4>2. n.seq = n.nth % SeqRange
              BY <1>3, <3>2 DEF IInv, Counted
        <4> QED BY <1>8, <1>11, <3>2, <4>1, <4>2
      <3> QED BY <1>6, <3>1, <3>2
    <2>2. ASSUME NEW q \in Players
          PROVE  /\ session'[q].seq = drawn'[q] % SeqRange
                 /\ \A n \in Packets(q)' : Placed(q, n)'
                 /\ \A f \in Sources : held'[q][f] # Nothing => held'[q][f].from = f
      <3>1. CASE q = p
        <4>1. \A f \in Sources : held'[q][f] # Nothing => held'[q][f].from = f
          <5>1. DOMAIN held[p] = Sources
                BY DEF IInv, MediaTypeOK
          <5>2. ASSUME NEW f \in Sources, f # from PROVE held'[p][f] = held[p][f]
                BY <1>8, <5>1, <5>2
          <5>3. held'[p][from] = m
                BY <1>8, <5>1
          <5>4. \A f \in Sources : held[p][f] # Nothing => held[p][f].from = f
                BY DEF IInv, Counted
          <5> QED BY <1>3, <3>1, <5>2, <5>3, <5>4
        <4>2. \A n \in Packets(q)' : Placed(q, n)'
              BY <2>1, <3>1 DEF Placed
        <4> QED BY <1>8, <1>9, <3>1, <4>1, <4>2
      <3>2. CASE q # p
        <4>1. \A n \in Packets(q)' : Placed(q, n)'
              BY <1>7, <3>2 DEF IInv, Counted, Placed
        <4> QED BY <1>7, <3>2, <4>1 DEF IInv, Counted
      <3> QED BY <3>1, <3>2
    <2> QED BY <2>2 DEF Counted
  <1>13. NumbersInOrder'
    <2>1. ASSUME NEW a \in Packets(p)', NEW n \in Packets(p)', a.nth < n.nth
          PROVE  /\ n.nth < a.nth + SeqRange => a.seq # n.seq
                 /\ n.nth = a.nth + 1 => n.seq = (a.seq + 1) % SeqRange
                 /\ (n.ts - a.ts) % TsRange <= n.nth - a.nth
      <3>1. CASE a \in Packets(p) /\ n \in Packets(p)
            BY <2>1, <3>1 DEF IInv, NumbersInOrder
      <3>2. CASE a \in Packets(p) /\ n = m
        <4>1. n.seq = n.nth % SeqRange
              BY <1>3, <3>2 DEF IInv, Counted
        <4>2. (n.ts - a.ts) % TsRange <= n.nth - a.nth
              BY <1>3, <1>10, <3>2
        <4>3. a \in Drawn /\ n \in Drawn /\ a.seq = a.nth % SeqRange
              BY <1>3, <1>10, <3>2
        <4> QED BY <2>1, <4>1, <4>2, <4>3, NumbersFollow
      <3>3. CASE a = m
        <4>1. \A k \in Packets(p) : k.nth < drawn[p] /\ k.nth \in Int
              BY <1>10
        <4>2. n.nth <= drawn[p] /\ n.nth \in Int /\ drawn[p] \in Int
              BY <1>1, <1>3, <1>6, <4>1
        <4> QED BY <1>3, <2>1, <3>3, <4>2
      <3> QED BY <1>6, <3>1, <3>2, <3>3
    <2>2. ASSUME NEW a \in spent[p], held'[p][a.from] # Nothing
          PROVE  a.nth < held'[p][a.from].nth
      <3>1. a \in Packets(p) /\ a \in Drawn /\ a.from \in Sources
            BY DEF Packets, IInv, MediaTypeOK, Drawn
      <3>2. CASE a.from = from
            BY <1>3, <1>8, <1>10, <3>1, <3>2 DEF IInv, MediaTypeOK
      <3>3. CASE a.from # from
        <4>1. held'[p][a.from] = held[p][a.from]
              BY <1>8, <3>3
        <4> QED BY <2>2, <4>1 DEF IInv, NumbersInOrder
      <3> QED BY <3>2, <3>3
    <2>3. ASSUME NEW q \in Players
          PROVE  /\ \A a, n \in Packets(q)' : a.nth < n.nth =>
                       /\ n.nth < a.nth + SeqRange => a.seq # n.seq
                       /\ n.nth = a.nth + 1 => n.seq = (a.seq + 1) % SeqRange
                       /\ (n.ts - a.ts) % TsRange <= n.nth - a.nth
                 /\ \A a \in spent'[q] : held'[q][a.from] # Nothing => a.nth < held'[q][a.from].nth
      <3>1. CASE q = p
            BY <2>1, <2>2, <3>1
      <3>2. CASE q # p
            BY <1>7, <3>2 DEF IInv, NumbersInOrder
      <3> QED BY <3>1, <3>2
    <2> QED BY <2>3 DEF NumbersInOrder
  <1> QED BY <1>5, <1>12, <1>13

\* What Transmit does: a packet changes hands.
LEMMA TransmitKeeps ==
    ASSUME IInv, NEW p \in Players, NEW from \in Sources, Transmit(p, from)
    PROVE  /\ Counted' /\ NumbersInOrder'
           /\ spent' \in [Players -> SUBSET Drawn]
           /\ held' \in [Players -> [Sources -> Drawn \union {Nothing}]]
           /\ session' = session /\ drawn' = drawn
  <1>1. /\ held' = [held EXCEPT ![p][from] = Nothing] /\ session' = session /\ drawn' = drawn
        /\ spent' = [spent EXCEPT ![p] = @ \union {held[p][from]}]
        /\ held[p][from] \in Drawn /\ held[p][from] # Nothing
        BY DEF Transmit, IInv, MediaTypeOK
  <1>2. spent' \in [Players -> SUBSET Drawn] /\ held' \in [Players -> [Sources -> Drawn \union {Nothing}]]
        BY <1>1 DEF IInv, MediaTypeOK
  <1>3. ASSUME NEW q \in Players PROVE Packets(q)' = Packets(q)
    <2>1. CASE q = p
          BY <1>1, <2>1 DEF Packets, IInv, MediaTypeOK
    <2>2. CASE q # p
          BY <1>1, <2>2 DEF Packets, IInv, MediaTypeOK
    <2> QED BY <2>1, <2>2
  <1>4. \A q \in Players, f \in Sources : held'[q][f] # Nothing => held'[q][f] = held[q][f]
        BY <1>1 DEF IInv, MediaTypeOK
  <1>5. Counted'
    <2>1. ASSUME NEW q \in Players
          PROVE  /\ session'[q].seq = drawn'[q] % SeqRange
                 /\ \A n \in Packets(q)' : Placed(q, n)'
                 /\ \A f \in Sources : held'[q][f] # Nothing => held'[q][f].from = f
      <3>1. \A n \in Packets(q)' : Placed(q, n)'
            BY <1>1, <1>3 DEF IInv, Counted, Placed
      <3>2. \A f \in Sources : held'[q][f] # Nothing => held'[q][f].from = f
            BY <1>4 DEF IInv, Counted
      <3> QED BY <1>1, <3>1, <3>2 DEF IInv, Counted
    <2> QED BY <2>1 DEF Counted
  <1>6. NumbersInOrder'
    <2>1. ASSUME NEW q \in Players, NEW a \in spent'[q], held'[q][a.from] # Nothing
          PROVE  a.nth < held'[q][a.from].nth
      <3>1. spent'[q] \subseteq Drawn
            BY <1>2
      <3>2. a.from \in Sources /\ held'[q][a.from] = held[q][a.from]
            BY <1>4, <2>1, <3>1 DEF Drawn
      <3>3. CASE a \in spent[q]
            BY <2>1, <3>2, <3>3 DEF IInv, NumbersInOrder
      <3>4. CASE a \notin spent[q]
        <4>1. q = p /\ a = held[p][from]
              BY <1>1, <3>4 DEF IInv, MediaTypeOK
        <4>2. a.from = from
              BY <1>1, <4>1 DEF IInv, Counted
        <4>3. held'[p][from] = Nothing
              BY <1>1 DEF IInv, MediaTypeOK
        <4> QED BY <2>1, <4>1, <4>2, <4>3
      <3> QED BY <3>3, <3>4
    <2>2. ASSUME NEW q \in Players
          PROVE  \A a, n \in Packets(q)' : a.nth < n.nth =>
                       /\ n.nth < a.nth + SeqRange => a.seq # n.seq
                       /\ n.nth = a.nth + 1 => n.seq = (a.seq + 1) % SeqRange
                       /\ (n.ts - a.ts) % TsRange <= n.nth - a.nth
          BY <1>3 DEF IInv, NumbersInOrder
    <2> QED BY <2>1, <2>2 DEF NumbersInOrder
  <1> QED BY <1>1, <1>2, <1>5, <1>6

-----------------------------------------------------------------------------
(* The lists of the shards.                                                *)

\* A shard whose lists and whose streams a step leaves alone.
LEMMA SameLists ==
    ASSUME NEW s \in Shards, Lists(s),
           items'[s] = items[s], todo'[s] = todo[s], kept'[s] = kept[s],
           s \in ticking' <=> s \in ticking,
           \A q \in Members(items[s]) : stage'[q] = stage[q] /\ home'[q] = home[q]
    PROVE  Lists(s)'
  BY DEF Lists

\* The members of the lists are players.
LEMMA ItemsType == ASSUME IInv, NEW s \in Shards PROVE Members(items[s]) \subseteq Players
  <1>1. items[s] \in Seq(Players)
        BY DEF IInv, MediaTypeOK
  <1> QED BY <1>1, MembersType

\* A step that touches no list and moves no stream.
LEMMA QuietLists ==
    ASSUME IInv, UNCHANGED <<ticking, items, todo, kept, stage, home, done>>
    PROVE  (\A s \in Shards : Lists(s)') /\ (\A p \in Players : Carried(p)')
  <1>1. /\ ticking' = ticking /\ items' = items /\ todo' = todo /\ kept' = kept
        /\ stage' = stage /\ home' = home /\ done' = done
        OBVIOUS
  <1>2. ASSUME NEW s \in Shards PROVE Lists(s)'
        BY <1>1, SameLists DEF IInv
  <1>3. ASSUME NEW p \in Players PROVE Carried(p)'
        BY <1>1 DEF IInv, Carried
  <1> QED BY <1>2, <1>3

\* A stream is placed: no list names it yet.
LEMMA AddLists ==
    ASSUME IInv, NEW p \in Players, Add(p)
    PROVE  (\A s \in Shards : Lists(s)') /\ (\A q \in Players : Carried(q)')
  <1>1. /\ stage[p] = "new" /\ stage' = [stage EXCEPT ![p] = "placed"]
        /\ \A q \in Players : q # p => stage'[q] = stage[q] /\ home'[q] = home[q]
        /\ stage'[p] = "placed"
        /\ ticking' = ticking /\ items' = items /\ todo' = todo /\ kept' = kept /\ done' = done
        BY DEF IInv, MediaTypeOK, Add, reactorVars
  <1>2. ASSUME NEW s \in Shards PROVE Lists(s)'
    <2>1. p \notin Members(items[s]) /\ Members(items[s]) \subseteq Players
          BY <1>1, ItemsType DEF IInv, Lists
    <2>2. \A q \in Members(items[s]) : stage'[q] = stage[q] /\ home'[q] = home[q]
          BY <1>1, <2>1
    <2> QED BY <1>1, <2>2, SameLists DEF IInv
  <1>3. ASSUME NEW q \in Players PROVE Carried(q)'
        BY <1>1 DEF IInv, Carried
  <1> QED BY <1>2, <1>3

\* A stream joins the list of its shard, which is not ticking.
LEMMA ShardAddLists ==
    ASSUME IInv, NEW p \in Players, ShardAdd(p)
    PROVE  (\A s \in Shards : Lists(s)') /\ (\A q \in Players : Carried(q)')
  <1> DEFINE h == home[p]
  <1>1. /\ stage[p] = "placed" /\ h \notin ticking /\ h \in Shards
        /\ stage'[p] = "running" /\ \A q \in Players : q # p => stage'[q] = stage[q]
        /\ items' = [items EXCEPT ![h] = Append(items[h], p)]
        /\ items'[h] = Append(items[h], p) /\ \A s \in Shards : s # h => items'[s] = items[s]
        /\ items[h] \in Seq(Players)
        /\ ticking' = ticking /\ todo' = todo /\ kept' = kept /\ done' = done /\ home' = home
        BY DEF IInv, MediaTypeOK, ShardAdd, reactorVars
  <1> HIDE DEF h
  <1>2. \A s \in Shards : p \notin Members(items[s]) /\ Members(items[s]) \subseteq Players
        BY <1>1, ItemsType DEF IInv, Lists
  <1>3. /\ Members(items'[h]) = Members(items[h]) \union {p}
        /\ Distinct(items'[h])
        BY <1>1, <1>2, AppendMembers DEF IInv, Lists
  <1>4. Lists(h)'
    <2>1. /\ Distinct(todo'[h]) /\ Distinct(kept'[h]) /\ todo'[h] = <<>> /\ h \notin ticking'
          BY <1>1 DEF IInv, Lists
    <2>2. ASSUME NEW q \in Members(items'[h]) PROVE stage'[q] = "running" /\ home'[q] = h
      <3>1. CASE q = p
            BY <1>1, <3>1 DEF h
      <3>2. CASE q # p
            BY <1>1, <1>2, <1>3, <2>2, <3>2 DEF IInv, Lists
      <3> QED BY <3>1, <3>2
    <2>3. h' = h
          BY <1>1 DEF h
    <2> QED BY <1>3, <2>1, <2>2, <2>3 DEF Lists
  <1>5. ASSUME NEW s \in Shards, s # h PROVE Lists(s)'
    <2>1. \A q \in Members(items[s]) : stage'[q] = stage[q]
          BY <1>1, <1>2
    <2>2. \A q \in Members(items[s]) : home'[q] = home[q]
          BY <1>1
    <2> QED BY <1>1, <1>5, <2>1, <2>2, SameLists DEF IInv
  <1>6. ASSUME NEW q \in Players PROVE Carried(q)'
    <2>1. CASE q = p
          BY <1>1, <1>3, <2>1 DEF IInv, Carried, h
    <2>2. CASE q # p
          BY <1>1, <1>3, <2>2 DEF IInv, Carried
    <2> QED BY <2>1, <2>2
  <1>7. h' = h
        BY <1>1 DEF h
  <1> QED BY <1>4, <1>5, <1>6, <1>7

\* A tick begins: everything is yet to be visited.
LEMMA TickBeginsLists ==
    ASSUME IInv, NEW s \in Shards, TickBegins(s)
    PROVE  (\A r \in Shards : Lists(r)') /\ (\A q \in Players : Carried(q)')
  <1>1. /\ s \notin ticking /\ ticking' = ticking \union {s}
        /\ todo'[s] = items[s] /\ kept'[s] = <<>>
        /\ \A r \in Shards : r # s => todo'[r] = todo[r] /\ kept'[r] = kept[r]
        /\ items' = items /\ stage' = stage /\ home' = home /\ done' = done
        BY DEF IInv, MediaTypeOK, TickBegins
  <1>2. Lists(s)'
        BY <1>1, EmptyMembers DEF IInv, Lists
  <1>3. ASSUME NEW r \in Shards, r # s PROVE Lists(r)'
        BY <1>1, <1>3, SameLists DEF IInv
  <1>4. ASSUME NEW q \in Players PROVE Carried(q)'
        BY <1>1 DEF IInv, Carried
  <1> QED BY <1>2, <1>3, <1>4

\* A tick ends: what was kept is what still runs.
LEMMA TickEndsLists ==
    ASSUME IInv, NEW s \in Shards, TickEnds(s)
    PROVE  (\A r \in Shards : Lists(r)') /\ (\A q \in Players : Carried(q)')
  <1>1. /\ s \in ticking /\ ticking' = ticking \ {s} /\ todo[s] = <<>>
        /\ items'[s] = kept[s] /\ kept'[s] = <<>>
        /\ \A r \in Shards : r # s => items'[r] = items[r] /\ kept'[r] = kept[r]
        /\ todo' = todo /\ stage' = stage /\ home' = home /\ done' = done
        BY DEF IInv, MediaTypeOK, TickEnds
  <1>2. /\ Members(kept[s]) \subseteq Members(items[s]) /\ Distinct(kept[s])
        /\ \A p \in Members(items[s]) : stage[p] = "running" <=> p \in Members(kept[s])
        /\ \A p \in Members(items[s]) : home[p] = s
        BY <1>1, EmptyMembers DEF IInv, Lists
  <1>3. Lists(s)'
    <2>1. \A p \in Members(items'[s]) : stage'[p] = "running" /\ home'[p] = s
          BY <1>1, <1>2
    <2>2. Distinct(items'[s]) /\ Distinct(todo'[s]) /\ Distinct(kept'[s]) /\ todo'[s] = <<>>
          BY <1>1, <1>2, EmptyMembers
    <2> QED BY <1>1, <2>1, <2>2 DEF Lists
  <1>4. ASSUME NEW r \in Shards, r # s PROVE Lists(r)'
        BY <1>1, <1>4, SameLists DEF IInv
  <1>5. ASSUME NEW q \in Players PROVE Carried(q)'
    <2>1. home[q] \in Shards
          BY DEF IInv, MediaTypeOK
    <2>2. CASE home[q] = s
          BY <1>1, <1>2, <2>2 DEF IInv, Carried
    <2>3. CASE home[q] # s
          BY <1>1, <2>1, <2>3 DEF IInv, Carried
    <2> QED BY <2>2, <2>3
  <1> QED BY <1>3, <1>4, <1>5

\* What holds when the turn of p comes in a tick of s.
TurnOf(s, p) ==
    /\ s \in ticking /\ p \in Members(items[s]) /\ home[p] = s /\ stage[p] = "running"
    /\ p \notin Members(kept[s]) /\ p \notin Members(Tail(todo[s]))
    /\ Members(todo[s]) = Members(Tail(todo[s])) \union {p}
    /\ Distinct(Tail(todo[s])) /\ todo[s] # <<>>
    /\ \A r \in Shards : r # s => p \notin Members(items[r])
    /\ Distinct(items[s]) /\ Distinct(kept[s])
    /\ Members(todo[s]) \subseteq Members(items[s])
    /\ Members(kept[s]) \subseteq Members(items[s])
    /\ Members(todo[s]) \intersect Members(kept[s]) = {}
    /\ \A q \in Members(items[s]) :
          stage[q] = "running" <=> q \in Members(todo[s]) \union Members(kept[s])
    /\ \A q \in Members(items[s]) : stage[q] \in {"running", "gone"} /\ home[q] = s

\* It is the first of those to be visited.
LEMMA TurnFacts ==
    ASSUME IInv, NEW s \in Shards, NEW p \in Players, Turn(s, p) PROVE TurnOf(s, p)
  <1>1. todo[s] # <<>> /\ p = Head(todo[s]) /\ todo[s] \in Seq(Players)
        BY DEF IInv, MediaTypeOK, Turn
  <1>2. /\ Members(todo[s]) = Members(Tail(todo[s])) \union {p} /\ p \in Members(todo[s])
        /\ Distinct(Tail(todo[s])) /\ p \notin Members(Tail(todo[s]))
        /\ Tail(todo[s]) \in Seq(Players)
        BY <1>1, TailMembers DEF IInv, Lists
  <1>3. s \in ticking /\ p \in Members(items[s]) /\ p \notin Members(kept[s])
        BY <1>1, <1>2 DEF IInv, Lists
  <1>4. home[p] = s /\ stage[p] = "running"
        BY <1>2, <1>3 DEF IInv, Lists
  <1>5. \A r \in Shards : r # s => p \notin Members(items[r])
        BY <1>4 DEF IInv, Lists
  <1> QED BY <1>1, <1>2, <1>3, <1>4, <1>5 DEF IInv, Lists, TurnOf

\* A player has ended: it is in no list that remains.
LEMMA PlayerEndsLists ==
    ASSUME IInv, NEW s \in Shards, NEW p \in Players, PlayerEnds(s, p)
    PROVE  (\A r \in Shards : Lists(r)') /\ (\A q \in Players : Carried(q)')
  <1>1. TurnOf(s, p)
        BY TurnFacts DEF PlayerEnds
  <1>2. /\ stage'[p] = "gone" /\ \A q \in Players : q # p => stage'[q] = stage[q] /\ done'[q] = done[q]
        /\ done'[p] = done[p] + 1
        /\ todo'[s] = Tail(todo[s]) /\ \A r \in Shards : r # s => todo'[r] = todo[r]
        /\ ticking' = ticking /\ items' = items /\ kept' = kept /\ home' = home
        BY DEF PlayerEnds, IInv, MediaTypeOK
  <1>3. \A r \in Shards : Members(items[r]) \subseteq Players
        BY ItemsType
  <1>4. Lists(s)'
    <2>1. /\ Distinct(items[s]) /\ Distinct(kept[s]) /\ Members(todo[s]) \subseteq Members(items[s])
          /\ Members(kept[s]) \subseteq Members(items[s])
          /\ Members(todo[s]) \intersect Members(kept[s]) = {}
          /\ \A q \in Members(items[s]) :
                stage[q] = "running" <=> q \in Members(todo[s]) \union Members(kept[s])
          /\ \A q \in Members(items[s]) : stage[q] \in {"running", "gone"} /\ home[q] = s
          BY <1>1 DEF TurnOf
    <2>2. ASSUME NEW q \in Members(items[s])
          PROVE  /\ stage'[q] = "running" <=> q \in Members(todo'[s]) \union Members(kept[s])
                 /\ stage'[q] \in {"running", "gone"} /\ home'[q] = s
      <3>1. CASE q = p
            BY <1>1, <1>2, <2>1, <3>1 DEF TurnOf
      <3>2. CASE q # p
            BY <1>1, <1>2, <1>3, <2>1, <2>2, <3>2 DEF TurnOf
      <3> QED BY <3>1, <3>2
    <2>3. s \in ticking' /\ Distinct(todo'[s]) /\ Members(todo'[s]) \subseteq Members(items[s])
            /\ Members(todo'[s]) \intersect Members(kept[s]) = {}
          BY <1>1, <1>2, <2>1 DEF TurnOf
    <2> QED BY <1>2, <2>1, <2>2, <2>3 DEF Lists
  <1>5. ASSUME NEW r \in Shards, r # s PROVE Lists(r)'
    <2>1. \A q \in Members(items[r]) : stage'[q] = stage[q]
          BY <1>1, <1>2, <1>3, <1>5 DEF TurnOf
    <2> QED BY <1>2, <1>5, <2>1, SameLists DEF IInv
  <1>6. ASSUME NEW q \in Players PROVE Carried(q)'
    <2>1. CASE q = p
          BY <1>1, <1>2, <2>1 DEF IInv, Carried, TurnOf
    <2>2. CASE q # p
          BY <1>2, <2>2 DEF IInv, Carried
    <2> QED BY <2>1, <2>2
  <1> QED BY <1>4, <1>5, <1>6

\* A player goes on: it moves from those yet to be visited to those kept.
LEMMA PlayerSendsLists ==
    ASSUME IInv, NEW s \in Shards, NEW p \in Players, PlayerSends(s, p)
    PROVE  (\A r \in Shards : Lists(r)') /\ (\A q \in Players : Carried(q)')
  <1>1. TurnOf(s, p)
        BY TurnFacts DEF PlayerSends
  <1>2. /\ todo'[s] = Tail(todo[s]) /\ kept'[s] = Append(kept[s], p)
        /\ \A r \in Shards : r # s => todo'[r] = todo[r] /\ kept'[r] = kept[r]
        /\ ticking' = ticking /\ items' = items /\ home' = home /\ stage' = stage /\ done' = done
        /\ kept[s] \in Seq(Players)
        BY DEF PlayerSends, IInv, MediaTypeOK
  <1>3. /\ Members(kept'[s]) = Members(kept[s]) \union {p}
        /\ Distinct(kept'[s])
        BY <1>1, <1>2, AppendMembers DEF TurnOf
  <1>4. Lists(s)'
    <2>1. /\ Distinct(items[s]) /\ Members(todo[s]) \subseteq Members(items[s])
          /\ Members(kept[s]) \subseteq Members(items[s])
          /\ Members(todo[s]) \intersect Members(kept[s]) = {}
          /\ \A q \in Members(items[s]) :
                stage[q] = "running" <=> q \in Members(todo[s]) \union Members(kept[s])
          /\ \A q \in Members(items[s]) : stage[q] \in {"running", "gone"} /\ home[q] = s
          BY <1>1 DEF TurnOf
    <2>2. Members(todo'[s]) \union Members(kept'[s]) = Members(todo[s]) \union Members(kept[s])
          BY <1>1, <1>2, <1>3 DEF TurnOf
    <2>3. /\ s \in ticking' /\ Distinct(todo'[s])
          /\ Members(todo'[s]) \intersect Members(kept'[s]) = {}
          /\ Members(todo'[s]) \subseteq Members(items[s])
          /\ Members(kept'[s]) \subseteq Members(items[s])
          BY <1>1, <1>2, <1>3, <2>1 DEF TurnOf
    <2> QED BY <1>2, <1>3, <2>1, <2>2, <2>3 DEF Lists
  <1>5. ASSUME NEW r \in Shards, r # s PROVE Lists(r)'
        BY <1>2, <1>5, SameLists DEF IInv
  <1>6. ASSUME NEW q \in Players PROVE Carried(q)'
        BY <1>2 DEF IInv, Carried
  <1> QED BY <1>4, <1>5, <1>6

-----------------------------------------------------------------------------
(* The invariant.                                                          *)

\* The initial state satisfies the invariant.
LEMMA InitInv == MediaInit => IInv
  <1> SUFFICES ASSUME MediaInit PROVE IInv
      OBVIOUS
  <1> USE MediaAssumption DEF MediaInit
  <1>1. items \in [Shards -> Seq(Players)] /\ todo = items /\ kept = items
        OBVIOUS
  <1>2. home \in [Players -> Shards] /\ next \in 0 .. NShards - 1
        BY DEF Shards
  <1>3. \A p \in Players : Digits[p] * (KeyPackets + 1) \in Nat
    <2>1. KeyPackets + 1 \in Nat /\ \A p \in Players : Digits[p] \in Nat
          OBVIOUS
    <2>2. \A x, y \in Nat : x * y \in Nat
          OBVIOUS
    <2> QED BY ONLY <2>1, <2>2
  <1>4. MediaTypeOK
    <2>1. keys \in [Players -> Nat]
          BY <1>3
    <2>2. session \in [Players -> Stamps]
          BY DEF Stamps
    <2>3. held \in [Players -> [Sources -> Drawn \union {Nothing}]]
          OBVIOUS
    <2> QED BY <1>1, <1>2, <2>1, <2>2, <2>3 DEF MediaTypeOK
  <1>5. \A p \in Players : Packets(p) = {}
        BY DEF Packets
  <1>6. Counted
    <2>1. 0 % SeqRange = 0
          OBVIOUS
    <2> QED BY <1>5, <2>1 DEF Counted
  <1>7. NumbersInOrder
        BY <1>5 DEF NumbersInOrder
  <1>8. ASSUME NEW s \in Shards PROVE Lists(s)
    <2>1. items[s] = <<>> /\ todo[s] = <<>> /\ kept[s] = <<>> /\ s \notin ticking
          BY <1>1
    <2> QED BY <2>1, EmptyMembers DEF Lists
  <1>9. \A p \in Players : Carried(p)
        BY DEF Carried
  <1> QED BY <1>4, <1>6, <1>7, <1>8, <1>9 DEF IInv

\* A step that draws and sends nothing.
LEMMA SameNumbers ==
    ASSUME IInv, UNCHANGED sessionVars
    PROVE  /\ Counted' /\ NumbersInOrder'
           /\ session' = session /\ held' = held /\ spent' = spent /\ drawn' = drawn
  <1>1. session' = session /\ held' = held /\ spent' = spent /\ drawn' = drawn
        BY DEF sessionVars
  <1>2. \A p \in Players : Packets(p)' = Packets(p)
        BY <1>1 DEF Packets
  <1>3. Counted'
        BY <1>1, <1>2 DEF IInv, Counted, Placed
  <1>4. NumbersInOrder'
        BY <1>1, <1>2 DEF IInv, NumbersInOrder
  <1> QED BY <1>1, <1>3, <1>4

\* What a call does.
LEMMA CallInv == ASSUME IInv, NEW p \in Players, Call(p) PROVE IInv'
  <1> USE MediaAssumption DEF reactorVars
  <1>1. CASE Add(p)
    <2>1. MediaTypeOK'
      <3>1. (next % NShards) + 1 \in Shards /\ (next + 1) % NShards \in 0 .. NShards - 1
        <4>1. next \in Nat /\ NShards \in Nat /\ NShards > 0
              BY DEF IInv, MediaTypeOK
        <4>2. next % NShards \in 0 .. NShards - 1 /\ (next + 1) % NShards \in 0 .. NShards - 1
              BY <4>1
        <4> QED BY <4>1, <4>2 DEF Shards
      <3> QED BY <1>1, <3>1 DEF IInv, MediaTypeOK, Add, sessionVars
    <2> QED BY <1>1, <2>1, AddLists, SameNumbers DEF Add, IInv
  <1>2. CASE ShardAdd(p)
    <2>1. MediaTypeOK'
      <3>1. Append(items[home[p]], p) \in Seq(Players)
            BY AppendMembers DEF IInv, MediaTypeOK
      <3> QED BY <1>2, <3>1 DEF IInv, MediaTypeOK, ShardAdd, sessionVars
    <2> QED BY <1>2, <2>1, ShardAddLists, SameNumbers DEF ShardAdd, IInv
  <1>3. CASE CloseStop(p)
    <2>1. MediaTypeOK'
          BY <1>3 DEF IInv, MediaTypeOK, CloseStop, sessionVars
    <2> QED BY <1>3, <2>1, QuietLists, SameNumbers DEF CloseStop, IInv
  <1>4. CASE KeyDraw(p)
    <2>1. (IF keys[p] % (KeyPackets + 1) = 1 THEN 0 ELSE 1) \in {0, 1} /\ "keypad" \in Sources
          BY DEF Sources
    <2>2. /\ Counted' /\ NumbersInOrder'
          /\ session' \in [Players -> Stamps] /\ drawn' \in [Players -> Nat]
          /\ held' \in [Players -> [Sources -> Drawn \union {Nothing}]]
          BY <1>4, <2>1, DrawKeeps DEF KeyDraw
    <2>3. keys' \in [Players -> Nat]
      <3>1. keys \in [Players -> Nat] /\ keys[p] > 0 /\ keys' = [keys EXCEPT ![p] = keys[p] - 1]
            BY <1>4 DEF KeyDraw, IInv, MediaTypeOK
      <3>2. keys[p] - 1 \in Nat
            BY <3>1
      <3> QED BY <3>1, <3>2
    <2>4. MediaTypeOK'
          BY <1>4, <2>2, <2>3 DEF KeyDraw, IInv, MediaTypeOK
    <2> QED BY <1>4, <2>2, <2>4, QuietLists DEF KeyDraw, IInv
  <1>5. CASE KeySend(p)
    <2>1. /\ Counted' /\ NumbersInOrder' /\ session' = session /\ drawn' = drawn
          /\ spent' \in [Players -> SUBSET Drawn]
          /\ held' \in [Players -> [Sources -> Drawn \union {Nothing}]]
          BY <1>5, TransmitKeeps DEF KeySend, Sources
    <2>2. MediaTypeOK'
          BY <1>5, <2>1 DEF KeySend, IInv, MediaTypeOK
    <2> QED BY <1>5, <2>1, <2>2, QuietLists DEF KeySend, IInv
  <1> QED BY <1>1, <1>2, <1>3, <1>4, <1>5 DEF Call

\* What a shard does.
LEMMA ShardInv == ASSUME IInv, NEW s \in Shards, Shard(s) PROVE IInv'
  <1>1. CASE TickBegins(s)
    <2>1. MediaTypeOK'
      <3>1. todo' \in [Shards -> Seq(Players)] /\ kept' \in [Shards -> Seq(Players)]
            BY <1>1 DEF IInv, MediaTypeOK, TickBegins
      <3>2. token' \subseteq Shards /\ ticking' \subseteq Shards
            BY <1>1 DEF IInv, MediaTypeOK, TickBegins
      <3> QED BY <1>1, <3>1, <3>2 DEF IInv, MediaTypeOK, TickBegins, sessionVars
    <2> QED BY <1>1, <2>1, TickBeginsLists, SameNumbers DEF TickBegins, IInv
  <1>2. CASE TickEnds(s)
    <2>1. MediaTypeOK'
          BY <1>2 DEF IInv, MediaTypeOK, TickEnds, sessionVars
    <2> QED BY <1>2, <2>1, TickEndsLists, SameNumbers DEF TickEnds, IInv
  <1>3. ASSUME NEW p \in Players, PlayerEnds(s, p) PROVE IInv'
    <2>1. MediaTypeOK'
      <3>1. Tail(todo[s]) \in Seq(Players)
            BY <1>3, TailMembers DEF IInv, MediaTypeOK, PlayerEnds, Turn
      <3>2. todo' \in [Shards -> Seq(Players)]
            BY <1>3, <3>1 DEF IInv, MediaTypeOK, PlayerEnds
      <3>3. /\ stage' \in [Players -> {"new", "placed", "running", "gone"}]
            /\ done' \in [Players -> Nat]
            BY <1>3 DEF IInv, MediaTypeOK, PlayerEnds
      <3> QED BY <1>3, <3>2, <3>3 DEF IInv, MediaTypeOK, PlayerEnds, sessionVars
    <2> QED BY <1>3, <2>1, PlayerEndsLists, SameNumbers DEF PlayerEnds, IInv
  <1>4. ASSUME NEW p \in Players, PlayerDraws(s, p) PROVE IInv'
    <2>1. /\ Counted' /\ NumbersInOrder'
          /\ session' \in [Players -> Stamps] /\ drawn' \in [Players -> Nat]
          /\ held' \in [Players -> [Sources -> Drawn \union {Nothing}]]
          BY <1>4, DrawKeeps DEF PlayerDraws, Sources
    <2>2. idx' \in [Players -> Nat]
          BY <1>4, MediaAssumption DEF PlayerDraws, IInv, MediaTypeOK
    <2>3. MediaTypeOK'
          BY <1>4, <2>1, <2>2 DEF PlayerDraws, IInv, MediaTypeOK, reactorVars
    <2> QED BY <1>4, <2>1, <2>3, QuietLists DEF PlayerDraws, IInv, reactorVars
  <1>5. ASSUME NEW p \in Players, PlayerSends(s, p) PROVE IInv'
    <2>1. /\ Counted' /\ NumbersInOrder' /\ session' = session /\ drawn' = drawn
          /\ spent' \in [Players -> SUBSET Drawn]
          /\ held' \in [Players -> [Sources -> Drawn \union {Nothing}]]
          BY <1>5, TransmitKeeps DEF PlayerSends, Sources
    <2>2. Tail(todo[s]) \in Seq(Players) /\ Append(kept[s], p) \in Seq(Players)
          BY <1>5, TailMembers, AppendMembers DEF IInv, MediaTypeOK, PlayerSends, Turn
    <2>3. MediaTypeOK'
      <3>1. todo' \in [Shards -> Seq(Players)] /\ kept' \in [Shards -> Seq(Players)]
            BY <1>5, <2>2 DEF IInv, MediaTypeOK, PlayerSends
      <3> QED BY <1>5, <2>1, <3>1 DEF IInv, MediaTypeOK, PlayerSends
    <2> QED BY <1>5, <2>1, <2>3, PlayerSendsLists DEF IInv
  <1> QED BY <1>1, <1>2, <1>3, <1>4, <1>5 DEF Shard, Playing

\* Every step keeps the invariant.
LEMMA StepInv == IInv /\ [MediaNext]_mediaVars => IInv'
  <1> SUFFICES ASSUME IInv, [MediaNext]_mediaVars PROVE IInv'
      OBVIOUS
  <1> USE DEF reactorVars
  <1>1. CASE UNCHANGED mediaVars
    <2>1. MediaTypeOK'
          BY <1>1 DEF mediaVars, sessionVars, IInv, MediaTypeOK
    <2> QED BY <1>1, <2>1, QuietLists, SameNumbers DEF mediaVars, IInv
  <1>2. CASE Broadcast
    <2>1. MediaTypeOK'
          BY <1>2 DEF Broadcast, sessionVars, IInv, MediaTypeOK
    <2> QED BY <1>2, <2>1, QuietLists, SameNumbers DEF Broadcast, IInv
  <1>3. CASE OthersAdd
    <2>1. (next + 1) % NShards \in 0 .. NShards - 1
          BY MediaAssumption DEF IInv, MediaTypeOK
    <2>2. MediaTypeOK'
          BY <1>3, <2>1 DEF OthersAdd, sessionVars, IInv, MediaTypeOK
    <2> QED BY <1>3, <2>2, QuietLists, SameNumbers DEF OthersAdd, IInv
  <1> QED BY <1>1, <1>2, <1>3, CallInv, ShardInv DEF MediaNext

\* The invariant holds in every behaviour.
LEMMA Invariant == MediaSpec => []IInv
  BY InitInv, StepInv, PTL DEF MediaSpec

\* Every variable keeps its type.
THEOREM TypeCorrect == MediaSpec => []MediaTypeOK
  <1>1. IInv => MediaTypeOK
        BY DEF IInv
  <1> QED BY <1>1, Invariant, PTL

\* A stream that was added has its turn once in each tick until it ends, with
\* any number of streams and shards, and it ends once (shard.tick, shard.add).
THEOREM Carries == MediaSpec => []CarriedOnce
  <1>1. IInv => CarriedOnce
    <2> SUFFICES ASSUME IInv PROVE CarriedOnce
        OBVIOUS
    <2>1. ASSUME NEW p \in Players, stage[p] = "running", NEW s \in Shards
          PROVE  Cardinality(PlacesOf(p, s)) = IF s = home[p] THEN 1 ELSE 0
      <3>1. p \in Members(items[s]) <=> s = home[p]
            BY <2>1 DEF IInv, Lists, Carried
      <3>2. Distinct(items[s])
            BY DEF IInv, Lists
      <3> QED BY <3>1, <3>2, OnePlace DEF IInv
    <2> QED BY <2>1 DEF CarriedOnce, IInv, Carried
  <1> QED BY <1>1, Invariant, PTL

\* Audio and digits of a call share its numbers and times as a receiver expects,
\* however many frames and digits there are and however often numbers and times
\* wrap; and the player's packets leave in order, as do the keypad's (NextSeqTS).
THEOREM Numbers == MediaSpec => []NumbersInOrder
  <1>1. IInv => NumbersInOrder
        BY DEF IInv
  <1> QED BY <1>1, Invariant, PTL

-----------------------------------------------------------------------------
(* The packet index of SRTP (SrtpStream).                                  *)

\* The sender's context is the place of the last frame, and the session is
\* ahead of it by the digits sent since, and one: maybe across a wrap.
SenderClose ==
    \/ /\ upcoming.era = senderCtx.era
       /\ 0 <= upcoming.seq - senderCtx.seq /\ upcoming.seq - senderCtx.seq <= burst + 1
    \/ /\ upcoming.era = senderCtx.era + 1
       /\ 0 <= upcoming.seq + Wrap - senderCtx.seq /\ upcoming.seq + Wrap - senderCtx.seq <= burst + 1

\* The receiver's context is the place of the packet it has read last.
ReceiverFollows == ~strayed => receiverCtx = lastRead

SrtpInv == SrtpTypeOK /\ SenderClose /\ SenderExact /\ ReceiverFollows /\ IndexAgrees

-----------------------------------------------------------------------------
(* Lemmas about places.                                                    *)

\* The place after a place is a place.
LEMMA NextSeqType == ASSUME NEW p \in Places PROVE NextSeq(p) \in Places
  BY SrtpAssumption DEF NextSeq, Places

\* What estimateIndex computes is a place.
LEMMA EstimateType ==
    ASSUME NEW ctx \in Places, NEW seq \in 0 .. Wrap - 1
    PROVE  EstimateIndex(ctx, seq) \in Places
  BY SrtpAssumption DEF EstimateIndex, Places

\* estimateIndex finds the true place of a number that is near the last one.
LEMMA EstimateNear ==
    ASSUME NEW p \in Places, NEW q \in Places, Near(p, q)
    PROVE  EstimateIndex(p, q.seq) = q
  <1>1. /\ p.era \in Nat /\ p.seq \in 0 .. Wrap - 1
        /\ q.era \in Nat /\ q.seq \in 0 .. Wrap - 1
        /\ q = [era |-> q.era, seq |-> q.seq]
        BY DEF Places
  <1>2. CASE q.era = p.era /\ Distance(p, q) >= -Half
    <2>1. Distance(p, q) = q.seq - p.seq
          BY <1>1, <1>2, SrtpAssumption DEF Distance
    <2> QED BY <1>1, <1>2, <2>1, SrtpAssumption DEF EstimateIndex
  <1>3. CASE q.era = p.era + 1 /\ Distance(p, q) < Half
    <2>1. q.era - p.era = 1
          BY <1>1, <1>3
    <2>2. Distance(p, q) = Wrap + q.seq - p.seq
          BY <1>1, <2>1, SrtpAssumption DEF Distance
    <2> QED BY <1>1, <1>3, <2>2, SrtpAssumption DEF EstimateIndex
  <1> QED BY <1>2, <1>3 DEF Near

-----------------------------------------------------------------------------
(* The invariant.                                                          *)

\* The initial states satisfy the invariant.
LEMMA SrtpInitInv == SrtpInit => SrtpInv
  <1> SUFFICES ASSUME SrtpInit PROVE SrtpInv
      OBVIOUS
  <1>1. Start \in Places /\ Start.era = 0 /\ Start.seq = 0
        BY SrtpAssumption DEF Start, Places
  <1>2. SrtpTypeOK
    <2>1. 0 \in 0 .. Burst
          BY SrtpAssumption
    <2> QED BY <1>1, <2>1 DEF SrtpInit, SrtpTypeOK, Context
  <1>3. SenderClose
        BY <1>1, SrtpAssumption DEF SrtpInit, SenderClose
  <1> QED BY <1>2, <1>3 DEF SrtpInit, SrtpInv, SenderExact, ReceiverFollows, IndexAgrees

\* A frame is encrypted with the index of its place.
LEMMA FrameExact == ASSUME SrtpInv PROVE EstimateIndex(senderCtx, upcoming.seq) = upcoming
  <1>1. /\ senderCtx \in Places /\ upcoming \in Places /\ burst \in 0 .. Burst
        BY DEF SrtpInv, SrtpTypeOK, Context
  <1>2. /\ senderCtx.era \in Nat /\ senderCtx.seq \in 0 .. Wrap - 1
        /\ upcoming.era \in Nat /\ upcoming.seq \in 0 .. Wrap - 1
        /\ upcoming = [era |-> upcoming.era, seq |-> upcoming.seq]
        BY <1>1 DEF Places
  <1>3. CASE upcoming.era = senderCtx.era /\ 0 <= upcoming.seq - senderCtx.seq
        BY <1>2, <1>3, SrtpAssumption DEF EstimateIndex
  <1>4. CASE upcoming.era = senderCtx.era + 1 /\ upcoming.seq + Wrap - senderCtx.seq <= burst + 1
        BY <1>1, <1>2, <1>4, SrtpAssumption DEF EstimateIndex
  <1> QED BY <1>3, <1>4 DEF SrtpInv, SenderClose

\* A frame keeps the invariant: the sender's context follows the session.
LEMMA SendFrameInv == ASSUME SrtpInv, SendFrame PROVE SrtpInv'
  <1>1. senderCtx' = upcoming /\ upcoming \in Places /\ upcoming' = NextSeq(upcoming) /\ burst' = 0
        BY FrameExact DEF SendFrame, SrtpInv, SrtpTypeOK
  <1>2. SrtpTypeOK'
        BY <1>1, NextSeqType, SrtpAssumption DEF SendFrame, SrtpInv, SrtpTypeOK, Context
  <1>3. SenderClose'
        BY <1>1, SrtpAssumption DEF SenderClose, NextSeq, Places
  <1>4. SenderExact'
        BY <1>1 DEF SendFrame, SrtpInv, SenderExact
  <1>5. ReceiverFollows' /\ IndexAgrees'
        BY DEF SendFrame, SrtpInv, ReceiverFollows, IndexAgrees
  <1> QED BY <1>2, <1>3, <1>4, <1>5 DEF SrtpInv

\* So do digits, fewer than half the range between two frames.
LEMMA SendDTMFInv == ASSUME SrtpInv, SendDTMF PROVE SrtpInv'
  <1>1. /\ senderCtx \in Places /\ upcoming \in Places /\ upcoming' = NextSeq(upcoming)
        /\ burst \in 0 .. Burst /\ burst < Burst /\ burst' = burst + 1 /\ senderCtx' = senderCtx
        BY DEF SendDTMF, SrtpInv, SrtpTypeOK, Context
  <1>2. SrtpTypeOK'
        BY <1>1, NextSeqType, SrtpAssumption DEF SendDTMF, SrtpInv, SrtpTypeOK, Context
  <1>3. SenderClose'
    <2>1. /\ senderCtx.era \in Nat /\ senderCtx.seq \in 0 .. Wrap - 1
          /\ upcoming.era \in Nat /\ upcoming.seq \in 0 .. Wrap - 1
          BY <1>1 DEF Places
    <2>2. CASE upcoming.seq = Wrap - 1
      <3>1. upcoming'.era = upcoming.era + 1 /\ upcoming'.seq = 0
            BY <1>1, <2>2 DEF NextSeq
      <3> QED BY <1>1, <2>1, <2>2, <3>1, SrtpAssumption DEF SrtpInv, SenderClose
    <2>3. CASE upcoming.seq # Wrap - 1
      <3>1. upcoming'.era = upcoming.era /\ upcoming'.seq = upcoming.seq + 1
            BY <1>1, <2>3 DEF NextSeq, Places
      <3> QED BY <1>1, <2>1, <3>1, SrtpAssumption DEF SrtpInv, SenderClose
    <2> QED BY <2>2, <2>3
  <1>4. SenderExact' /\ ReceiverFollows' /\ IndexAgrees'
        BY DEF SendDTMF, SrtpInv, SenderExact, ReceiverFollows, IndexAgrees
  <1> QED BY <1>2, <1>3, <1>4 DEF SrtpInv

\* So does an intact packet that arrives, from near the one before or not.
LEMMA DecryptInv ==
    ASSUME SrtpInv, NEW p \in wire, Decrypt(p)
    PROVE  SrtpInv'
  <1>1. /\ p \in [place : Places, index : Places]
        /\ receiverCtx \in Places /\ lastRead \in Places
        /\ receiverCtx' = EstimateIndex(receiverCtx, p.place.seq) /\ lastRead' = p.place
        BY DEF Decrypt, SrtpInv, SrtpTypeOK, Context
  <1>2. SrtpTypeOK'
    <2>1. p.place \in Places /\ p.place.seq \in 0 .. Wrap - 1
          BY <1>1 DEF Places
    <2>2. receiverCtx' \in Places
          BY <1>1, <2>1, EstimateType
    <2> QED BY <1>1, <2>1, <2>2 DEF Decrypt, SrtpInv, SrtpTypeOK, Context
  <1>3. SenderClose' /\ SenderExact'
        BY DEF Decrypt, SrtpInv, SenderClose, SenderExact
  <1>4. ASSUME ~strayed' PROVE receiverCtx' = p.place /\ receiverCtx = lastRead /\ ~strayed
    <2>1. ~strayed /\ Near(lastRead, p.place)
          BY <1>4 DEF Decrypt
    <2>2. receiverCtx = lastRead
          BY <2>1 DEF SrtpInv, ReceiverFollows
    <2> QED BY <1>1, <2>1, <2>2, EstimateNear
  <1>5. ReceiverFollows'
        BY <1>1, <1>4 DEF ReceiverFollows
  <1>6. IndexAgrees'
    <2> SUFFICES ASSUME ~strayed' PROVE ~garbled'
        BY DEF IndexAgrees
    <2>1. p.index = p.place
          BY DEF SrtpInv, SenderExact
    <2>2. ~garbled
          BY <1>4 DEF SrtpInv, IndexAgrees
    <2> QED BY <1>4, <2>1, <2>2 DEF Decrypt
  <1> QED BY <1>2, <1>3, <1>5, <1>6 DEF SrtpInv

\* So does a damaged one: the context is where its number took it.
LEMMA DamagedInv ==
    ASSUME SrtpInv, NEW seq \in 0 .. Wrap - 1, DecryptDamaged(seq)
    PROVE  SrtpInv'
  <1>1. receiverCtx' \in Places /\ lastRead' = receiverCtx'
        BY EstimateType DEF DecryptDamaged, SrtpInv, SrtpTypeOK, Context
  <1>2. SrtpTypeOK'
        BY <1>1 DEF DecryptDamaged, SrtpInv, SrtpTypeOK, Context
  <1>3. SenderClose' /\ SenderExact' /\ ReceiverFollows' /\ IndexAgrees'
        BY <1>1 DEF DecryptDamaged, SrtpInv, SenderClose, SenderExact, ReceiverFollows, IndexAgrees
  <1> QED BY <1>2, <1>3 DEF SrtpInv

\* Every step keeps the invariant.
LEMMA SrtpStepInv == SrtpInv /\ [SrtpNext]_srtpVars => SrtpInv'
  <1> SUFFICES ASSUME SrtpInv, [SrtpNext]_srtpVars PROVE SrtpInv'
      OBVIOUS
  <1>1. CASE SendFrame
        BY <1>1, SendFrameInv
  <1>2. CASE SendDTMF
        BY <1>2, SendDTMFInv
  <1>3. ASSUME NEW p \in wire, Decrypt(p) PROVE SrtpInv'
        BY <1>3, DecryptInv
  <1>5. ASSUME NEW seq \in 0 .. Wrap - 1, DecryptDamaged(seq) PROVE SrtpInv'
        BY <1>5, DamagedInv
  <1>4. CASE UNCHANGED srtpVars
        BY <1>4 DEF srtpVars, SrtpInv, SrtpTypeOK, SenderClose, SenderExact, ReceiverFollows, IndexAgrees
  <1> QED BY <1>1, <1>2, <1>3, <1>4, <1>5 DEF SrtpNext

\* The invariant holds in every behaviour.
LEMMA SrtpInvariant == SrtpSpec => []SrtpInv
  BY SrtpInitInv, SrtpStepInv, PTL DEF SrtpSpec

-----------------------------------------------------------------------------
(* Theorems.                                                               *)

\* The contexts of both ends stay places of the stream (SRTPSession).
THEOREM SrtpTypeCorrect == SrtpSpec => []SrtpTypeOK
  <1>1. SrtpInv => SrtpTypeOK
        BY DEF SrtpInv
  <1> QED BY <1>1, SrtpInvariant, PTL

\* Every frame is encrypted with the index of its place, over any number of
\* wraps and with any number of digits in between that is less than half the
\* range (EncryptPacket, estimateIndex).
THEOREM Sender == SrtpSpec => []SenderExact
  <1>1. SrtpInv => SenderExact
        BY DEF SrtpInv
  <1> QED BY <1>1, SrtpInvariant, PTL

\* The receiver decrypts what has not strayed with the index it was encrypted
\* with, whatever is lost, repeated, damaged or overtaken (DecryptPacket).
THEOREM Receiver == SrtpSpec => []IndexAgrees
  <1>1. SrtpInv => IndexAgrees
        BY DEF SrtpInv
  <1> QED BY <1>1, SrtpInvariant, PTL
=============================================================================
