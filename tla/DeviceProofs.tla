---------------------------- MODULE DeviceProofs ----------------------------
(***************************************************************************)
(* Proofs about Device, for any number of clients, slots and requests:     *)
(* descriptors, slots and clients always match, and the pieces a client    *)
(* has sent, the server holds and the server has answered add up to what   *)
(* the client asked, in order, unless the client got the number of the     *)
(* broker's socket while that number was in the write set; a slot          *)
(* remembers when its client was heard.                                    *)
(***************************************************************************)
EXTENDS Device, FiniteSetTheorems, WellFoundedInduction, TLAPS

Piece == [by : Clients, no : Nat, runt : BOOLEAN]
Message == [fd : 0..Slots + 2, rx : Nat, got : Seq(Piece), reply : Seq(Piece)]
Peer == [at : {"away", "waiting", "in", "left", "dropped"}, out : Seq(Piece), half : BOOLEAN,
         sent : Nat, asked : Seq(Piece), back : Seq(Piece), heard : Nat,
         astray : BOOLEAN, heir : BOOLEAN]

\* What a turn hands from piece to piece.
Snapshot == [slot : [1..Slots -> Message], owner : [Fds -> Clients \cup {Nobody, Broker}],
             client : [Clients -> Peer], backlog : Seq(Clients),
             broker : [fd : 0..Slots + 2, lost : BOOLEAN]]

\* Slots, descriptors and clients belong to each other one to one.
Wired(s) ==
  /\ \A i \in 1..Slots : s.slot[i].fd # 0 => s.owner[s.slot[i].fd] \in Clients
  /\ \A i, j \in 1..Slots : s.slot[i].fd # 0 /\ s.slot[i].fd = s.slot[j].fd => i = j
  /\ \A fd \in Fds : s.owner[fd] \in Clients => \E i \in 1..Slots : s.slot[i].fd = fd
  /\ \A fd, g \in Fds : s.owner[fd] \in Clients /\ s.owner[fd] = s.owner[g] => fd = g
  /\ \A fd \in Fds : s.owner[fd] = Broker <=> s.broker.fd = fd

\* Who is in has a descriptor, who waits has none and waits once.
Standing(s) ==
  /\ \A fd \in Fds : s.owner[fd] \in Clients => s.client[s.owner[fd]].at \in {"in", "left"}
  /\ \A c \in Clients : s.client[c].at = "in" => \E fd \in Fds : s.owner[fd] = c
  /\ \A k \in DOMAIN s.backlog :
       /\ s.client[s.backlog[k]].at \in {"waiting", "left"}
       /\ \A fd \in Fds : s.owner[fd] # s.backlog[k]
  /\ \A j, k \in DOMAIN s.backlog : s.backlog[j] = s.backlog[k] => j = k

\* A piece that takes the count of request pieces from x to y: its request is
\* asked for after the b answered ones, or it is a runt between two requests.
Fits(piece, x, y, asked, b) ==
  IF piece.runt
  THEN y = x /\ \E k \in Nat : y = 2 * k
  ELSE /\ y = x + 1
       /\ \A k \in Nat : y \in {2 * k - 1, 2 * k} =>
            b + k <= Len(asked) /\ piece = asked[b + k]

\* The pieces on their way: f[j] of the first j belong to requests, and two, less
\* the one still owed, to each request that is not answered.
Framed(pieces, f, asked, b, owed) ==
  /\ f \in [0..Len(pieces) -> Nat] /\ f[0] = 0
  /\ \A j \in 1..Len(pieces) : Fits(pieces[j], f[j - 1], f[j], asked, b)
  /\ f[Len(pieces)] + owed = 2 * (Len(asked) - b)

Owed(c) == IF c.half THEN 1 ELSE 0

\* What a slot holds of client c goes with what c sent and got.
InStep(got, reply, c) ==
  /\ reply = IF Len(got) = 2 THEN <<got[1]>> ELSE <<>>
  /\ Len(got) <= 2
  /\ Len(got) = 2 => ~got[1].runt
  /\ Len(c.back) <= Len(c.asked)
  /\ \A k \in 1..Len(c.back) : c.back[k] = c.asked[k]
  /\ \A k \in 1..Len(c.asked) : ~c.asked[k].runt
  /\ \E f : Framed(got \o c.out, f, c.asked, Len(c.back), Owed(c))

\* The same, except for a client whose descriptor was in the write set when it
\* got it: of such a one only what it sends is known.
Ordered(got, reply, c) ==
  \/ c.heir /\ (c.half => c.asked # <<>>)
  \/ ~c.heir /\ ~c.astray /\ InStep(got, reply, c)

\* Client d stands with the server as c did.
Like(d, c) ==
  /\ d.out = c.out /\ d.half = c.half /\ d.asked = c.asked /\ d.back = c.back
  /\ d.astray = c.astray

Answering(s) ==
  /\ \A i \in 1..Slots :
       s.slot[i].fd # 0 =>
         Ordered(s.slot[i].got, s.slot[i].reply, s.client[s.owner[s.slot[i].fd]])
  /\ \A c \in Clients :
       (\A fd \in Fds : s.owner[fd] # c) =>
         ~s.client[c].heir /\ Ordered(<<>>, <<>>, s.client[c])

Sound(s) == s \in Snapshot /\ Wired(s) /\ Standing(s) /\ Answering(s)

-----------------------------------------------------------------------------
(***************************************************************************)
(* The choices the server and the kernel make.                             *)
(***************************************************************************)
LEMMA LeastNumber ==
  ASSUME NEW T \in SUBSET Nat, T # {}
  PROVE  \E m \in T : \A n \in T : m <= n
<1>1. IsWellFoundedOn(OpToRel(<, Nat), Nat)
  BY NatLessThanWellFounded
<1>2. PICK R : R = OpToRel(<, Nat)
  OBVIOUS
<1>3. R = {ss \in Nat \X Nat : ss[1] < ss[2]}
  BY <1>2 DEF OpToRel
<1>4. IsWellFoundedOn(R, Nat)
  BY <1>1, <1>2
<1>5. PICK m \in T : \A n \in T : ~(<<n, m>> \in R)
  BY <1>4, WFMin
<1>6. \A n \in T : ~(n < m)
  BY <1>3, <1>5
<1> QED BY <1>6

\* What Min of the community modules gives on numbers.
LEMMA MinIs ==
  ASSUME NEW T \in SUBSET Nat, T # {}
  PROVE  Min(T) \in T /\ \A n \in T : Min(T) <= n
BY LeastNumber DEF Min

\* There is a free descriptor: the slots and the broker's socket use one less
\* than there are.
LEMMA LowestFreeIs ==
  ASSUME NEW s \in Snapshot, Wired(s)
  PROVE  LowestFree(s) \in Fds /\ s.owner[LowestFree(s)] = Nobody
<1> DEFINE free == {fd \in Fds : s.owner[fd] = Nobody}
           place(fd) == IF s.owner[fd] = Broker THEN Slots + 1
                        ELSE CHOOSE i \in 1..Slots : s.slot[i].fd = fd
           f == [fd \in Fds |-> place(fd)]
<1>1. Slots \in Nat /\ Slots > 0 /\ {Nobody, Broker} \cap Clients = {} /\ Nobody # Broker
  BY DeviceAssumption DEF Nobody, Broker
<1>2. s.owner \in [Fds -> Clients \cup {Nobody, Broker}]
  BY DEF Snapshot
<1>3. free # {}
  <2> SUFFICES ASSUME free = {} PROVE FALSE
    OBVIOUS
  <2>1. ASSUME NEW fd \in Fds, s.owner[fd] # Broker
        PROVE  place(fd) \in 1..Slots /\ s.slot[place(fd)].fd = fd
    <3>1. s.owner[fd] \in Clients
      BY <1>2, <2>1
    <3>2. \E i \in 1..Slots : s.slot[i].fd = fd
      BY <3>1 DEF Wired
    <3> QED BY <2>1, <3>2
  <2>2. \A fd \in Fds : s.owner[fd] = Broker => s.broker.fd = fd /\ place(fd) = Slots + 1
    BY DEF Wired
  <2> HIDE DEF place
  <2>3. f \in [Fds -> 1..Slots + 1]
    <3>1. \A i \in 1..Slots : i \in 1..Slots + 1
      BY <1>1
    <3>2. Slots + 1 \in 1..Slots + 1
      BY <1>1
    <3>3. \A fd \in Fds : place(fd) \in 1..Slots + 1
      BY <2>1, <2>2, <3>1, <3>2
    <3> QED BY <3>3
  <2>4. ASSUME NEW x \in Fds, NEW y \in Fds, f[x] = f[y] PROVE x = y
    BY <2>1, <2>2, <2>4, <1>1
  <2>5. f \in Injection(Fds, 1..Slots + 1)
    BY <2>3, <2>4 DEF Injection, IsInjective
  <2>6. /\ IsFiniteSet(1..Slots + 1) /\ Cardinality(1..Slots + 1) = Slots + 1
        /\ Cardinality(Fds) = Slots + 2
    <3>1. PICK m \in Int, n \in Int : m = Slots + 1 /\ n = Slots + 2
      BY <1>1
    <3>2. /\ IsFiniteSet(1..m) /\ Cardinality(1..m) = IF 1 > m THEN 0 ELSE m - 1 + 1
          /\ Cardinality(1..n) = IF 1 > n THEN 0 ELSE n - 1 + 1
      BY FS_Interval
    <3>3. Cardinality(1..m) = m /\ Cardinality(1..n) = n
      BY <3>1, <3>2, <1>1
    <3> QED BY <3>1, <3>2, <3>3 DEF Fds
  <2>7. Cardinality(Fds) <= Cardinality(1..Slots + 1)
    BY <2>5, <2>6, FS_Injection
  <2> QED BY <2>6, <2>7, <1>1
<1>4. free \in SUBSET Nat
  BY <1>1 DEF Fds
<1> HIDE DEF free
<1>5. Min(free) \in free
  BY <1>3, <1>4, MinIs
<1>6. LowestFree(s) = Min(free)
  BY DEF LowestFree, free
<1> QED BY <1>5, <1>6 DEF free

\* A newcomer gets a free slot if there is one, and else one that was silent
\* no shorter than the others.
LEMMA VictimIs ==
  ASSUME NEW s \in Snapshot
  PROVE  /\ Victim(s) \in 1..Slots
         /\ s.slot[Victim(s)].fd # 0 =>
              \A j \in 1..Slots : s.slot[j].fd # 0 /\ s.slot[Victim(s)].rx <= s.slot[j].rx
<1> DEFINE free == {i \in 1..Slots : s.slot[i].fd = 0}
           oldest == {i \in 1..Slots : \A j \in 1..Slots : s.slot[i].rx <= s.slot[j].rx}
           ages == {s.slot[i].rx : i \in 1..Slots}
           choice == IF free # {} THEN free ELSE oldest
<1>1. Slots \in Nat /\ 1 \in 1..Slots
  BY DeviceAssumption
<1>2. \A i \in 1..Slots : s.slot[i].rx \in Nat
  BY DEF Snapshot, Message
<1>3. ages \in SUBSET Nat /\ ages # {}
  BY <1>1, <1>2
<1>4. PICK m \in ages : \A n \in ages : m <= n
  BY <1>3, LeastNumber
<1>5. oldest # {}
  BY <1>4
<1>6. choice \in SUBSET Nat /\ choice # {}
  BY <1>1, <1>5
<1>7. Victim(s) = Min(choice)
  BY DEF Victim
<1> HIDE DEF choice
<1>8. Victim(s) \in choice
  BY <1>6, <1>7, MinIs
<1> QED BY <1>8 DEF choice

-----------------------------------------------------------------------------
(***************************************************************************)
(* Pieces and answers of one client.                                       *)
(***************************************************************************)
LEMMA Joined ==
  ASSUME NEW S, NEW p \in Seq(S), NEW q \in Seq(S)
  PROVE  /\ p \o q \in Seq(S) /\ Len(p \o q) = Len(p) + Len(q) /\ <<>> \o q = q
         /\ \A i \in 1..Len(p) : (p \o q)[i] = p[i]
         /\ \A i \in 1..Len(q) : (p \o q)[Len(p) + i] = q[i]
OBVIOUS

\* The same, with the lengths named.
LEMMA JoinedAt ==
  ASSUME NEW S, NEW p \in Seq(S), NEW q \in Seq(S), NEW m, m = Len(p), NEW n, n = Len(q)
  PROVE  /\ Len(p \o q) = m + n
         /\ \A i \in 1..m : (p \o q)[i] = p[i]
         /\ \A i \in 1..n : (p \o q)[m + i] = q[i]
BY Joined

\* The pieces behind a slot that holds one.
LEMMA JoinedOne ==
  ASSUME NEW S, NEW p \in Seq(S), NEW q \in Seq(S), 1 = Len(p), NEW n, n = Len(q)
  PROVE  /\ Len(p \o q) = 1 + n /\ (p \o q)[1] = p[1]
         /\ \A i \in 1..n : (p \o q)[1 + i] = q[i]
<1>1. PICK m : m = Len(p)
  OBVIOUS
<1>2. m = 1 /\ 1 \in 1..1
  BY <1>1
<1>3. /\ Len(p \o q) = m + n
      /\ \A i \in 1..m : (p \o q)[i] = p[i]
      /\ \A i \in 1..n : (p \o q)[m + i] = q[i]
  BY <1>1, JoinedAt
<1> QED BY <1>2, <1>3

\* The pieces behind a slot that holds two.
LEMMA JoinedTwo ==
  ASSUME NEW S, NEW p \in Seq(S), NEW q \in Seq(S), 2 = Len(p), NEW n, n = Len(q)
  PROVE  /\ Len(p \o q) = 2 + n /\ (p \o q)[1] = p[1] /\ (p \o q)[2] = p[2]
         /\ \A i \in 1..n : (p \o q)[2 + i] = q[i]
<1>1. PICK m : m = Len(p)
  OBVIOUS
<1>2. m = 2 /\ 1 \in 1..2 /\ 2 \in 1..2
  BY <1>1
<1>3. /\ Len(p \o q) = m + n
      /\ \A i \in 1..m : (p \o q)[i] = p[i]
      /\ \A i \in 1..n : (p \o q)[m + i] = q[i]
  BY <1>1, JoinedAt
<1> QED BY <1>2, <1>3

\* Reading a piece changes nothing in the row of pieces.
LEMMA HeadMoved ==
  ASSUME NEW S, NEW p \in Seq(S), NEW q \in Seq(S), q # <<>>
  PROVE  /\ p \o q = Append(p, Head(q)) \o Tail(q)
         /\ Append(p, Head(q)) \in Seq(S) /\ Len(Append(p, Head(q))) = Len(p) + 1
         /\ \A i \in 1..Len(p) : Append(p, Head(q))[i] = p[i]
OBVIOUS

\* InStep looks at four parts of a client only.
LEMMA InStepAlike ==
  ASSUME NEW got, NEW reply, NEW c, NEW d, InStep(got, reply, c), Like(d, c)
  PROVE  InStep(got, reply, d)
BY DEF InStep, Owed, Like

\* What is left to show once a slot is empty.
LEMMA InStepEmpty ==
  ASSUME NEW d, Len(d.back) <= Len(d.asked), \A k \in 1..Len(d.back) : d.back[k] = d.asked[k],
         \A k \in 1..Len(d.asked) : ~d.asked[k].runt,
         \E f : Framed(<<>> \o d.out, f, d.asked, Len(d.back), Owed(d))
  PROVE  InStep(<<>>, <<>>, d)
BY DEF InStep

\* A client that asked nothing yet.
LEMMA InStepFresh ==
  ASSUME NEW c, c.out = <<>>, ~c.half, c.asked = <<>>, c.back = <<>>
  PROVE  InStep(<<>>, <<>>, c)
<1>1. Framed(<<>>, [j \in 0..0 |-> 0], <<>>, 0, 0)
  BY DEF Framed
<1> QED BY <1>1 DEF InStep, Owed

\* A piece read moves from the wire into the slot.
LEMMA InStepRead ==
  ASSUME NEW got \in Seq(Piece), NEW reply, NEW c \in Peer, NEW d,
         InStep(got, reply, c), ~Whole(got), c.out # <<>>,
         d.out = Tail(c.out), d.half = c.half, d.asked = c.asked, d.back = c.back,
         NEW more, more = Append(got, Head(c.out))
  PROVE  InStep(more, IF Len(more) = 2 THEN <<more[1]>> ELSE reply, d)
<1>1. c.out \in Seq(Piece)
  BY DEF Peer
<1>2. /\ got \o c.out = more \o Tail(c.out) /\ Len(more) = Len(got) + 1
      /\ \A i \in 1..Len(got) : more[i] = got[i]
  BY <1>1, HeadMoved
<1>3. \E f : Framed(more \o d.out, f, d.asked, Len(d.back), Owed(d))
  BY <1>2 DEF InStep, Owed
<1>4. PICK m \in {0, 1} : m = Len(got)
  <2>1. PICK m \in Nat : m = Len(got)
    OBVIOUS
  <2>2. m <= 2 /\ m # 2
    BY <2>1 DEF InStep, Whole
  <2>3. m \in {0, 1}
    BY <2>2
  <2> QED BY <2>1, <2>3
<1>5. CASE m = 0
  <2>1. Len(more) = 1 /\ reply = <<>>
    BY <1>2, <1>4, <1>5 DEF InStep
  <2> QED BY <2>1, <1>3 DEF InStep
<1>6. CASE m = 1
  <2>1. Len(more) = 2 /\ more[1] = got[1] /\ ~got[1].runt
    BY <1>2, <1>4, <1>6 DEF Whole
  <2> QED BY <2>1, <1>3 DEF InStep
<1> QED BY <1>4, <1>5, <1>6

\* A piece behind an answered request fits as before.
LEMMA FitsBehind ==
  ASSUME NEW piece, NEW x \in Nat, NEW y \in Nat, NEW asked, NEW b \in Nat,
         Len(asked) \in Nat, x >= 2, y >= 2, Fits(piece, x, y, asked, b)
  PROVE  Fits(piece, x - 2, y - 2, asked, b + 1)
<1>1. CASE piece.runt
  <2>1. PICK k \in Nat : y = 2 * k /\ y = x
    BY <1>1 DEF Fits
  <2>2. k - 1 \in Nat /\ y - 2 = 2 * (k - 1)
    BY <2>1
  <2> QED BY <1>1, <2>1, <2>2 DEF Fits
<1>2. CASE ~piece.runt
  <2>1. /\ y = x + 1
        /\ \A k \in Nat : y \in {2 * k - 1, 2 * k} =>
             b + k <= Len(asked) /\ piece = asked[b + k]
    BY <1>2 DEF Fits
  <2>2. ASSUME NEW k \in Nat, y - 2 \in {2 * k - 1, 2 * k}
        PROVE  b + 1 + k <= Len(asked) /\ piece = asked[b + 1 + k]
    <3>1. k + 1 \in Nat /\ y \in {2 * (k + 1) - 1, 2 * (k + 1)} /\ b + (k + 1) = b + 1 + k
      BY <2>2
    <3>2. b + (k + 1) <= Len(asked) /\ piece = asked[b + (k + 1)]
      BY <3>1, <2>1
    <3> QED BY <3>1, <3>2
  <2>3. y - 2 = (x - 2) + 1
    BY <2>1
  <2> QED BY <1>2, <2>2, <2>3 DEF Fits
<1> QED BY <1>1, <1>2

\* A runt that was read goes.
LEMMA RuntGone ==
  ASSUME NEW got \in Seq(Piece), NEW out \in Seq(Piece), NEW asked \in Seq(Piece),
         NEW b \in Nat, NEW owed, NEW f, Framed(got \o out, f, asked, b, owed),
         1 = Len(got), got[1].runt
  PROVE  \E g : Framed(out, g, asked, b, owed)
<1> DEFINE pieces == got \o out
<1>1. PICK n \in Nat : n = Len(out)
  OBVIOUS
<1>2. Len(pieces) = 1 + n /\ pieces[1] = got[1] /\ \A j \in 1..n : pieces[1 + j] = out[j]
  BY <1>1, JoinedOne
<1> HIDE DEF pieces
<1>3. /\ f \in [0..1 + n -> Nat] /\ f[0] = 0
      /\ \A j \in 1..1 + n : Fits(pieces[j], f[j - 1], f[j], asked, b)
      /\ f[1 + n] + owed = 2 * (Len(asked) - b)
  <2>1. Framed(pieces, f, asked, b, owed)
    BY DEF pieces
  <2> QED BY <2>1, <1>2 DEF Framed
<1>4. f[1] = 0
  <2>1. 1 \in 1..1 + n /\ 1 - 1 = 0
    OBVIOUS
  <2>2. Fits(got[1], 0, f[1], asked, b)
    BY <2>1, <1>2, <1>3
  <2> QED BY <2>2 DEF Fits
<1> DEFINE g == [j \in 0..n |-> f[1 + j]]
<1>5. g \in [0..n -> Nat] /\ g[0] = 0 /\ g[n] = f[1 + n]
  <2>1. 0 \in 0..n /\ n \in 0..n /\ \A j \in 0..n : 1 + j \in 0..1 + n
    OBVIOUS
  <2> QED BY <2>1, <1>3, <1>4
<1>6. ASSUME NEW j \in 1..n PROVE Fits(out[j], g[j - 1], g[j], asked, b)
  <2>1. /\ 1 + j \in 1..1 + n /\ (1 + j) - 1 = j /\ j \in 0..n /\ j - 1 \in 0..n
        /\ 1 + (j - 1) = j
    OBVIOUS
  <2>2. g[j] = f[1 + j] /\ g[j - 1] = f[j]
    BY <2>1
  <2>3. Fits(pieces[1 + j], f[(1 + j) - 1], f[1 + j], asked, b)
    BY <2>1, <1>3
  <2> QED BY <2>1, <2>2, <2>3, <1>2
<1> HIDE DEF g
<1>7. Framed(out, g, asked, b, owed)
  BY <1>1, <1>3, <1>5, <1>6 DEF Framed
<1> QED BY <1>7

\* A request that was read goes: it is the first that is not answered.
LEMMA RequestGone ==
  ASSUME NEW got \in Seq(Piece), NEW out \in Seq(Piece), NEW asked \in Seq(Piece),
         NEW b \in Nat, NEW owed \in Nat, NEW f, Framed(got \o out, f, asked, b, owed),
         2 = Len(got), ~got[1].runt
  PROVE  /\ b + 1 <= Len(asked) /\ got[1] = asked[b + 1]
         /\ \E g : Framed(out, g, asked, b + 1, owed)
<1> DEFINE pieces == got \o out
<1>1. PICK n \in Nat : n = Len(out)
  OBVIOUS
<1>2. /\ Len(pieces) = 2 + n /\ pieces[1] = got[1] /\ pieces[2] = got[2]
      /\ \A j \in 1..n : pieces[2 + j] = out[j]
  BY ONLY <1>1, got \in Seq(Piece), out \in Seq(Piece), 2 = Len(got), JoinedTwo, SMTT(20)
<1> HIDE DEF pieces
<1>3. /\ f \in [0..2 + n -> Nat] /\ f[0] = 0
      /\ \A j \in 1..2 + n : Fits(pieces[j], f[j - 1], f[j], asked, b)
      /\ f[2 + n] + owed = 2 * (Len(asked) - b)
  <2>1. Framed(pieces, f, asked, b, owed)
    BY DEF pieces
  <2> QED BY <2>1, <1>2 DEF Framed
<1>4. f[1] = 1 /\ b + 1 <= Len(asked) /\ got[1] = asked[b + 1]
  <2>1. 1 \in 1..2 + n /\ 1 - 1 = 0
    OBVIOUS
  <2>2. Fits(got[1], 0, f[1], asked, b)
    BY <2>1, <1>2, <1>3
  <2>3. 1 \in Nat /\ f[1] = 1 /\ 1 \in {2 * 1 - 1, 2 * 1}
    BY <2>2 DEF Fits
  <2> QED BY <2>2, <2>3 DEF Fits
<1>5. f[2] = 2
  <2>1. 2 \in 1..2 + n /\ 2 - 1 = 1 /\ \A k \in Nat : 1 # 2 * k
    OBVIOUS
  <2>2. Fits(got[2], 1, f[2], asked, b)
    BY <2>1, <1>2, <1>3, <1>4
  <2> QED BY <2>1, <2>2 DEF Fits
<1>6. \A j \in 2..2 + n : f[j] >= 2
  <2> DEFINE low == {j \in 2..2 + n : ~(f[j] >= 2)}
  <2> SUFFICES ASSUME low # {} PROVE FALSE
    OBVIOUS
  <2>1. low \in SUBSET Nat
    OBVIOUS
  <2>2. PICK m \in low : \A j \in low : m <= j
    BY <2>1, LeastNumber
  <2>3. m # 2 /\ m \in 2..2 + n /\ ~(f[m] >= 2)
    BY <2>2, <1>5
  <2>4. m - 1 \in 2..2 + n /\ ~(m <= m - 1) /\ m \in 1..2 + n /\ m \in 0..2 + n /\ m - 1 \in 0..2 + n
    BY <2>3
  <2>5. f[m - 1] >= 2 /\ f[m - 1] \in Nat /\ f[m] \in Nat
    BY <2>2, <2>4, <1>3
  <2>6. Fits(pieces[m], f[m - 1], f[m], asked, b)
    BY <2>4, <1>3
  <2>7. f[m] = f[m - 1] \/ f[m] = f[m - 1] + 1
    BY <2>6 DEF Fits
  <2> QED BY <2>3, <2>5, <2>7
<1> DEFINE g == [j \in 0..n |-> f[2 + j] - 2]
<1>7. g \in [0..n -> Nat] /\ g[0] = 0 /\ g[n] = f[2 + n] - 2
  <2>1. 0 \in 0..n /\ n \in 0..n /\ \A j \in 0..n : 2 + j \in 0..2 + n /\ 2 + j \in 2..2 + n
    OBVIOUS
  <2>2. \A j \in 0..n : f[2 + j] - 2 \in Nat
    <3>1. \A j \in 0..n : 2 + j \in 0..2 + n /\ 2 + j \in 2..2 + n
      BY <2>1
    <3>2. f \in [0..2 + n -> Nat]
      BY <1>3
    <3> QED BY ONLY <3>1, <3>2, <1>6
  <2> QED BY <2>1, <2>2, <1>5
<1>8. ASSUME NEW j \in 1..n PROVE Fits(out[j], g[j - 1], g[j], asked, b + 1)
  <2>1. /\ 2 + j \in 1..2 + n /\ (2 + j) - 1 = 1 + j /\ j \in 0..n /\ j - 1 \in 0..n
        /\ 2 + (j - 1) = 1 + j /\ 2 + j \in 2..2 + n /\ 1 + j \in 2..2 + n
        /\ 2 + j \in 0..2 + n /\ 1 + j \in 0..2 + n
    OBVIOUS
  <2>2. PICK x \in Nat, y \in Nat : x = f[1 + j] /\ y = f[2 + j] /\ x >= 2 /\ y >= 2
    BY <2>1, <1>3, <1>6
  <2>3. g[j] = y - 2 /\ g[j - 1] = x - 2
    BY <2>1, <2>2
  <2>4. Fits(out[j], x, y, asked, b)
    BY <2>1, <2>2, <1>2, <1>3
  <2>5. Len(asked) \in Nat
    OBVIOUS
  <2>6. Fits(out[j], x - 2, y - 2, asked, b + 1)
    BY <2>2, <2>4, <2>5, FitsBehind
  <2> QED BY <2>3, <2>6
<1>9. g[n] + owed = 2 * (Len(asked) - (b + 1))
  <2>1. PICK a \in Nat : a = Len(asked)
    OBVIOUS
  <2>2. PICK x \in Nat : x = f[2 + n]
    <3>1. 2 + n \in 0..2 + n
      OBVIOUS
    <3> QED BY <3>1, <1>3
  <2>3. x + owed = 2 * (a - b) /\ g[n] = x - 2
    BY <2>1, <2>2, <1>3, <1>7
  <2>4. x - 2 + owed = 2 * (a - (b + 1))
    BY <2>3
  <2> QED BY <2>1, <2>3, <2>4
<1> HIDE DEF g
<1>10. Framed(out, g, asked, b + 1, owed)
  BY <1>1, <1>7, <1>8, <1>9 DEF Framed
<1> QED BY <1>4, <1>10

\* What was read is whole: the answer, if there is one, is the next due.
LEMMA InStepWritten ==
  ASSUME NEW got \in Seq(Piece), NEW reply, NEW c \in Peer, NEW d,
         InStep(got, reply, c), Whole(got),
         d.out = c.out, d.half = c.half, d.asked = c.asked, d.back = c.back \o reply
  PROVE  InStep(<<>>, <<>>, d)
<1>1. c.out \in Seq(Piece) /\ c.asked \in Seq(Piece) /\ c.back \in Seq(Piece)
  BY DEF Peer
<1>2. PICK b \in Nat, a \in Nat, owed \in Nat :
        b = Len(c.back) /\ a = Len(c.asked) /\ owed = Owed(c)
  <2>1. Owed(c) \in Nat
    BY DEF Owed
  <2> QED BY <1>1, <2>1
<1>3. PICK f : Framed(got \o c.out, f, c.asked, b, owed)
  BY <1>2 DEF InStep
<1>4. b <= a /\ \A k \in 1..b : c.back[k] = c.asked[k]
  BY <1>2 DEF InStep
<1>5. <<>> \o d.out = c.out /\ Owed(d) = owed /\ d.asked = c.asked
  BY <1>1, <1>2 DEF Owed
<1>6. CASE Len(got) = 1 /\ got[1].runt
  <2>1. d.back = c.back
    BY <1>1, <1>6 DEF InStep
  <2>2. \E g : Framed(c.out, g, c.asked, b, owed)
    BY <1>1, <1>3, <1>6, RuntGone
  <2>3. \E g : Framed(<<>> \o d.out, g, d.asked, Len(d.back), Owed(d))
    BY <2>1, <2>2, <1>2, <1>5
  <2>4. /\ \A k \in 1..Len(d.asked) : ~d.asked[k].runt
        /\ Len(d.back) <= Len(d.asked)
        /\ \A k \in 1..Len(d.back) : d.back[k] = d.asked[k]
    BY <2>1, <1>2, <1>4, <1>5 DEF InStep
  <2> QED BY <2>3, <2>4, InStepEmpty
<1>7. CASE Len(got) = 2
  <2>1. reply = <<got[1]>> /\ ~got[1].runt
    BY <1>7 DEF InStep
  <2>2. /\ b + 1 <= a /\ got[1] = c.asked[b + 1]
        /\ \E g : Framed(c.out, g, c.asked, b + 1, owed)
    <3>1. 2 = Len(got) /\ ~got[1].runt /\ got \in Seq(Piece) /\ c.out \in Seq(Piece)
          /\ c.asked \in Seq(Piece)
      BY <2>1, <1>1, <1>7
    <3>2. /\ b + 1 <= Len(c.asked) /\ got[1] = c.asked[b + 1]
          /\ \E g : Framed(c.out, g, c.asked, b + 1, owed)
      BY ONLY <3>1, <1>3, b \in Nat, owed \in Nat, RequestGone
    <3> QED BY <3>2, <1>2
  <2>3. /\ Len(d.back) = b + 1 /\ d.back[b + 1] = got[1]
        /\ \A k \in 1..b : d.back[k] = c.back[k]
    <3>1. d.back = Append(c.back, got[1])
      BY <2>1, <1>1
    <3> QED BY <3>1, <1>1, <1>2
  <2>4. \A k \in 1..b + 1 : d.back[k] = d.asked[k]
    <3>1. \A k \in 1..b + 1 : k = b + 1 \/ k \in 1..b
      OBVIOUS
    <3> QED BY <3>1, <2>2, <2>3, <1>4, <1>5
  <2>5. Len(d.back) <= Len(d.asked)
    BY <2>2, <2>3, <1>2, <1>5
  <2>6. \E g : Framed(<<>> \o d.out, g, d.asked, Len(d.back), Owed(d))
    BY <2>2, <2>3, <1>5
  <2>7. \A k \in 1..Len(d.back) : d.back[k] = d.asked[k]
    BY <2>3, <2>4
  <2>8. \A k \in 1..Len(d.asked) : ~d.asked[k].runt
    BY <1>5 DEF InStep
  <2> QED BY <2>5, <2>6, <2>7, <2>8, InStepEmpty
<1>8. Len(got) = 2 \/ (Len(got) = 1 /\ got[1].runt)
  <2>1. PICK m \in Nat : m = Len(got)
    OBVIOUS
  <2>2. m <= 2 /\ m # 0
    BY <2>1 DEF InStep, Whole
  <2>3. m \in {1, 2}
    BY <2>2
  <2> QED BY <2>1, <2>3 DEF Whole
<1> QED BY <1>6, <1>7, <1>8

\* A piece sent joins the end.
LEMMA FramedLonger ==
  ASSUME NEW pieces \in Seq(Piece), NEW piece \in Piece, NEW asked \in Seq(Piece),
         NEW more \in Seq(Piece), Len(asked) <= Len(more),
         \A i \in 1..Len(asked) : more[i] = asked[i],
         NEW b \in Nat, NEW owed, NEW owing, NEW f, Framed(pieces, f, asked, b, owed),
         NEW y \in Nat, Fits(piece, f[Len(pieces)], y, more, b), y + owing = 2 * (Len(more) - b)
  PROVE  \E g : Framed(Append(pieces, piece), g, more, b, owing)
<1> DEFINE longer == Append(pieces, piece)
<1>1. PICK n \in Nat : n = Len(pieces)
  OBVIOUS
<1>2. /\ Len(longer) = n + 1 /\ longer[n + 1] = piece
      /\ \A j \in 1..n : longer[j] = pieces[j]
  BY <1>1
<1> HIDE DEF longer
<1>3. PICK a \in Nat, m \in Nat : a = Len(asked) /\ m = Len(more) /\ a <= m
  BY SMTT(20)
<1>4. /\ f \in [0..n -> Nat] /\ f[0] = 0
      /\ \A j \in 1..n : Fits(pieces[j], f[j - 1], f[j], asked, b)
  BY <1>1 DEF Framed
<1> DEFINE g == [j \in 0..n + 1 |-> IF j = n + 1 THEN y ELSE f[j]]
<1>5. /\ g \in [0..n + 1 -> Nat] /\ g[0] = 0 /\ g[n + 1] = y
      /\ \A j \in 0..n : g[j] = f[j]
  <2>1. /\ \A j \in 0..n + 1 : j = n + 1 \/ j \in 0..n
        /\ \A j \in 0..n : j \in 0..n + 1 /\ j # n + 1
        /\ 0 \in 0..n /\ n + 1 \in 0..n + 1
    OBVIOUS
  <2> QED BY <2>1, <1>4
<1> HIDE DEF g
<1>6. ASSUME NEW j \in 1..n PROVE Fits(longer[j], g[j - 1], g[j], more, b)
  <2>1. j \in 0..n /\ j - 1 \in 0..n
    OBVIOUS
  <2>2. PICK x \in Nat, z \in Nat : x = f[j - 1] /\ z = f[j]
    BY <2>1, <1>4
  <2>3. Fits(longer[j], x, z, asked, b)
    BY <2>2, <1>2, <1>4
  <2>4. ASSUME NEW k \in Nat, z \in {2 * k - 1, 2 * k}, z = x + 1,
               b + k <= a, longer[j] = asked[b + k]
        PROVE  b + k <= m /\ longer[j] = more[b + k]
    <3>1. b + k \in 1..a
      <4>1. k > 0
        BY ONLY <2>4, k \in Nat, x \in Nat
      <4> QED BY ONLY <4>1, b + k <= a, k \in Nat, b \in Nat, a \in Nat
    <3> QED BY <3>1, <2>4, <1>3
  <2>5. Fits(longer[j], x, z, more, b)
    BY <2>3, <2>4, <1>3 DEF Fits
  <2> QED BY <2>1, <2>2, <2>5, <1>5
<1>7. Fits(longer[n + 1], g[(n + 1) - 1], g[n + 1], more, b)
  <2>1. (n + 1) - 1 = n /\ n \in 0..n
    OBVIOUS
  <2> QED BY <2>1, <1>1, <1>2, <1>5
<1>8. \A j \in 1..n + 1 : Fits(longer[j], g[j - 1], g[j], more, b)
  <2>1. \A j \in 1..n + 1 : j = n + 1 \/ j \in 1..n
    OBVIOUS
  <2> QED BY <2>1, <1>6, <1>7
<1>9. Framed(longer, g, more, b, owing)
  BY <1>2, <1>5, <1>8 DEF Framed
<1> QED BY <1>9 DEF longer

\* A piece more on its way.
LEMMA InStepLonger ==
  ASSUME NEW got \in Seq(Piece), NEW reply, NEW c \in Peer, NEW d, NEW piece \in Piece,
         InStep(got, reply, c), d.out = Append(c.out, piece), d.back = c.back,
         d.asked \in Seq(Piece), Len(c.asked) <= Len(d.asked),
         \A i \in 1..Len(d.asked) : ~d.asked[i].runt,
         \A i \in 1..Len(c.asked) : d.asked[i] = c.asked[i],
         NEW x \in Nat, x + Owed(c) = 2 * (Len(c.asked) - Len(c.back)),
         NEW y \in Nat, Fits(piece, x, y, d.asked, Len(c.back)),
         y + Owed(d) = 2 * (Len(d.asked) - Len(c.back))
  PROVE  InStep(got, reply, d)
<1>1. c.out \in Seq(Piece) /\ c.asked \in Seq(Piece) /\ c.back \in Seq(Piece)
  BY DEF Peer
<1>2. got \o d.out = Append(got \o c.out, piece) /\ got \o c.out \in Seq(Piece)
  BY <1>1, SMTT(20)
<1>3. PICK b \in Nat, a \in Nat, m \in Nat :
        b = Len(c.back) /\ a = Len(c.asked) /\ m = Len(d.asked) /\ a <= m
  BY <1>1
<1>4. PICK f : Framed(got \o c.out, f, c.asked, b, Owed(c))
  BY <1>3 DEF InStep
<1>5. f[Len(got \o c.out)] = x
  <2>1. PICK w \in Nat : w = Owed(c)
    BY DEF Owed
  <2>2. PICK pieces \in Seq(Piece) : pieces = got \o c.out
    BY <1>2
  <2>3. Framed(pieces, f, c.asked, b, w)
    BY <2>1, <2>2, <1>4
  <2>4. PICK z \in Nat : z = f[Len(pieces)] /\ z + w = 2 * (a - b)
    <3>1. PICK n \in Nat : n = Len(pieces)
      OBVIOUS
    <3>2. f[n] \in Nat /\ f[n] + w = 2 * (Len(c.asked) - b)
      BY ONLY <3>1, <2>3 DEF Framed
    <3> QED BY <3>1, <3>2, <1>3
  <2>5. x + w = 2 * (a - b)
    BY <2>1, <1>3
  <2>6. z = x
    BY <2>4, <2>5
  <2> QED BY <2>2, <2>4, <2>6
<1>6. \E g : Framed(Append(got \o c.out, piece), g, d.asked, b, Owed(d))
  BY <1>1, <1>2, <1>3, <1>4, <1>5, FramedLonger
<1>7. b <= m /\ \A k \in 1..b : d.back[k] = d.asked[k]
  <2>1. b <= a /\ \A k \in 1..b : c.back[k] = c.asked[k]
    BY <1>3 DEF InStep
  <2>2. \A k \in 1..b : k \in 1..a
    BY <2>1
  <2> QED BY <2>1, <2>2, <1>3
<1>8. \E g : Framed(got \o d.out, g, d.asked, Len(d.back), Owed(d))
  BY <1>2, <1>3, <1>6
<1> QED BY <1>3, <1>7, <1>8 DEF InStep

\* The head of a request goes out.
LEMMA InStepAsked ==
  ASSUME NEW got \in Seq(Piece), NEW reply, NEW c \in Peer, NEW d, NEW piece \in Piece,
         InStep(got, reply, c), ~piece.runt, ~c.half,
         d.out = Append(c.out, piece), d.back = c.back, d.asked = Append(c.asked, piece), d.half
  PROVE  InStep(got, reply, d)
<1>1. c.asked \in Seq(Piece) /\ c.back \in Seq(Piece)
  BY DEF Peer
<1>2. PICK b \in Nat, a \in Nat : b = Len(c.back) /\ a = Len(c.asked)
  BY <1>1
<1>3. b <= a
  BY <1>2 DEF InStep
<1>4. /\ d.asked \in Seq(Piece) /\ Len(d.asked) = a + 1 /\ d.asked[a + 1] = piece
      /\ \A i \in 1..a : d.asked[i] = c.asked[i]
  BY <1>1, <1>2
<1>5. Owed(c) = 0 /\ Owed(d) = 1
  BY DEF Owed
<1>6. PICK x \in Nat, y \in Nat : x = 2 * (a - b) /\ y = x + 1 /\ y + 1 = 2 * (a + 1 - b)
  <2>1. 2 * (a - b) \in Nat /\ 2 * (a - b) + 1 \in Nat
    BY <1>3
  <2> QED BY <2>1
<1>7. Fits(piece, x, y, d.asked, b)
  <2>1. ASSUME NEW k \in Nat, y \in {2 * k - 1, 2 * k} PROVE b + k = a + 1
    BY <2>1, <1>3, <1>6
  <2>2. a + 1 <= Len(d.asked)
    BY <1>4
  <2> QED BY <2>1, <2>2, <1>4, <1>6 DEF Fits
<1>8. Len(c.asked) <= Len(d.asked)
  BY <1>2, <1>4
<1>9. /\ x + Owed(c) = 2 * (Len(c.asked) - Len(c.back))
      /\ y + Owed(d) = 2 * (Len(d.asked) - Len(c.back))
  <2>1. x + 0 = 2 * (a - b) /\ y + 1 = 2 * ((a + 1) - b)
    BY <1>6
  <2> QED BY <2>1, <1>2, <1>4, <1>5
<1>10. \A i \in 1..Len(d.asked) : ~d.asked[i].runt
  <2>1. \A i \in 1..a : ~c.asked[i].runt
    BY <1>2 DEF InStep
  <2>2. \A i \in 1..a + 1 : i = a + 1 \/ i \in 1..a
    OBVIOUS
  <2> QED BY <2>1, <2>2, <1>4
<1> QED BY <1>2, <1>4, <1>7, <1>8, <1>9, <1>10, InStepLonger

\* A runt goes out.
LEMMA InStepGarbled ==
  ASSUME NEW got \in Seq(Piece), NEW reply, NEW c \in Peer, NEW d, NEW piece \in Piece,
         InStep(got, reply, c), piece.runt, ~c.half,
         d.out = Append(c.out, piece), d.back = c.back, d.asked = c.asked, ~d.half
  PROVE  InStep(got, reply, d)
<1>1. c.asked \in Seq(Piece) /\ c.back \in Seq(Piece)
  BY DEF Peer
<1>2. PICK b \in Nat, a \in Nat : b = Len(c.back) /\ a = Len(c.asked)
  BY <1>1
<1>3. b <= a
  BY <1>2 DEF InStep
<1>4. Owed(c) = 0 /\ Owed(d) = 0
  BY DEF Owed
<1>5. PICK k \in Nat : k = a - b
  BY <1>3
<1>6. PICK x \in Nat : x = 2 * k
  OBVIOUS
<1>7. Fits(piece, x, x, d.asked, b)
  BY <1>6 DEF Fits
<1>8. x + Owed(c) = 2 * (Len(c.asked) - Len(c.back)) /\ Len(c.asked) <= Len(d.asked)
  BY <1>2, <1>4, <1>5, <1>6
<1>9. x + Owed(d) = 2 * (Len(d.asked) - Len(c.back))
  BY <1>4, <1>8
<1>10. \A i \in 1..Len(d.asked) : ~d.asked[i].runt
  BY DEF InStep
<1> QED BY <1>1, <1>2, <1>7, <1>8, <1>9, <1>10, InStepLonger

\* Half a request sent is a request asked, and not answered.
LEMMA InStepHalf ==
  ASSUME NEW got \in Seq(Piece), NEW reply, NEW c \in Peer, InStep(got, reply, c), c.half,
         NEW a \in Nat, a = Len(c.asked), NEW b \in Nat, b = Len(c.back)
  PROVE  (\E x \in Nat : x + 1 = 2 * (a - b)) /\ c.asked # <<>>
<1>1. c.asked \in Seq(Piece) /\ c.back \in Seq(Piece)
  BY DEF Peer
<1>2. b <= a
  BY DEF InStep
<1>3. Owed(c) = 1
  BY DEF Owed
<1>4. PICK x \in Nat : x + 1 = 2 * (a - b)
  <2>1. PICK w \in Nat : w = Owed(c) /\ w = 1
    BY <1>3
  <2>2. PICK f : Framed(got \o c.out, f, c.asked, b, w)
    BY <2>1 DEF InStep
  <2>3. PICK out \in Seq(Piece) : out = c.out
    BY DEF Peer
  <2>4. PICK pieces \in Seq(Piece) : pieces = got \o out
    <3>1. got \o out \in Seq(Piece)
      BY Joined
    <3> QED BY <3>1
  <2>5. Framed(pieces, f, c.asked, b, w)
    BY <2>2, <2>3, <2>4
  <2>6. PICK n \in Nat : n = Len(pieces)
    OBVIOUS
  <2>7. f[n] \in Nat /\ f[n] + w = 2 * (Len(c.asked) - b)
    BY ONLY <2>5, <2>6, SMTT(20) DEF Framed
  <2> QED BY <2>1, <2>7
<1>5. a # 0
  BY ONLY <1>2, <1>4, a \in Nat, b \in Nat
<1>6. c.asked # <<>>
  <2>1. Len(<<>>) = 0
    OBVIOUS
  <2> QED BY ONLY <2>1, <1>5, a = Len(c.asked)
<1> QED BY <1>4, <1>6

\* The rest of a request goes out.
LEMMA InStepFinished ==
  ASSUME NEW got \in Seq(Piece), NEW reply, NEW c \in Peer, NEW d,
         InStep(got, reply, c), c.half,
         d.out = Append(c.out, Last(c.asked)), d.back = c.back, d.asked = c.asked, ~d.half
  PROVE  InStep(got, reply, d) /\ Last(c.asked) \in Piece
<1>1. c.asked \in Seq(Piece) /\ c.back \in Seq(Piece)
  BY DEF Peer
<1>2. PICK b \in Nat, a \in Nat : b = Len(c.back) /\ a = Len(c.asked)
  BY <1>1
<1>3. b <= a
  BY <1>2 DEF InStep
<1>4. Owed(c) = 1 /\ Owed(d) = 0
  BY DEF Owed
<1>5. PICK x \in Nat : x + 1 = 2 * (a - b)
  BY <1>2, InStepHalf
<1>6. 1 <= a - b /\ a \in 1..a
  BY <1>3, <1>5
<1>7. Last(c.asked) = c.asked[a] /\ c.asked[a] \in Piece /\ ~c.asked[a].runt
  <2>1. \A i \in 1..a : ~c.asked[i].runt
    BY <1>2 DEF InStep
  <2>2. PICK q \in Seq(Piece) : q = c.asked /\ a = Len(q)
    BY <1>1, <1>2
  <2>3. Last(q) = q[a] /\ q[a] \in Piece
    BY <2>2, <1>6 DEF Last
  <2> QED BY <2>1, <2>2, <2>3, <1>6
<1>8. Fits(c.asked[a], x, x + 1, c.asked, b)
  <2>1. ASSUME NEW k \in Nat, x + 1 \in {2 * k - 1, 2 * k} PROVE b + k = a
    BY <2>1, <1>5, <1>6
  <2>2. ASSUME NEW k \in Nat, x + 1 \in {2 * k - 1, 2 * k}
        PROVE  b + k <= Len(c.asked) /\ c.asked[a] = c.asked[b + k]
    <3>1. b + k = a /\ a <= a
      BY <2>1, <2>2
    <3> QED BY <3>1, <1>2
  <2> QED BY <2>2, <1>7 DEF Fits
<1>9. x + 1 \in Nat /\ Len(c.asked) <= Len(d.asked)
  BY <1>2
<1>10. /\ x + Owed(c) = 2 * (Len(c.asked) - Len(c.back))
       /\ x + 1 + Owed(d) = 2 * (Len(d.asked) - Len(c.back))
  <2>1. x + 1 = 2 * (a - b) /\ (x + 1) + 0 = 2 * (a - b)
    BY <1>5
  <2> QED BY <2>1, <1>2, <1>4
<1>11. \A i \in 1..Len(d.asked) : ~d.asked[i].runt
  BY DEF InStep
<1> QED BY <1>1, <1>2, <1>7, <1>8, <1>9, <1>10, <1>11, InStepLonger

-----------------------------------------------------------------------------
(***************************************************************************)
(* The same with the clients that got a descriptor of the write set.       *)
(***************************************************************************)
LEMMA OrderedAlike ==
  ASSUME NEW got, NEW reply, NEW c, NEW d, Ordered(got, reply, c), Like(d, c), d.heir = c.heir
  PROVE  Ordered(got, reply, d)
<1>1. CASE c.heir
  BY <1>1 DEF Ordered, Like
<1>2. CASE ~c.heir
  BY <1>2, InStepAlike DEF Ordered, Like
<1> QED BY <1>1, <1>2

\* A client that asked nothing yet.
LEMMA OrderedFresh ==
  ASSUME NEW c, c.out = <<>>, ~c.half, c.asked = <<>>, c.back = <<>>, ~c.heir, ~c.astray
  PROVE  Ordered(<<>>, <<>>, c)
BY InStepFresh DEF Ordered

\* A client accepted, by whatever descriptor.
LEMMA OrderedTaken ==
  ASSUME NEW c \in Peer, NEW d, ~c.heir, Ordered(<<>>, <<>>, c), Like(d, c)
  PROVE  Ordered(<<>>, <<>>, d)
<1>1. ~c.astray /\ InStep(<<>>, <<>>, c)
  BY DEF Ordered
<1>2. CASE d.heir
  <2>1. c.half => c.asked # <<>>
    <3> SUFFICES ASSUME c.half PROVE c.asked # <<>>
      OBVIOUS
    <3>1. PICK a \in Nat, b \in Nat : a = Len(c.asked) /\ b = Len(c.back)
      BY DEF Peer
    <3>2. <<>> \in Seq(Piece)
      OBVIOUS
    <3> QED BY <3>1, <3>2, <1>1, InStepHalf
  <2> QED BY <1>2, <2>1 DEF Ordered, Like
<1>3. CASE ~d.heir
  BY <1>1, <1>3, InStepAlike DEF Ordered, Like
<1> QED BY <1>2, <1>3

\* A piece read.
LEMMA OrderedRead ==
  ASSUME NEW got \in Seq(Piece), NEW reply, NEW c \in Peer, NEW d,
         Ordered(got, reply, c), ~Whole(got), c.out # <<>>,
         d.out = Tail(c.out), d.half = c.half, d.asked = c.asked, d.back = c.back,
         d.heir = c.heir, d.astray = c.astray,
         NEW more, more \in Gained(c, got, Head(c.out))
  PROVE  Ordered(more, IF Len(more) = 2 THEN <<more[1]>> ELSE reply, d)
<1>1. CASE c.heir
  BY <1>1 DEF Ordered
<1>2. CASE ~c.heir
  <2>1. ~c.astray /\ InStep(got, reply, c)
    BY <1>2 DEF Ordered
  <2>2. more = Append(got, Head(c.out))
    BY <2>1 DEF Gained
  <2>3. InStep(more, IF Len(more) = 2 THEN <<more[1]>> ELSE reply, d)
    BY <2>1, <2>2, InStepRead
  <2> QED BY <1>2, <2>1, <2>3 DEF Ordered
<1> QED BY <1>1, <1>2

\* A slot may be written: what it holds is whole or nothing, or it is an heir's.
Ripe(got, c) == Whole(got) \/ c.heir \/ got = <<>>

LEMMA OrderedWritten ==
  ASSUME NEW got \in Seq(Piece), NEW reply, NEW c \in Peer, NEW d,
         Ordered(got, reply, c), Ripe(got, c),
         d.out = c.out, d.half = c.half, d.asked = c.asked, d.back = c.back \o reply,
         d.heir = c.heir, d.astray = (c.astray \/ (got # <<>> /\ ~Whole(got)))
  PROVE  Ordered(<<>>, <<>>, d)
<1>1. CASE c.heir
  BY <1>1 DEF Ordered
<1>2. CASE ~c.heir
  <2>1. ~c.astray /\ InStep(got, reply, c)
    BY <1>2 DEF Ordered
  <2>2. ~d.heir /\ ~d.astray
    BY <1>2, <2>1 DEF Ripe
  <2>3. CASE Whole(got)
    BY <2>1, <2>2, <2>3, InStepWritten DEF Ordered
  <2>4. CASE got = <<>>
    <3>1. reply = <<>>
      BY <2>1, <2>4 DEF InStep
    <3>2. c.back \o <<>> = c.back
      <4>1. PICK back \in Seq(Piece) : back = c.back
        BY DEF Peer
      <4>2. back \o <<>> = back
        OBVIOUS
      <4> QED BY <4>1, <4>2
    <3>3. Like(d, c)
      BY <2>1, <2>2, <3>1, <3>2 DEF Like, Peer
    <3>4. InStep(<<>>, <<>>, c)
      BY <2>1, <2>4, <3>1
    <3>5. InStep(<<>>, <<>>, d)
      BY <3>3, <3>4, InStepAlike
    <3> QED BY <2>2, <3>5 DEF Ordered
  <2> QED BY <1>2, <2>3, <2>4 DEF Ripe
<1> QED BY <1>1, <1>2

\* The head of a request goes out, or a runt.
LEMMA OrderedSent ==
  ASSUME NEW got \in Seq(Piece), NEW reply, NEW c \in Peer, NEW d, NEW piece \in Piece,
         Ordered(got, reply, c), ~c.half,
         d.out = Append(c.out, piece), d.back = c.back, d.half = ~piece.runt,
         d.asked = IF piece.runt THEN c.asked ELSE Append(c.asked, piece),
         d.heir = c.heir, d.astray = c.astray
  PROVE  Ordered(got, reply, d)
<1>1. CASE c.heir
  <2>1. PICK asked \in Seq(Piece) : asked = c.asked
    BY DEF Peer
  <2>2. Append(asked, piece) # <<>>
    OBVIOUS
  <2> QED BY <1>1, <2>1, <2>2 DEF Ordered
<1>2. CASE ~c.heir
  <2>1. ~c.astray /\ InStep(got, reply, c)
    BY <1>2 DEF Ordered
  <2>2. InStep(got, reply, d)
    <3>1. CASE piece.runt
      BY <2>1, <3>1, InStepGarbled
    <3>2. CASE ~piece.runt
      BY <2>1, <3>2, InStepAsked
    <3> QED BY <3>1, <3>2
  <2> QED BY <1>2, <2>1, <2>2 DEF Ordered
<1> QED BY <1>1, <1>2

\* The rest of a request goes out.
LEMMA OrderedFinished ==
  ASSUME NEW got \in Seq(Piece), NEW reply, NEW c \in Peer, NEW d,
         Ordered(got, reply, c), c.half,
         d.out = Append(c.out, Last(c.asked)), d.back = c.back, d.asked = c.asked, ~d.half,
         d.heir = c.heir, d.astray = c.astray
  PROVE  Ordered(got, reply, d) /\ Last(c.asked) \in Piece
<1>1. CASE c.heir
  <2>1. PICK asked \in Seq(Piece) : asked = c.asked /\ asked # <<>>
    BY <1>1 DEF Peer, Ordered
  <2>2. PICK n \in Nat : n = Len(asked)
    OBVIOUS
  <2>3. n \in 1..n
    BY <2>1, <2>2
  <2>4. Last(asked) \in Piece
    BY <2>2, <2>3 DEF Last
  <2> QED BY <1>1, <2>1, <2>4 DEF Ordered
<1>2. CASE ~c.heir
  <2>1. ~c.astray /\ InStep(got, reply, c)
    BY <1>2 DEF Ordered
  <2>2. InStep(got, reply, d) /\ Last(c.asked) \in Piece
    BY <2>1, InStepFinished
  <2> QED BY <1>2, <2>1, <2>2 DEF Ordered
<1> QED BY <1>1, <1>2

-----------------------------------------------------------------------------
(***************************************************************************)
(* What the pieces of a turn do to the state.                              *)
(***************************************************************************)
LEMMA Numbers ==
  /\ Slots \in Nat /\ Slots > 0 /\ {Nobody, Broker} \cap Clients = {} /\ Nobody # Broker
  /\ ~(0 \in Fds) /\ 0 \in 0..Slots + 2 /\ \A fd \in Fds : fd # 0 /\ fd \in 0..Slots + 2
  /\ \A fd \in 0..Slots + 2 : fd # 0 => fd \in Fds
BY DeviceAssumption DEF Nobody, Broker, Fds

\* A client before it connects.
LEMMA AwayIs ==
  ASSUME NEW at \in {"away", "waiting", "in", "left", "dropped"}
  PROVE  LET a == [Away EXCEPT !.at = at]
         IN  /\ a \in Peer /\ a.at = at /\ a.out = <<>> /\ ~a.half /\ a.asked = <<>>
             /\ a.back = <<>> /\ ~a.heir /\ ~a.astray
<1>1. <<>> \in Seq(Piece) /\ 0 \in Nat
  OBVIOUS
<1>2. PICK a : a = [Away EXCEPT !.at = at]
  OBVIOUS
<1>3. a = [at |-> at, out |-> <<>>, half |-> FALSE, sent |-> 0,
           asked |-> <<>>, back |-> <<>>, heard |-> 0, astray |-> FALSE, heir |-> FALSE]
  BY <1>2 DEF Away
<1>4. a \in Peer
  BY <1>1, <1>3 DEF Peer
<1> QED BY <1>2, <1>3, <1>4

\* A state put together from its parts.
LEMMA SnapshotIs ==
  ASSUME NEW slots \in [1..Slots -> Message],
         NEW owners \in [Fds -> Clients \cup {Nobody, Broker}],
         NEW clients \in [Clients -> Peer], NEW queue \in Seq(Clients),
         NEW link \in [fd : 0..Slots + 2, lost : BOOLEAN],
         NEW t, t = [slot |-> slots, owner |-> owners, client |-> clients, backlog |-> queue,
                     broker |-> link]
  PROVE  t \in Snapshot
BY DEF Snapshot

\* Hung, part by part.
LEMMA HungIs ==
  ASSUME NEW s \in Snapshot, NEW i \in 1..Slots, s.slot[i].fd # 0,
         s.owner[s.slot[i].fd] \in Clients
  PROVE  \E at \in {"dropped", "left"} :
           LET t == Hung(s, i)
               fd == s.slot[i].fd
           IN  /\ t \in Snapshot /\ t.backlog = s.backlog /\ t.broker = s.broker
               /\ t.slot = [s.slot EXCEPT ![i] = [@ EXCEPT !.fd = 0]]
               /\ t.owner = [s.owner EXCEPT ![fd] = Nobody]
               /\ t.client = [s.client EXCEPT ![s.owner[fd]] = [Away EXCEPT !.at = at]]
<1>1. PICK slots, owners, clients, queue, link :
        /\ slots \in [1..Slots -> Message]
        /\ owners \in [Fds -> Clients \cup {Nobody, Broker}]
        /\ clients \in [Clients -> Peer]
        /\ queue \in Seq(Clients)
        /\ link \in [fd : 0..Slots + 2, lost : BOOLEAN]
        /\ s = [slot |-> slots, owner |-> owners, client |-> clients, backlog |-> queue,
                broker |-> link]
  BY DEF Snapshot
<1>2. PICK fd \in Fds, c \in Clients : fd = slots[i].fd /\ c = owners[fd]
  BY <1>1, Numbers DEF Message
<1>3. PICK at \in {"dropped", "left"} : at = IF clients[c].at = "in" THEN "dropped" ELSE "left"
  OBVIOUS
<1>4. PICK a \in Peer : a = [Away EXCEPT !.at = at]
  BY AwayIs
<1>5. PICK m \in Message : m = [slots[i] EXCEPT !.fd = 0]
  <2>1. PICK m : m = [slots[i] EXCEPT !.fd = 0]
    OBVIOUS
  <2>2. slots[i] \in Message /\ 0 \in 0..Slots + 2
    BY <1>1, Numbers
  <2>3. m \in Message
    BY ONLY <2>1, <2>2 DEF Message
  <2> QED BY ONLY <2>1, <2>3
<1>6. Hung(s, i) = [slot |-> [slots EXCEPT ![i] = m], owner |-> [owners EXCEPT ![fd] = Nobody],
                    client |-> [clients EXCEPT ![c] = a], backlog |-> queue, broker |-> link]
  <2>1. PICK t : t = Closed(s, fd)
    OBVIOUS
  <2>2. t = [slot |-> slots, owner |-> [owners EXCEPT ![fd] = Nobody],
             client |-> [clients EXCEPT ![c] = a], backlog |-> queue, broker |-> link]
    BY <2>1, <1>1, <1>2, <1>3, <1>4 DEF Closed
  <2>3. Hung(s, i) = [t EXCEPT !.slot[i].fd = 0]
    BY <2>1, <1>1, <1>2 DEF Hung
  <2> QED BY <2>2, <2>3, <1>5
<1>7. [slots EXCEPT ![i] = m] \in [1..Slots -> Message]
  BY <1>1
<1>8. [owners EXCEPT ![fd] = Nobody] \in [Fds -> Clients \cup {Nobody, Broker}]
  BY <1>1
<1>9. [clients EXCEPT ![c] = a] \in [Clients -> Peer]
  BY <1>1
<1>10. Hung(s, i) \in Snapshot
  BY <1>1, <1>6, <1>7, <1>8, <1>9, SnapshotIs
<1>11. PICK t : t = Hung(s, i)
  OBVIOUS
<1>12. /\ t.slot = [slots EXCEPT ![i] = m] /\ t.owner = [owners EXCEPT ![fd] = Nobody]
       /\ t.client = [clients EXCEPT ![c] = a] /\ t.backlog = queue /\ t.broker = link
  BY <1>6, <1>11
<1>13. /\ s.slot = slots /\ s.owner = owners /\ s.client = clients /\ s.backlog = queue
       /\ s.broker = link
  BY <1>1
<1>14. /\ [s.slot EXCEPT ![i] = [@ EXCEPT !.fd = 0]] = [slots EXCEPT ![i] = m]
       /\ [s.owner EXCEPT ![s.slot[i].fd] = Nobody] = [owners EXCEPT ![fd] = Nobody]
       /\ [s.client EXCEPT ![s.owner[s.slot[i].fd]] = [Away EXCEPT !.at = at]] =
             [clients EXCEPT ![c] = a]
  BY <1>2, <1>4, <1>5, <1>13
<1> QED BY <1>10, <1>11, <1>12, <1>13, <1>14

\* Taken, part by part.
LEMMA TakenIs ==
  ASSUME NEW s \in Snapshot, NEW i \in 1..Slots, NEW fd \in Fds, s.backlog # <<>>, now \in Nat,
         NEW writes
  PROVE  \E t, c :
           /\ t = Taken(s, i, fd, Free, writes) /\ c = Head(s.backlog) /\ c \in Clients
           /\ t \in Snapshot /\ t.backlog = Tail(s.backlog) /\ t.broker = s.broker
           /\ t.slot[i].fd = fd /\ t.slot[i].got = <<>> /\ t.slot[i].reply = <<>>
           /\ t.slot[i].rx = now
           /\ \A j \in 1..Slots : j # i => t.slot[j] = s.slot[j]
           /\ t.owner[fd] = c /\ \A g \in Fds : g # fd => t.owner[g] = s.owner[g]
           /\ Like(t.client[c], s.client[c])
           /\ t.client[c].heir = (fd \in writes /\ s.client[c].out # <<>>)
           /\ t.client[c].at = IF s.client[c].at = "waiting" THEN "in" ELSE s.client[c].at
           /\ \A d \in Clients : d # c => t.client[d] = s.client[d]
<1>1. PICK slots, owners, clients, queue, link :
        /\ slots \in [1..Slots -> Message]
        /\ owners \in [Fds -> Clients \cup {Nobody, Broker}]
        /\ clients \in [Clients -> Peer]
        /\ queue \in Seq(Clients)
        /\ link \in [fd : 0..Slots + 2, lost : BOOLEAN]
        /\ s = [slot |-> slots, owner |-> owners, client |-> clients, backlog |-> queue,
                broker |-> link]
  BY DEF Snapshot
<1>2. PICK c \in Clients : c = Head(queue)
  BY <1>1
<1>3. Tail(queue) \in Seq(Clients)
  BY <1>1
<1>a. PICK heir \in BOOLEAN : heir = (fd \in writes /\ clients[c].out # <<>>)
  OBVIOUS
<1>4. PICK p \in Peer : p = Seated(clients[c], heir)
  <2>1. PICK q \in Peer : q = clients[c]
    BY <1>1
  <2>2. Seated(q, heir) \in Peer
    BY DEF Peer, Seated
  <2> QED BY <2>1, <2>2
<1>5. PICK m \in Message : m = [fd |-> fd, rx |-> now, got |-> <<>>, reply |-> <<>>]
  <2>1. <<>> \in Seq(Piece)
    OBVIOUS
  <2> QED BY <2>1, Numbers DEF Message
<1>6. Taken(s, i, fd, Free, writes) =
        [slot |-> [slots EXCEPT ![i] = m], owner |-> [owners EXCEPT ![fd] = c],
         client |-> [clients EXCEPT ![c] = p], backlog |-> Tail(queue), broker |-> link]
  <2>1. PICK e : e = [Free EXCEPT !.fd = fd, !.rx = now]
    OBVIOUS
  <2>2. e = [fd |-> fd, rx |-> now, got |-> <<>>, reply |-> <<>>]
    BY <2>1 DEF Free
  <2>3. e = m
    BY <2>2, <1>5
  <2>4. Taken(s, i, fd, Free, writes) =
          [s EXCEPT !.backlog = Tail(@), !.owner[fd] = c, !.slot[i] = m, !.client[c] = p]
    BY <2>1, <2>3, <1>1, <1>2, <1>a, <1>4 DEF Taken
  <2> QED BY <2>4, <1>1
<1>7. [slots EXCEPT ![i] = m] \in [1..Slots -> Message]
  BY <1>1
<1>8. [owners EXCEPT ![fd] = c] \in [Fds -> Clients \cup {Nobody, Broker}]
  BY <1>1
<1>9. [clients EXCEPT ![c] = p] \in [Clients -> Peer]
  BY <1>1
<1>10. Taken(s, i, fd, Free, writes) \in Snapshot
  BY <1>1, <1>3, <1>6, <1>7, <1>8, <1>9, SnapshotIs
<1>11. PICK t : t = Taken(s, i, fd, Free, writes)
  OBVIOUS
<1>12. /\ t.slot = [slots EXCEPT ![i] = m] /\ t.owner = [owners EXCEPT ![fd] = c]
       /\ t.client = [clients EXCEPT ![c] = p] /\ t.backlog = Tail(queue) /\ t.broker = link
  BY <1>6, <1>11
<1>13. /\ s.slot = slots /\ s.owner = owners /\ s.client = clients /\ s.backlog = queue
       /\ s.broker = link
  BY <1>1
<1>14. /\ Like(p, clients[c]) /\ p.heir = heir
       /\ p.at = IF clients[c].at = "waiting" THEN "in" ELSE clients[c].at
  <2>1. PICK q \in Peer : q = clients[c]
    BY <1>1
  <2>2. p = Seated(q, heir)
    BY <2>1, <1>4
  <2>3. Like(p, q) /\ p.heir = heir /\ p.at = IF q.at = "waiting" THEN "in" ELSE q.at
    BY <2>2 DEF Like, Peer, Seated
  <2> QED BY <2>1, <2>3
<1>15. /\ t.slot[i] = m /\ \A j \in 1..Slots : j # i => t.slot[j] = s.slot[j]
       /\ t.owner[fd] = c /\ \A g \in Fds : g # fd => t.owner[g] = s.owner[g]
       /\ t.client[c] = p /\ \A d \in Clients : d # c => t.client[d] = s.client[d]
  BY <1>1, <1>12, <1>13
<1>16. m.fd = fd /\ m.got = <<>> /\ m.reply = <<>> /\ m.rx = now
  BY <1>5
<1>17. /\ c = Head(s.backlog) /\ t.backlog = Tail(s.backlog) /\ t.broker = s.broker
       /\ t \in Snapshot
  BY <1>2, <1>10, <1>11, <1>12, <1>13
<1>18. t.slot[i].fd = fd /\ t.slot[i].got = <<>> /\ t.slot[i].reply = <<>> /\ t.slot[i].rx = now
  BY <1>15, <1>16
<1>19. /\ Like(t.client[c], s.client[c])
       /\ t.client[c].heir = (fd \in writes /\ s.client[c].out # <<>>)
       /\ t.client[c].at = IF s.client[c].at = "waiting" THEN "in" ELSE s.client[c].at
  BY <1>13, <1>14, <1>15, <1>a
<1>20. c \in Clients
  OBVIOUS
<1> QED BY ONLY <1>11, <1>15, <1>17, <1>18, <1>19, <1>20

\* t is s with the connection of slot i closed, which c had by descriptor fd.
HungFrom(s, t, i, fd, c) ==
  /\ t \in Snapshot /\ t.backlog = s.backlog /\ t.broker = s.broker
  /\ t.slot[i].fd = 0 /\ \A j \in 1..Slots : j # i => t.slot[j] = s.slot[j]
  /\ t.owner[fd] = Nobody /\ \A g \in Fds : g # fd => t.owner[g] = s.owner[g]
  /\ t.client[c].at \in {"dropped", "left"} /\ t.client[c].out = <<>>
  /\ ~t.client[c].half /\ t.client[c].asked = <<>> /\ t.client[c].back = <<>>
  /\ ~t.client[c].heir /\ ~t.client[c].astray
  /\ \A d \in Clients : d # c => t.client[d] = s.client[d]

\* Hung, and what it leaves alone.
LEMMA HungAt ==
  ASSUME NEW s \in Snapshot, NEW i \in 1..Slots, NEW fd \in Fds, fd = s.slot[i].fd,
         NEW c \in Clients, c = s.owner[fd]
  PROVE  HungFrom(s, Hung(s, i), i, fd, c)
<1> DEFINE t == Hung(s, i)
<1>a. PICK at \in {"dropped", "left"} :
        /\ t \in Snapshot /\ t.backlog = s.backlog /\ t.broker = s.broker
        /\ t.slot = [s.slot EXCEPT ![i] = [@ EXCEPT !.fd = 0]]
        /\ t.owner = [s.owner EXCEPT ![fd] = Nobody]
        /\ t.client = [s.client EXCEPT ![c] = [Away EXCEPT !.at = at]]
  BY Numbers, HungIs
<1> HIDE DEF t
<1>b. PICK a : a = [Away EXCEPT !.at = at]
  OBVIOUS
<1>1. /\ t.slot = [s.slot EXCEPT ![i] = [@ EXCEPT !.fd = 0]]
      /\ t.owner = [s.owner EXCEPT ![fd] = Nobody]
      /\ t.client = [s.client EXCEPT ![c] = a]
      /\ a.at = at /\ a.out = <<>> /\ ~a.half /\ a.asked = <<>> /\ a.back = <<>>
      /\ ~a.heir /\ ~a.astray
  BY <1>a, <1>b, AwayIs
<1>2. /\ t.slot[i].fd = 0 /\ \A j \in 1..Slots : j # i => t.slot[j] = s.slot[j]
      /\ t.owner[fd] = Nobody /\ \A g \in Fds : g # fd => t.owner[g] = s.owner[g]
      /\ t.client[c] = a /\ \A d \in Clients : d # c => t.client[d] = s.client[d]
  <2>1. /\ s.slot \in [1..Slots -> Message]
        /\ s.owner \in [Fds -> Clients \cup {Nobody, Broker}]
        /\ s.client \in [Clients -> Peer]
    BY DEF Snapshot
  <2>2. s.slot[i] \in Message
    BY <2>1
  <2>3. [s.slot[i] EXCEPT !.fd = 0].fd = 0
    BY <2>2 DEF Message
  <2> QED BY <2>1, <2>3, <1>1
<1>3. /\ t.client[c].at \in {"dropped", "left"} /\ t.client[c].out = <<>>
      /\ ~t.client[c].half /\ t.client[c].asked = <<>> /\ t.client[c].back = <<>>
      /\ ~t.client[c].heir /\ ~t.client[c].astray
  BY <1>1, <1>2
<1>4. HungFrom(s, t, i, fd, c)
  BY ONLY <1>a, <1>2, <1>3 DEF HungFrom
<1> QED BY ONLY <1>4 DEF t

\* The server closes a connection: the client loses what it asked and got.
LEMMA HungSound ==
  ASSUME NEW s, Sound(s), NEW i \in 1..Slots, s.slot[i].fd # 0
  PROVE  Sound(Hung(s, i))
<1>1. s \in Snapshot /\ Wired(s) /\ Standing(s) /\ Answering(s)
  BY DEF Sound
<1>2. PICK fd, c : fd = s.slot[i].fd /\ c = s.owner[fd]
  OBVIOUS
<1>3. fd \in Fds /\ c \in Clients
  BY <1>1, <1>2, Numbers DEF Wired, Snapshot, Message
<1> DEFINE t == Hung(s, i)
<1>4. /\ t \in Snapshot /\ t.backlog = s.backlog /\ t.broker = s.broker
      /\ t.slot[i].fd = 0 /\ \A j \in 1..Slots : j # i => t.slot[j] = s.slot[j]
      /\ t.owner[fd] = Nobody /\ \A g \in Fds : g # fd => t.owner[g] = s.owner[g]
      /\ t.client[c].at \in {"dropped", "left"} /\ t.client[c].out = <<>>
      /\ ~t.client[c].half /\ t.client[c].asked = <<>> /\ t.client[c].back = <<>>
      /\ ~t.client[c].heir /\ ~t.client[c].astray
      /\ \A d \in Clients : d # c => t.client[d] = s.client[d]
  <2>1. HungFrom(s, t, i, fd, c)
    BY <1>1, <1>2, <1>3, HungAt
  <2> HIDE DEF t
  <2> QED BY ONLY <2>1 DEF HungFrom
<1> HIDE DEF t
<1>5. \A j \in 1..Slots : t.slot[j].fd # 0 =>
        /\ j # i /\ t.slot[j] = s.slot[j] /\ t.slot[j].fd \in Fds /\ t.slot[j].fd # fd
        /\ t.owner[t.slot[j].fd] = s.owner[t.slot[j].fd] /\ t.owner[t.slot[j].fd] \in Clients
  <2> TAKE j \in 1..Slots
  <2> HAVE t.slot[j].fd # 0
  <2>1. j # i /\ t.slot[j] = s.slot[j]
    BY <1>4
  <2>2. t.slot[j].fd \in Fds
    BY <2>1, <1>1, Numbers DEF Snapshot, Message
  <2>3. t.slot[j].fd # fd /\ s.owner[t.slot[j].fd] \in Clients
    BY <2>1, <1>1, <1>2 DEF Wired
  <2> QED BY <2>1, <2>2, <2>3, <1>4
<1>6. \A g \in Fds : t.owner[g] \in Clients =>
        g # fd /\ t.owner[g] = s.owner[g] /\ t.owner[g] # c
  <2> TAKE g \in Fds
  <2> HAVE t.owner[g] \in Clients
  <2>1. t.owner[fd] = Nobody /\ (g # fd => t.owner[g] = s.owner[g])
    BY <1>4
  <2>2. g # fd /\ t.owner[g] = s.owner[g]
    BY ONLY <2>1, t.owner[g] \in Clients, Numbers
  <2>3. s.owner[g] \in Clients /\ s.owner[g] = s.owner[fd] => g = fd
    BY <1>1, <1>3 DEF Wired
  <2> QED BY ONLY <2>2, <2>3, <1>2, t.owner[g] \in Clients
<1>7. Wired(t)
  <2>1. \A j \in 1..Slots : t.slot[j].fd # 0 => t.owner[t.slot[j].fd] \in Clients
    BY <1>5
  <2>2. \A j, k \in 1..Slots : t.slot[j].fd # 0 /\ t.slot[j].fd = t.slot[k].fd => j = k
    <3> TAKE j, k \in 1..Slots
    <3> HAVE t.slot[j].fd # 0 /\ t.slot[j].fd = t.slot[k].fd
    <3>1. t.slot[j] = s.slot[j] /\ t.slot[k] = s.slot[k]
      BY <1>5
    <3>2. s.slot[j].fd # 0 /\ s.slot[j].fd = s.slot[k].fd => j = k
      BY <1>1 DEF Wired
    <3> QED BY ONLY <3>1, <3>2, t.slot[j].fd # 0, t.slot[j].fd = t.slot[k].fd
  <2>3. \A g \in Fds : t.owner[g] \in Clients => \E j \in 1..Slots : t.slot[j].fd = g
    <3> TAKE g \in Fds
    <3> HAVE t.owner[g] \in Clients
    <3>1. g # fd /\ s.owner[g] \in Clients
      BY <1>6
    <3>2. PICK j \in 1..Slots : s.slot[j].fd = g
      BY <3>1, <1>1 DEF Wired
    <3>3. j # i => t.slot[j] = s.slot[j]
      BY <1>4
    <3> QED BY ONLY <3>1, <3>2, <3>3, <1>2, j \in 1..Slots
  <2>4. \A g, h \in Fds : t.owner[g] \in Clients /\ t.owner[g] = t.owner[h] => g = h
    <3> TAKE g, h \in Fds
    <3> HAVE t.owner[g] \in Clients /\ t.owner[g] = t.owner[h]
    <3>1. t.owner[g] = s.owner[g] /\ t.owner[h] = s.owner[h]
      BY <1>6
    <3>2. s.owner[g] \in Clients /\ s.owner[g] = s.owner[h] => g = h
      BY <1>1 DEF Wired
    <3> QED BY ONLY <3>1, <3>2, t.owner[g] \in Clients, t.owner[g] = t.owner[h]
  <2>5. \A g \in Fds : t.owner[g] = Broker <=> t.broker.fd = g
    <3> TAKE g \in Fds
    <3>1. \A f \in Fds : s.owner[f] = Broker <=> s.broker.fd = f
      BY <1>1 DEF Wired
    <3>2. t.broker = s.broker /\ t.owner[fd] = Nobody /\ (g # fd => t.owner[g] = s.owner[g])
      BY <1>4
    <3> QED BY ONLY <3>1, <3>2, <1>2, <1>3, g \in Fds, Numbers
  <2> QED BY <2>1, <2>2, <2>3, <2>4, <2>5 DEF Wired
<1>8. Standing(t)
  <2>1. \A g \in Fds : t.owner[g] \in Clients => t.client[t.owner[g]].at \in {"in", "left"}
    BY <1>1, <1>4, <1>6 DEF Standing
  <2>2. \A d \in Clients : t.client[d].at = "in" => \E g \in Fds : t.owner[g] = d
    <3> TAKE d \in Clients
    <3> HAVE t.client[d].at = "in"
    <3>1. d # c
      BY <1>4, <1>4
    <3>2. PICK g \in Fds : s.owner[g] = d
      BY <3>1, <1>1, <1>4 DEF Standing
    <3> QED BY <3>1, <3>2, <1>2, <1>4
  <2>3. \A k \in DOMAIN t.backlog :
          /\ t.client[t.backlog[k]].at \in {"waiting", "left"}
          /\ \A g \in Fds : t.owner[g] # t.backlog[k]
    <3> TAKE k \in DOMAIN t.backlog
    <3>1. s.backlog[k] \in Clients
      BY <1>1, <1>4 DEF Snapshot
    <3>2. s.backlog[k] # c /\ \A g \in Fds : s.owner[g] # s.backlog[k]
      <4>1. k \in DOMAIN s.backlog
        BY <1>4
      <4>2. \A g \in Fds : s.owner[g] # s.backlog[k]
        BY <4>1, <1>1 DEF Standing
      <4> QED BY ONLY <4>2, <1>2, <1>3
    <3>3. \A g \in Fds : t.owner[g] # s.backlog[k]
      BY <3>1, <3>2, <1>4, Numbers
    <3>4. t.client[s.backlog[k]].at \in {"waiting", "left"}
      BY <3>1, <3>2, <1>1, <1>4, <1>4 DEF Standing
    <3> QED BY <3>3, <3>4, <1>4
  <2>4. \A j, k \in DOMAIN t.backlog : t.backlog[j] = t.backlog[k] => j = k
    BY <1>1, <1>4 DEF Standing
  <2> QED BY <2>1, <2>2, <2>3, <2>4 DEF Standing
<1>9. Answering(t)
  <2>1. ASSUME NEW j \in 1..Slots, t.slot[j].fd # 0
        PROVE  Ordered(t.slot[j].got, t.slot[j].reply, t.client[t.owner[t.slot[j].fd]])
    <3>1. /\ t.slot[j] = s.slot[j] /\ t.slot[j].fd \in Fds /\ t.owner[t.slot[j].fd] \in Clients
          /\ t.owner[t.slot[j].fd] = s.owner[t.slot[j].fd]
      BY <2>1, <1>5
    <3>2. t.client[t.owner[t.slot[j].fd]] = s.client[s.owner[t.slot[j].fd]]
      BY <3>1, <1>4, <1>6
    <3>3. Ordered(s.slot[j].got, s.slot[j].reply, s.client[s.owner[s.slot[j].fd]])
      BY <2>1, <3>1, <1>1 DEF Answering
    <3> QED BY <3>1, <3>2, <3>3
  <2>2. ASSUME NEW d \in Clients, \A g \in Fds : t.owner[g] # d
        PROVE  ~t.client[d].heir /\ Ordered(<<>>, <<>>, t.client[d])
    <3>1. CASE d = c
      BY <3>1, <1>4, <1>4, OrderedFresh
    <3>2. CASE d # c
      <4>1. \A g \in Fds : s.owner[g] # d
        BY <2>2, <3>2, <1>2, <1>4
      <4> QED BY <3>2, <4>1, <1>1, <1>4 DEF Answering
    <3> QED BY <3>1, <3>2
  <2> QED BY <2>1, <2>2 DEF Answering
<1>10. Sound(t)
  BY ONLY <1>4, <1>7, <1>8, <1>9 DEF Sound
<1> QED BY ONLY <1>10 DEF t

\* What was read is whole when the turn comes to a descriptor in writes, or there
\* is nothing to read.
Safe(got, c) == Whole(got) \/ c.heir \/ (got = <<>> /\ c.out = <<>>)
Due(s, i, writes) ==
  \A j \in i..Slots :
    s.slot[j].fd \in writes => Safe(s.slot[j].got, s.client[s.owner[s.slot[j].fd]])

\* The client first in the backlog gets an empty slot.
LEMMA TakenSound ==
  ASSUME NEW s, Sound(s), NEW i \in 1..Slots, s.slot[i].fd = 0,
         NEW fd \in Fds, s.owner[fd] = Nobody, s.backlog # <<>>, now \in Nat,
         NEW writes, writes \subseteq Fds, Due(s, 1, writes)
  PROVE  Sound(Taken(s, i, fd, Free, writes)) /\ Due(Taken(s, i, fd, Free, writes), 1, writes)
<1>1. s \in Snapshot /\ Wired(s) /\ Standing(s) /\ Answering(s)
  BY DEF Sound
<1>2. PICK c : c = Head(s.backlog)
  OBVIOUS
<1>3. PICK t :
        /\ t = Taken(s, i, fd, Free, writes) /\ c \in Clients
        /\ t \in Snapshot /\ t.backlog = Tail(s.backlog) /\ t.broker = s.broker
        /\ t.slot[i].fd = fd /\ t.slot[i].got = <<>> /\ t.slot[i].reply = <<>>
        /\ \A j \in 1..Slots : j # i => t.slot[j] = s.slot[j]
        /\ t.owner[fd] = c /\ \A g \in Fds : g # fd => t.owner[g] = s.owner[g]
        /\ Like(t.client[c], s.client[c])
        /\ t.client[c].heir = (fd \in writes /\ s.client[c].out # <<>>)
        /\ t.client[c].at = IF s.client[c].at = "waiting" THEN "in" ELSE s.client[c].at
        /\ \A d \in Clients : d # c => t.client[d] = s.client[d]
  BY <1>1, <1>2, TakenIs
<1>4. /\ c \in Clients /\ 1 \in DOMAIN s.backlog /\ c = s.backlog[1]
      /\ \A k \in DOMAIN t.backlog : k + 1 \in DOMAIN s.backlog /\ k + 1 # 1
           /\ k \in Nat /\ t.backlog[k] = s.backlog[k + 1]
  <2>1. PICK q \in Seq(Clients) : q = s.backlog /\ q # <<>>
    BY <1>1 DEF Snapshot
  <2>2. Head(q) \in Clients /\ 1 \in DOMAIN q /\ Head(q) = q[1]
    BY <2>1
  <2>3. ASSUME NEW k \in DOMAIN Tail(q)
        PROVE  k + 1 \in DOMAIN q /\ k + 1 # 1 /\ k \in Nat /\ Tail(q)[k] = q[k + 1]
    BY <2>1, <2>3
  <2> QED BY <2>1, <2>2, <2>3, <1>2, <1>3
<1>a. /\ c \in Clients /\ t.broker = s.broker /\ t.slot[i].fd = fd
      /\ \A j \in 1..Slots : j # i => t.slot[j] = s.slot[j]
      /\ t.owner[fd] = c /\ \A g \in Fds : g # fd => t.owner[g] = s.owner[g]
      /\ t.client[c].at = IF s.client[c].at = "waiting" THEN "in" ELSE s.client[c].at
  BY ONLY <1>3
<1>5. /\ s.client[c].at \in {"waiting", "left"} /\ \A g \in Fds : s.owner[g] # c
      /\ t.client[c].at \in {"in", "left"}
  BY <1>1, <1>a, <1>4 DEF Standing
<1>6. \A j \in 1..Slots : j # i /\ s.slot[j].fd # 0 =>
        /\ s.slot[j].fd \in Fds /\ s.slot[j].fd # fd
        /\ s.owner[s.slot[j].fd] \in Clients /\ s.owner[s.slot[j].fd] # c
        /\ t.owner[s.slot[j].fd] = s.owner[s.slot[j].fd]
  <2> TAKE j \in 1..Slots
  <2> HAVE j # i /\ s.slot[j].fd # 0
  <2>1. s.slot[j].fd \in Fds
    BY <1>1, Numbers DEF Snapshot, Message
  <2>2. s.slot[j].fd # fd /\ s.owner[s.slot[j].fd] \in Clients
    BY <1>1, Numbers DEF Wired
  <2> QED BY <2>1, <2>2, <1>5, <1>a
<1>7. Wired(t)
  <2>1. \A j \in 1..Slots : t.slot[j].fd # 0 => t.owner[t.slot[j].fd] \in Clients
    BY <1>4, <1>a, <1>6
  <2>2. \A j, k \in 1..Slots : t.slot[j].fd # 0 /\ t.slot[j].fd = t.slot[k].fd => j = k
    <3> TAKE j, k \in 1..Slots
    <3> HAVE t.slot[j].fd # 0 /\ t.slot[j].fd = t.slot[k].fd
    <3>1. CASE j = i \/ k = i
      BY <3>1, <1>a, <1>6, Numbers
    <3>2. CASE j # i /\ k # i
      BY <3>2, <1>1, <1>a DEF Wired
    <3> QED BY <3>1, <3>2
  <2>3. \A g \in Fds : t.owner[g] \in Clients => \E j \in 1..Slots : t.slot[j].fd = g
    <3> TAKE g \in Fds
    <3> HAVE t.owner[g] \in Clients
    <3>1. CASE g = fd
      BY <3>1, <1>a
    <3>2. CASE g # fd
      <4>1. PICK j \in 1..Slots : s.slot[j].fd = g
        BY <3>2, <1>1, <1>a DEF Wired
      <4>2. j # i
        BY <4>1, Numbers
      <4> QED BY <4>1, <4>2, <1>a
    <3> QED BY <3>1, <3>2
  <2>4. \A g, h \in Fds : t.owner[g] \in Clients /\ t.owner[g] = t.owner[h] => g = h
    BY <1>1, <1>5, <1>a DEF Wired
  <2>5. \A g \in Fds : t.owner[g] = Broker <=> t.broker.fd = g
    BY <1>1, <1>a, <1>4, <1>a, Numbers DEF Wired
  <2> QED BY <2>1, <2>2, <2>3, <2>4, <2>5 DEF Wired
<1>8. Standing(t)
  <2>1. \A g \in Fds : t.owner[g] \in Clients => t.client[t.owner[g]].at \in {"in", "left"}
    BY <1>1, <1>5, <1>3 DEF Standing
  <2>2. \A d \in Clients : t.client[d].at = "in" => \E g \in Fds : t.owner[g] = d
    <3> TAKE d \in Clients
    <3> HAVE t.client[d].at = "in"
    <3>1. CASE d = c
      BY <3>1, <1>3
    <3>2. CASE d # c
      <4>1. PICK g \in Fds : s.owner[g] = d
        BY <3>2, <1>1, <1>3 DEF Standing
      <4>2. g # fd
        BY <4>1, Numbers
      <4> QED BY <4>1, <4>2, <1>3
    <3> QED BY <3>1, <3>2
  <2>3. \A k \in DOMAIN t.backlog :
          /\ t.client[t.backlog[k]].at \in {"waiting", "left"}
          /\ \A g \in Fds : t.owner[g] # t.backlog[k]
    <3> TAKE k \in DOMAIN t.backlog
    <3>1. PICK d : d = t.backlog[k] /\ d = s.backlog[k + 1] /\ k + 1 \in DOMAIN s.backlog
      BY <1>4
    <3>2. d # c
      BY <3>1, <1>1, <1>4 DEF Standing
    <3>3. d \in Clients
      BY <3>1, <1>1 DEF Snapshot
    <3>4. s.client[d].at \in {"waiting", "left"} /\ \A g \in Fds : s.owner[g] # d
      BY <3>1, <1>1 DEF Standing
    <3> QED BY <3>1, <3>2, <3>3, <3>4, <1>3
  <2>4. \A j, k \in DOMAIN t.backlog : t.backlog[j] = t.backlog[k] => j = k
    <3> TAKE j, k \in DOMAIN t.backlog
    <3> HAVE t.backlog[j] = t.backlog[k]
    <3>1. j + 1 = k + 1 /\ j \in Nat /\ k \in Nat
      BY <1>1, <1>4 DEF Standing
    <3> QED BY <3>1
  <2> QED BY <2>1, <2>2, <2>3, <2>4 DEF Standing
<1>9. Ordered(<<>>, <<>>, t.client[c])
  <2>1. s.client[c] \in Peer
    BY <1>1, <1>4 DEF Snapshot
  <2>2. ~s.client[c].heir /\ Ordered(<<>>, <<>>, s.client[c])
    BY <1>1, <1>4, <1>5 DEF Answering
  <2> QED BY ONLY <2>1, <2>2, <1>3, OrderedTaken
<1>10. Answering(t)
  <2>1. ASSUME NEW j \in 1..Slots, t.slot[j].fd # 0
        PROVE  Ordered(t.slot[j].got, t.slot[j].reply, t.client[t.owner[t.slot[j].fd]])
    <3>1. CASE j = i
      BY <3>1, <1>3, <1>9
    <3>2. CASE j # i
      <4>1. t.slot[j] = s.slot[j] /\ s.slot[j].fd # 0
        BY <2>1, <3>2, <1>3
      <4>2. t.client[t.owner[s.slot[j].fd]] = s.client[s.owner[s.slot[j].fd]]
        BY <3>2, <4>1, <1>3, <1>6
      <4>3. Ordered(s.slot[j].got, s.slot[j].reply, s.client[s.owner[s.slot[j].fd]])
        BY <4>1, <1>1 DEF Answering
      <4> QED BY <4>1, <4>2, <4>3
    <3> QED BY <3>1, <3>2
  <2>2. ASSUME NEW d \in Clients, \A g \in Fds : t.owner[g] # d
        PROVE  ~t.client[d].heir /\ Ordered(<<>>, <<>>, t.client[d])
    <3>1. d # c /\ \A g \in Fds : s.owner[g] # d
      BY <2>2, <1>3, Numbers
    <3> QED BY <3>1, <1>1, <1>3 DEF Answering
  <2> QED BY <2>1, <2>2 DEF Answering
<1>11. ASSUME NEW j \in 1..Slots, t.slot[j].fd \in writes
       PROVE  Safe(t.slot[j].got, t.client[t.owner[t.slot[j].fd]])
  <2>1. CASE j = i
    <3>1. t.client[c].out = s.client[c].out
      BY <1>3 DEF Like
    <3> QED BY <2>1, <3>1, <1>3, <1>11 DEF Safe
  <2>2. CASE j # i
    <3>1. t.slot[j] = s.slot[j]
      BY <2>2, <1>3
    <3>2. CASE s.slot[j].fd = 0
      BY <3>1, <3>2, <1>11, Numbers
    <3>3. CASE s.slot[j].fd # 0
      <4>1. t.client[t.owner[s.slot[j].fd]] = s.client[s.owner[s.slot[j].fd]]
        BY <2>2, <3>3, <1>3, <1>6
      <4>2. Safe(s.slot[j].got, s.client[s.owner[s.slot[j].fd]])
        BY <3>1, <1>11 DEF Due
      <4> QED BY <3>1, <4>1, <4>2
    <3> QED BY <3>2, <3>3
  <2> QED BY <2>1, <2>2
<1>12. Due(t, 1, writes)
  BY <1>11 DEF Due
<1>13. Sound(t)
  BY <1>3, <1>7, <1>8, <1>10 DEF Sound
<1> QED BY <1>3, <1>12, <1>13

\* What is left in a slot does not matter to who takes it.
LEMMA TakenOver ==
  ASSUME NEW s \in Snapshot, NEW i \in 1..Slots, s.slot[i].fd # 0,
         s.owner[s.slot[i].fd] \in Clients, NEW fd, NEW writes
  PROVE  Taken(Closed(s, s.slot[i].fd), i, fd, Free, writes) = Taken(Hung(s, i), i, fd, Free, writes)
<1>1. PICK slots, owners, clients, queue, link :
        /\ slots \in [1..Slots -> Message]
        /\ owners \in [Fds -> Clients \cup {Nobody, Broker}]
        /\ clients \in [Clients -> Peer]
        /\ s = [slot |-> slots, owner |-> owners, client |-> clients, backlog |-> queue,
                broker |-> link]
  BY DEF Snapshot
<1>2. PICK x : x = Closed(s, s.slot[i].fd)
  OBVIOUS
<1>3. PICK o, p : x = [slot |-> slots, owner |-> o, client |-> p, backlog |-> queue,
                       broker |-> link]
  BY <1>1, <1>2 DEF Closed
<1>4. PICK y : y = [x EXCEPT !.slot[i].fd = 0]
  OBVIOUS
<1>5. y = [slot |-> [slots EXCEPT ![i] = [@ EXCEPT !.fd = 0]], owner |-> o, client |-> p,
           backlog |-> queue, broker |-> link]
  BY <1>3, <1>4
<1>6. PICK m : m = [Free EXCEPT !.fd = fd, !.rx = now]
  OBVIOUS
<1>7. [[slots EXCEPT ![i] = [@ EXCEPT !.fd = 0]] EXCEPT ![i] = m] = [slots EXCEPT ![i] = m]
  <2>1. PICK z : z = [slots EXCEPT ![i] = [@ EXCEPT !.fd = 0]]
    OBVIOUS
  <2>2. DOMAIN z = 1..Slots /\ \A j \in 1..Slots : j # i => z[j] = slots[j]
    BY <2>1, <1>1
  <2>3. [z EXCEPT ![i] = m] = [j \in 1..Slots |-> IF j = i THEN m ELSE slots[j]]
    BY <2>1, <2>2
  <2>4. [slots EXCEPT ![i] = m] = [j \in 1..Slots |-> IF j = i THEN m ELSE slots[j]]
    BY <1>1
  <2> QED BY <2>1, <2>3, <2>4
<1>8. PICK q : q = Seated(p[Head(queue)], fd \in writes /\ p[Head(queue)].out # <<>>)
  OBVIOUS
<1>9. \A w : w.backlog = queue /\ w.client = p =>
        Taken(w, i, fd, Free, writes) =
          [w EXCEPT !.backlog = Tail(@), !.owner[fd] = Head(queue), !.slot[i] = m,
                    !.client[Head(queue)] = q]
  BY <1>6, <1>8 DEF Taken
<1>10. Taken(x, i, fd, Free, writes) =
         [slot |-> [slots EXCEPT ![i] = m], owner |-> [o EXCEPT ![fd] = Head(queue)],
          client |-> [p EXCEPT ![Head(queue)] = q], backlog |-> Tail(queue), broker |-> link]
  <2>1. x.backlog = queue /\ x.client = p
    BY <1>3
  <2>2. Taken(x, i, fd, Free, writes) =
          [x EXCEPT !.backlog = Tail(@), !.owner[fd] = Head(queue), !.slot[i] = m,
                    !.client[Head(queue)] = q]
    BY <2>1, <1>9
  <2> QED BY <2>2, <1>3
<1>11. Taken(y, i, fd, Free, writes) =
         [slot |-> [slots EXCEPT ![i] = m], owner |-> [o EXCEPT ![fd] = Head(queue)],
          client |-> [p EXCEPT ![Head(queue)] = q], backlog |-> Tail(queue), broker |-> link]
  <2>1. y.backlog = queue /\ y.client = p
    BY <1>5
  <2>2. Taken(y, i, fd, Free, writes) =
          [y EXCEPT !.backlog = Tail(@), !.owner[fd] = Head(queue), !.slot[i] = m,
                    !.client[Head(queue)] = q]
    BY <2>1, <1>9
  <2>3. PICK closed : closed = [slots EXCEPT ![i] = [@ EXCEPT !.fd = 0]]
    OBVIOUS
  <2>4. y = [slot |-> closed, owner |-> o, client |-> p, backlog |-> queue, broker |-> link]
    BY ONLY <2>3, <1>5
  <2> HIDE <2>3
  <2>5. Taken(y, i, fd, Free, writes) =
          [slot |-> [closed EXCEPT ![i] = m], owner |-> [o EXCEPT ![fd] = Head(queue)],
           client |-> [p EXCEPT ![Head(queue)] = q], backlog |-> Tail(queue), broker |-> link]
    BY ONLY <2>2, <2>4
  <2>6. [closed EXCEPT ![i] = m] = [slots EXCEPT ![i] = m]
    BY ONLY <2>3, <1>7
  <2> QED BY ONLY <2>5, <2>6
<1>12. y = Hung(s, i)
  BY <1>2, <1>4 DEF Hung
<1> QED BY <1>2, <1>10, <1>11, <1>12

\* A slot whose connection is closed, or that is worked on: the others keep their
\* clients.
LEMMA Bystanders ==
  ASSUME NEW s, Sound(s), NEW i \in 1..Slots, NEW fd \in Fds, fd = s.slot[i].fd,
         NEW c, c = s.owner[fd], NEW r,
         \A g \in Fds : g # fd => r.owner[g] = s.owner[g],
         \A d \in Clients : d # c => r.client[d] = s.client[d],
         NEW j \in 1..Slots, j # i, s.slot[j].fd # 0
  PROVE  r.client[r.owner[s.slot[j].fd]] = s.client[s.owner[s.slot[j].fd]]
<1>1. s \in Snapshot /\ Wired(s)
  BY DEF Sound
<1>2. PICK g \in Fds : g = s.slot[j].fd
  BY <1>1, Numbers DEF Snapshot, Message
<1>3. g # fd /\ s.owner[g] \in Clients
  BY <1>1, <1>2 DEF Wired
<1>4. s.owner[g] # c
  BY <1>1, <1>3 DEF Wired
<1> QED BY <1>2, <1>3, <1>4

\* accept(), with or without somebody put out.
LEMMA AcceptedSound ==
  ASSUME NEW s, Sound(s), NEW writes, writes \subseteq Fds, Due(s, 1, writes), now \in Nat
  PROVE  Sound(Accepted(s, writes)) /\ Due(Accepted(s, writes), 1, writes)
<1>1. s \in Snapshot /\ Wired(s)
  BY DEF Sound
<1>2. PICK i, fd : i = Victim(s) /\ fd = LowestFree(s)
  OBVIOUS
<1>3. i \in 1..Slots /\ fd \in Fds /\ s.owner[fd] = Nobody
  BY <1>1, <1>2, VictimIs, LowestFreeIs
<1>4. CASE s.backlog = <<>>
  BY <1>4 DEF Accepted
<1>5. CASE s.backlog # <<>> /\ s.slot[i].fd = 0
  <2>1. Accepted(s, writes) = Taken(s, i, fd, Free, writes)
    BY <1>2, <1>5 DEF Accepted
  <2> QED BY <2>1, <1>3, <1>5, TakenSound
<1>6. CASE s.backlog # <<>> /\ s.slot[i].fd # 0
  <2>1. PICK g, c : g = s.slot[i].fd /\ c = s.owner[g]
    OBVIOUS
  <2>2. g \in Fds /\ c \in Clients
    BY <2>1, <1>1, <1>3, <1>6, Numbers DEF Wired, Snapshot, Message
  <2>3. PICK h : /\ h = Hung(s, i) /\ h \in Snapshot /\ h.backlog = s.backlog
                 /\ h.slot[i].fd = 0 /\ \A j \in 1..Slots : j # i => h.slot[j] = s.slot[j]
                 /\ \A f \in Fds : f # g => h.owner[f] = s.owner[f]
                 /\ \A d \in Clients : d # c => h.client[d] = s.client[d]
    <3>1. PICK h : h = Hung(s, i)
      OBVIOUS
    <3>2. HungFrom(s, h, i, g, c)
      BY <3>1, <2>1, <2>2, <1>1, <1>3, HungAt
    <3> QED BY ONLY <3>1, <3>2 DEF HungFrom
  <2>4. Sound(h) /\ h.owner[fd] = Nobody
    BY <2>1, <2>2, <2>3, <1>3, <1>6, HungSound, Numbers
  <2>5. Accepted(s, writes) = Taken(Closed(s, s.slot[i].fd), i, fd, Free, writes)
    BY <1>2, <1>6 DEF Accepted
  <2>6. Accepted(s, writes) = Taken(h, i, fd, Free, writes)
    BY <2>1, <2>2, <2>3, <2>5, <1>1, <1>3, <1>6, TakenOver
  <2>7. ASSUME NEW j \in 1..Slots, h.slot[j].fd \in writes
        PROVE  Safe(h.slot[j].got, h.client[h.owner[h.slot[j].fd]])
    <3>1. j # i /\ h.slot[j] = s.slot[j] /\ s.slot[j].fd # 0
      BY <2>3, <2>7, Numbers
    <3>2. h.client[h.owner[s.slot[j].fd]] = s.client[s.owner[s.slot[j].fd]]
      BY ONLY <2>1, <2>2, <2>3, <3>1, <1>3, Sound(s), j \in 1..Slots, Bystanders
    <3>3. Safe(s.slot[j].got, s.client[s.owner[s.slot[j].fd]])
      BY <2>7, <3>1 DEF Due
    <3> QED BY <3>1, <3>2, <3>3
  <2>8. Due(h, 1, writes)
    BY <2>7 DEF Due
  <2> QED BY <2>3, <2>4, <2>6, <2>8, <1>3, <1>6, TakenSound
<1> QED BY <1>4, <1>5, <1>6

\* A descriptor goes to the broker's socket or comes from it.
LEMMA OwnerMoved ==
  ASSUME NEW s, Sound(s), NEW r \in Snapshot, NEW fd \in Fds,
         r.slot = s.slot, r.client = s.client, r.backlog = s.backlog,
         \A g \in Fds : g # fd => r.owner[g] = s.owner[g],
         \/ s.owner[fd] = Broker /\ r.owner[fd] = Nobody /\ r.broker.fd = 0
         \/ s.owner[fd] = Nobody /\ r.owner[fd] = Broker /\ r.broker.fd = fd /\ s.broker.fd = 0,
         NEW writes, writes \subseteq Fds, Due(s, 1, writes)
  PROVE  /\ Sound(r) /\ Due(r, 1, writes)
         /\ \A g \in Fds : r.owner[g] \in Clients => r.owner[g] = s.owner[g]
<1>1. s \in Snapshot /\ Wired(s) /\ Standing(s) /\ Answering(s)
  BY DEF Sound
<1>2. /\ ~(s.owner[fd] \in Clients) /\ ~(r.owner[fd] \in Clients)
      /\ \A g \in Fds : s.owner[g] \in Clients \/ r.owner[g] \in Clients =>
           g # fd /\ r.owner[g] = s.owner[g]
  BY Numbers
<1>3. \A i \in 1..Slots : s.slot[i].fd # 0 => s.slot[i].fd \in Fds
  BY <1>1, Numbers DEF Snapshot, Message
<1>4. Wired(r)
  <2>1. \A i \in 1..Slots : r.slot[i].fd # 0 => r.owner[r.slot[i].fd] \in Clients
    BY <1>1, <1>2, <1>3 DEF Wired
  <2>2. \A g \in Fds : r.owner[g] \in Clients => \E i \in 1..Slots : r.slot[i].fd = g
    BY <1>1, <1>2 DEF Wired
  <2>3. \A g, h \in Fds : r.owner[g] \in Clients /\ r.owner[g] = r.owner[h] => g = h
    BY <1>1, <1>2 DEF Wired
  <2>4. \A g \in Fds : r.owner[g] = Broker <=> r.broker.fd = g
    BY <1>1, Numbers DEF Wired
  <2> QED BY <2>1, <2>2, <2>3, <2>4, <1>1 DEF Wired
<1>5. Standing(r)
  <2>1. \A g \in Fds : r.owner[g] \in Clients => r.client[r.owner[g]].at \in {"in", "left"}
    BY <1>1, <1>2 DEF Standing
  <2>2. \A c \in Clients : r.client[c].at = "in" => \E g \in Fds : r.owner[g] = c
    BY <1>1, <1>2 DEF Standing
  <2>3. \A k \in DOMAIN r.backlog :
          /\ r.client[r.backlog[k]].at \in {"waiting", "left"}
          /\ \A g \in Fds : r.owner[g] # r.backlog[k]
    <3> TAKE k \in DOMAIN r.backlog
    <3>1. s.backlog[k] \in Clients
      BY <1>1 DEF Snapshot
    <3> QED BY <3>1, <1>1, <1>2 DEF Standing
  <2> QED BY <2>1, <2>2, <2>3, <1>1 DEF Standing
<1>6. Answering(r)
  <2>1. ASSUME NEW i \in 1..Slots, r.slot[i].fd # 0
        PROVE  Ordered(r.slot[i].got, r.slot[i].reply, r.client[r.owner[r.slot[i].fd]])
    <3>1. r.owner[s.slot[i].fd] = s.owner[s.slot[i].fd]
      BY <2>1, <1>1, <1>2, <1>3 DEF Wired
    <3> QED BY <2>1, <3>1, <1>1 DEF Answering
  <2>2. ASSUME NEW c \in Clients, \A g \in Fds : r.owner[g] # c
        PROVE  ~r.client[c].heir /\ Ordered(<<>>, <<>>, r.client[c])
    <3>1. \A g \in Fds : s.owner[g] # c
      BY <2>2, <1>2
    <3> QED BY <3>1, <1>1 DEF Answering
  <2> QED BY <2>1, <2>2 DEF Answering
<1>7. Due(r, 1, writes)
  <2> SUFFICES ASSUME NEW i \in 1..Slots, s.slot[i].fd \in writes
               PROVE  Safe(s.slot[i].got, s.client[r.owner[s.slot[i].fd]])
    BY DEF Due
  <2>1. r.owner[s.slot[i].fd] = s.owner[s.slot[i].fd]
    BY <1>1, <1>2, <1>3, Numbers DEF Wired
  <2> QED BY <2>1 DEF Due
<1>8. \A g \in Fds : r.owner[g] \in Clients => r.owner[g] = s.owner[g]
  BY <1>2
<1>9. Sound(r)
  BY <1>4, <1>5, <1>6 DEF Sound
<1> QED BY <1>7, <1>8, <1>9

\* The device's own descriptor to the broker is no client's.
LEMMA EmuSound ==
  ASSUME NEW s, Sound(s), NEW r \in EmuServiced(s), NEW writes, writes \subseteq Fds,
         Due(s, 1, writes)
  PROVE  /\ Sound(r) /\ Due(r, 1, writes)
         /\ r.slot = s.slot /\ r.client = s.client /\ r.backlog = s.backlog
         /\ \A g \in Fds : r.owner[g] \in Clients => r.owner[g] = s.owner[g]
<1>1. s \in Snapshot /\ Wired(s) /\ Standing(s) /\ Answering(s)
  BY DEF Sound
<1>2. CASE r = s
  BY <1>2
<1>3. CASE /\ s.broker.fd # 0
           /\ r = [s EXCEPT !.owner[s.broker.fd] = Nobody, !.broker = [fd |-> 0, lost |-> FALSE]]
  <2>1. PICK fd \in Fds : fd = s.broker.fd
    BY <1>1, <1>3, Numbers DEF Snapshot
  <2>2. s.owner[fd] = Broker
    BY <2>1, <1>1 DEF Wired
  <2>3. PICK b : b = [fd |-> 0, lost |-> FALSE] /\ b \in [fd : 0..Slots + 2, lost : BOOLEAN]
    <3>1. [fd |-> 0, lost |-> FALSE] \in [fd : 0..Slots + 2, lost : BOOLEAN]
      BY Numbers
    <3> QED BY <3>1
  <2>4. /\ r.broker = b /\ r.slot = s.slot /\ r.client = s.client /\ r.backlog = s.backlog
        /\ r.owner = [s.owner EXCEPT ![fd] = Nobody]
        /\ r \in Snapshot
    BY <2>1, <2>3, <1>1, <1>3 DEF Snapshot
  <2>5. /\ r.owner[fd] = Nobody /\ \A g \in Fds : g # fd => r.owner[g] = s.owner[g]
        /\ b.fd = 0
    BY <2>3, <2>4, <1>1 DEF Snapshot
  <2>6. /\ Sound(r) /\ Due(r, 1, writes)
        /\ \A g \in Fds : r.owner[g] \in Clients => r.owner[g] = s.owner[g]
    <3>1. /\ r \in Snapshot /\ r.slot = s.slot /\ r.client = s.client /\ r.backlog = s.backlog
          /\ \A g \in Fds : g # fd => r.owner[g] = s.owner[g]
          /\ s.owner[fd] = Broker /\ r.owner[fd] = Nobody /\ r.broker.fd = 0
      BY ONLY <2>2, <2>4, <2>5
    <3> QED BY ONLY <3>1, Sound(s), fd \in Fds, writes \subseteq Fds, Due(s, 1, writes), OwnerMoved
  <2> QED BY ONLY <2>4, <2>6
<1>4. CASE /\ s.broker.fd = 0
           /\ r = [s EXCEPT !.owner[LowestFree(s)] = Broker,
                            !.broker = [fd |-> LowestFree(s), lost |-> FALSE]]
  <2>1. PICK fd \in Fds : fd = LowestFree(s) /\ s.owner[fd] = Nobody
    BY <1>1, LowestFreeIs
  <2>2. PICK b : b = [fd |-> fd, lost |-> FALSE] /\ b \in [fd : 0..Slots + 2, lost : BOOLEAN]
    <3>1. fd \in 0..Slots + 2
      BY Numbers
    <3>2. [fd |-> fd, lost |-> FALSE] \in [fd : 0..Slots + 2, lost : BOOLEAN]
      BY <3>1
    <3> QED BY <3>2
  <2>3. /\ r.broker = b /\ r.slot = s.slot /\ r.client = s.client /\ r.backlog = s.backlog
        /\ r.owner = [s.owner EXCEPT ![fd] = Broker]
        /\ r \in Snapshot
    BY <2>1, <2>2, <1>1, <1>4 DEF Snapshot
  <2>4. /\ r.owner[fd] = Broker /\ \A g \in Fds : g # fd => r.owner[g] = s.owner[g]
        /\ b.fd = fd
    BY <2>2, <2>3, <1>1 DEF Snapshot
  <2>5. r.broker.fd = fd /\ s.broker.fd = 0
    BY <2>3, <2>4, <1>4
  <2>6. /\ Sound(r) /\ Due(r, 1, writes)
        /\ \A g \in Fds : r.owner[g] \in Clients => r.owner[g] = s.owner[g]
    <3>1. /\ r \in Snapshot /\ r.slot = s.slot /\ r.client = s.client /\ r.backlog = s.backlog
          /\ \A g \in Fds : g # fd => r.owner[g] = s.owner[g]
          /\ s.owner[fd] = Nobody /\ r.owner[fd] = Broker
      BY ONLY <2>1, <2>3, <2>4
    <3> QED BY ONLY <3>1, <2>5, Sound(s), fd \in Fds, writes \subseteq Fds, Due(s, 1, writes),
                    OwnerMoved
  <2> QED BY ONLY <2>3, <2>6
<1> QED BY <1>2, <1>3, <1>4 DEF EmuServiced

\* From s to r the server works on the message of slot i and with its client c.
Works(s, r, i, c) ==
  /\ s.slot[i].fd # 0 /\ \E g : g = s.slot[i].fd /\ c = s.owner[g]
  /\ r.owner = s.owner /\ r.backlog = s.backlog /\ r.broker = s.broker
  /\ r.slot[i].fd = s.slot[i].fd /\ \A j \in 1..Slots : j # i => r.slot[j] = s.slot[j]
  /\ r.client[c].at = s.client[c].at /\ \A d \in Clients : d # c => r.client[d] = s.client[d]
  /\ r.client[c].heard = s.client[c].heard /\ r.client[c].heir = s.client[c].heir
  /\ Ordered(r.slot[i].got, r.slot[i].reply, r.client[c])

\* From s to r it may have read a piece, or found the connection dead.
Eats(s, r, i, c) ==
  /\ s.client[c].out # <<>> /\ r.client[c].out = Tail(s.client[c].out)
  /\ \/ r.slot[i].rx = now /\ (r.slot[i].got = <<>> \/ ~r.slot[i].got[1].runt)
     \/ r.slot[i].rx = s.slot[i].rx /\ r.slot[i].got # <<>> /\ r.slot[i].got[1].runt
Reads(s, r, i, c) ==
  \/ r = s
  \/ r = Hung(s, i) /\ s.client[c].out = <<>>
  \/ Works(s, r, i, c) /\ Eats(s, r, i, c)

\* From s to r it has written, or failed to.
Writes(s, r, i, c) ==
  \/ r = Hung(s, i) /\ s.client[c].at = "left"
  \/ /\ Works(s, r, i, c) /\ r.client[c].out = s.client[c].out
     /\ r.slot[i].rx = s.slot[i].rx /\ r.slot[i].got = <<>>

\* A slot read or written: nothing else moves.
LEMMA MessageSound ==
  ASSUME NEW s, Sound(s), NEW r \in Snapshot, NEW i \in 1..Slots, NEW c, Works(s, r, i, c)
  PROVE  Sound(r)
<1>1. s \in Snapshot /\ Wired(s) /\ Standing(s) /\ Answering(s)
  BY DEF Sound
<1>2. PICK key : key = s.slot[i].fd /\ c = s.owner[key] /\ key # 0
  BY ONLY Works(s, r, i, c), Zenon DEF Works
<1>3. /\ \A j \in 1..Slots : j # i => r.slot[j] = s.slot[j]
      /\ \A d \in Clients : d # c => r.client[d] = s.client[d]
  BY ONLY Works(s, r, i, c), Zenon DEF Works
<1>4. r.client[c].at = s.client[c].at /\ Ordered(r.slot[i].got, r.slot[i].reply, r.client[c])
  BY ONLY Works(s, r, i, c), Zenon DEF Works
<1>5. c \in Clients /\ \A d \in Clients : r.client[d].at = s.client[d].at
  <2>1. c \in Clients
    <3>1. s.owner[s.slot[i].fd] \in Clients
      BY ONLY <1>1, <1>2, i \in 1..Slots DEF Wired
    <3> QED BY ONLY <3>1, <1>2
  <2> QED BY ONLY <2>1, <1>3, <1>4
<1>6. \A j \in 1..Slots : r.slot[j].fd = s.slot[j].fd
  BY ONLY Works(s, r, i, c), Zenon DEF Works
<1>7. \A j \in 1..Slots : s.slot[j].fd # 0 => s.slot[j].fd \in Fds
  BY ONLY <1>1, Numbers, Zenon DEF Snapshot, Message
<1>8. r.owner = s.owner /\ r.backlog = s.backlog /\ r.broker = s.broker
  BY ONLY Works(s, r, i, c), Zenon DEF Works
<1>9. Wired(r)
  <2>1. \A j \in 1..Slots : r.slot[j].fd # 0 => r.owner[r.slot[j].fd] \in Clients
    BY ONLY <1>1, <1>6, <1>8 DEF Wired
  <2>2. \A j, k \in 1..Slots : r.slot[j].fd # 0 /\ r.slot[j].fd = r.slot[k].fd => j = k
    BY ONLY <1>1, <1>6, <1>8 DEF Wired
  <2>3. \A g \in Fds : r.owner[g] \in Clients => \E j \in 1..Slots : r.slot[j].fd = g
    BY ONLY <1>1, <1>6, <1>8 DEF Wired
  <2>4. \A g, h \in Fds : r.owner[g] \in Clients /\ r.owner[g] = r.owner[h] => g = h
    BY ONLY <1>1, <1>8 DEF Wired
  <2>5. \A g \in Fds : r.owner[g] = Broker <=> r.broker.fd = g
    BY ONLY <1>1, <1>8 DEF Wired
  <2> QED BY ONLY <2>1, <2>2, <2>3, <2>4, <2>5 DEF Wired
<1>10. Standing(r)
  <2>1. \A g \in Fds : r.owner[g] \in Clients => r.client[r.owner[g]].at \in {"in", "left"}
    BY ONLY <1>1, <1>5, <1>8 DEF Standing
  <2>2. \A d \in Clients : r.client[d].at = "in" => \E g \in Fds : r.owner[g] = d
    BY ONLY <1>1, <1>5, <1>8 DEF Standing
  <2>3. \A k \in DOMAIN r.backlog :
          /\ r.client[r.backlog[k]].at \in {"waiting", "left"}
          /\ \A g \in Fds : r.owner[g] # r.backlog[k]
    <3> TAKE k \in DOMAIN r.backlog
    <3>1. s.backlog[k] \in Clients
      BY ONLY <1>1, <1>8, k \in DOMAIN r.backlog DEF Snapshot
    <3>2. /\ s.client[s.backlog[k]].at \in {"waiting", "left"}
          /\ \A g \in Fds : s.owner[g] # s.backlog[k]
      BY ONLY <1>1, <1>8 DEF Standing
    <3> QED BY ONLY <3>1, <3>2, <1>5, <1>8
  <2>4. \A j, k \in DOMAIN r.backlog : r.backlog[j] = r.backlog[k] => j = k
    BY ONLY <1>1, <1>8 DEF Standing
  <2> QED BY ONLY <2>1, <2>2, <2>3, <2>4 DEF Standing
<1>11. Answering(r)
  <2>1. ASSUME NEW j \in 1..Slots, r.slot[j].fd # 0
        PROVE  Ordered(r.slot[j].got, r.slot[j].reply, r.client[r.owner[r.slot[j].fd]])
    <3>1. CASE j = i
      <4>1. r.owner[r.slot[j].fd] = c
        BY ONLY <3>1, <1>2, <1>6, <1>8, i \in 1..Slots
      <4> QED BY ONLY <3>1, <4>1, <1>4
    <3>2. CASE j # i
      <4>1. PICK own \in Fds : own = s.slot[j].fd
        BY ONLY <2>1, <1>6, <1>7, j \in 1..Slots
      <4>2. key \in Fds /\ key # own
        <5>1. key \in Fds
          BY ONLY <1>2, <1>7, i \in 1..Slots
        <5>2. s.slot[i].fd # s.slot[j].fd
          BY ONLY <2>1, <3>2, <1>1, <1>6, i \in 1..Slots, j \in 1..Slots DEF Wired
        <5> QED BY ONLY <4>1, <5>1, <5>2, <1>2
      <4>3. s.owner[own] \in Clients
        BY ONLY <4>1, <2>1, <1>1, <1>6, j \in 1..Slots DEF Wired
      <4>4. s.owner[key] # s.owner[own]
        BY ONLY <4>1, <4>2, <4>3, <1>1 DEF Wired
      <4>5. PICK d \in Clients : d = s.owner[own] /\ d # c
        BY ONLY <4>3, <4>4, <1>2
      <4>6. Ordered(s.slot[j].got, s.slot[j].reply, s.client[d])
        BY ONLY <4>1, <4>5, <2>1, <1>1, <1>6, j \in 1..Slots DEF Answering
      <4>7. r.slot[j] = s.slot[j]
        BY ONLY <3>2, <1>3, j \in 1..Slots
      <4>8. r.client[d] = s.client[d]
        BY ONLY <4>5, <1>3
      <4>9. r.owner[r.slot[j].fd] = d
        BY ONLY <4>1, <4>5, <1>6, <1>8, j \in 1..Slots
      <4> QED BY ONLY <4>6, <4>7, <4>8, <4>9
    <3> QED BY <3>1, <3>2
  <2>2. ASSUME NEW d \in Clients, \A g \in Fds : r.owner[g] # d
        PROVE  ~r.client[d].heir /\ Ordered(<<>>, <<>>, r.client[d])
    <3>1. d # c
      <4>1. key \in Fds
        BY ONLY <1>2, <1>7, i \in 1..Slots
      <4> QED BY ONLY <2>2, <4>1, <1>2, <1>8
    <3>2. r.client[d] = s.client[d]
      BY ONLY <3>1, <1>3, d \in Clients
    <3>3. ~s.client[d].heir /\ Ordered(<<>>, <<>>, s.client[d])
      BY ONLY <2>2, <1>1, <1>8, d \in Clients DEF Answering
    <3> QED BY ONLY <3>2, <3>3
  <2> QED BY <2>1, <2>2 DEF Answering
<1> QED BY <1>9, <1>10, <1>11 DEF Sound

\* One slot read.
LEMMA ReadSound ==
  ASSUME NEW s, Sound(s), NEW i \in 1..Slots, s.slot[i].fd # 0, now \in Nat,
         NEW r \in ReadSlot(s, i)
  PROVE  /\ Sound(r)
         /\ \A j \in 1..Slots : j # i => r.slot[j] = s.slot[j]
         /\ \/ r = s
            \/ r.slot[i].fd = 0
            \/ Failed(s, r, i)
            \/ r.slot[i].got # <<>> /\ ~r.slot[i].got[1].runt
         /\ \E g \in Fds, d \in Clients :
              g = s.slot[i].fd /\ d = s.owner[g] /\ Reads(s, r, i, d)
<1>1. s \in Snapshot /\ Wired(s) /\ Standing(s) /\ Answering(s)
  BY DEF Sound
<1>2. PICK slots, owners, clients, queue, link :
        /\ slots \in [1..Slots -> Message]
        /\ owners \in [Fds -> Clients \cup {Nobody, Broker}]
        /\ clients \in [Clients -> Peer]
        /\ queue \in Seq(Clients)
        /\ link \in [fd : 0..Slots + 2, lost : BOOLEAN]
        /\ s = [slot |-> slots, owner |-> owners, client |-> clients, backlog |-> queue,
                broker |-> link]
  BY <1>1 DEF Snapshot
<1>3. PICK fd \in Fds, c \in Clients : fd = slots[i].fd /\ c = owners[fd]
  <2>1. PICK m \in Message : m = slots[i] /\ m.fd # 0
    BY <1>2
  <2>2. m.fd \in 0..Slots + 2
    BY DEF Message
  <2>3. slots[i].fd \in Fds
    BY <2>1, <2>2, Numbers, SMTT(20)
  <2> QED BY <2>3, <1>1, <1>2 DEF Wired
<1>4. fd = s.slot[i].fd /\ c = s.owner[fd]
  BY <1>2, <1>3
<1>5. CASE Whole(s.slot[i].got)
  <2>1. r = s
    BY <1>5 DEF ReadSlot
  <2>2. Reads(s, r, i, c)
    BY <2>1 DEF Reads
  <2> QED BY <2>1, <2>2, <1>4
<1>6. CASE ~Whole(s.slot[i].got) /\ s.client[c].out = <<>>
  <2>1. r = Hung(s, i)
    BY <1>2, <1>3, <1>6 DEF ReadSlot
  <2>2. Sound(Hung(s, i))
    BY HungSound
  <2>3. r.slot[i].fd = 0 /\ \A j \in 1..Slots : j # i => r.slot[j] = s.slot[j]
    BY ONLY <2>1, <1>4, <1>1, HungAt DEF HungFrom
  <2>4. Reads(s, r, i, c)
    BY ONLY <2>1, <1>6 DEF Reads
  <2> QED BY <2>1, <2>2, <2>3, <2>4, <1>4
<1>7. CASE ~Whole(s.slot[i].got) /\ s.client[c].out # <<>>
  <2>1. PICK m \in Message, p \in Peer : m = slots[i] /\ p = clients[c]
    BY <1>2
  <2>2. PICK got \in Seq(Piece), out \in Seq(Piece) : got = m.got /\ out = p.out
    BY DEF Message, Peer
  <2>3. PICK head \in Piece, rest \in Seq(Piece) : head = Head(out) /\ rest = Tail(out)
    <3>1. out # <<>>
      BY <2>1, <2>2, <1>2, <1>7
    <3>2. Head(out) \in Piece /\ Tail(out) \in Seq(Piece)
      BY <3>1
    <3> QED BY <3>2
  <2>a. PICK more \in Gained(p, got, head) :
          r = [s EXCEPT !.client[c].out = rest, !.slot[i] = Filled(m, more)]
    <3>1. /\ s.owner[s.slot[i].fd] = c /\ s.client[c].out = out /\ s.client[c] = p
          /\ s.slot[i].got = got /\ s.slot[i] = m
      BY <2>1, <2>2, <1>2, <1>3
    <3>2. PICK x \in Gained(s.client[s.owner[s.slot[i].fd]], s.slot[i].got,
                            Head(s.client[s.owner[s.slot[i].fd]].out)) :
            r = [s EXCEPT !.client[s.owner[s.slot[i].fd]].out =
                             Tail(s.client[s.owner[s.slot[i].fd]].out),
                          !.slot[i] = Filled(s.slot[i], x)]
      <4>1. ~Whole(s.slot[i].got) /\ s.client[s.owner[s.slot[i].fd]].out # <<>>
        BY <3>1, <1>7
      <4> QED BY ONLY <4>1, r \in ReadSlot(s, i) DEF ReadSlot
    <3>3. head = Head(s.client[c].out) /\ rest = Tail(s.client[c].out)
      BY <3>1, <2>3
    <3> QED BY ONLY <3>1, <3>2, <3>3
  <2>b. more \in Seq(Piece) /\ more # <<>>
    <3>1. PICK other \in Piece, runt \in Piece : /\ other = Request(head.by, 0)
                                                /\ runt = Runt(head.by, 0)
      BY DEF Request, Runt, Piece
    <3>2. \A x \in Piece : Append(got, x) \in Seq(Piece) /\ Append(got, x) # <<>>
      OBVIOUS
    <3>3. CASE ~p.astray
      BY <3>2, <3>3 DEF Gained
    <3>4. CASE p.astray /\ got = <<>>
      <4>1. more \in {<<other>>, <<runt>>}
        BY <3>1, <3>4 DEF Gained
      <4>2. \A x \in Piece : <<x>> \in Seq(Piece) /\ <<x>> # <<>>
        OBVIOUS
      <4> QED BY ONLY <4>1, <4>2, other \in Piece, runt \in Piece
    <3>5. CASE p.astray /\ got # <<>>
      <4>1. more \in {got, Append(got, other)}
        BY <3>1, <3>5 DEF Gained
      <4> QED BY ONLY <4>1, <3>2, <3>5, got \in Seq(Piece), other \in Piece
    <3> QED BY <3>3, <3>4, <3>5
  <2>4. Ordered(got, m.reply, p) /\ ~Whole(got) /\ out # <<>>
    BY <2>1, <2>2, <1>1, <1>2, <1>3, <1>7 DEF Answering
  <2>5. PICK rx \in Nat : rx = IF more[1].runt THEN m.rx ELSE now
    BY DEF Message
  <2>6. PICK reply \in Seq(Piece) : reply = IF Len(more) = 2 THEN <<more[1]>> ELSE m.reply
    <3>1. m.reply \in Seq(Piece)
      BY DEF Message
    <3>2. ASSUME 2 = Len(more) PROVE more[1] \in Piece
      <4>1. PICK l \in Nat : l = Len(more)
        BY <2>b
      <4>2. l = 2 /\ 1 \in 1..2
        <5>1. l = 2
          BY ONLY <4>1, <3>2
        <5> QED BY ONLY <5>1
      <4>3. \A j \in 1..l : more[j] \in Piece
        BY <4>1, <2>b
      <4> QED BY ONLY <4>2, <4>3
    <3>3. Len(more) = 2 => <<more[1]>> \in Seq(Piece)
      BY <3>2
    <3> QED BY <3>1, <3>3
  <2>7. PICK n \in Message : n = [fd |-> fd, rx |-> rx, got |-> more, reply |-> reply]
    <3>1. fd \in 0..Slots + 2
      BY Numbers
    <3>2. [fd |-> fd, rx |-> rx, got |-> more, reply |-> reply] \in Message
      BY <3>1, <2>b DEF Message
    <3> QED BY <3>2
  <2>8. PICK q \in Peer : q = [p EXCEPT !.out = rest]
    <3>1. [p EXCEPT !.out = rest] \in Peer
      BY DEF Peer
    <3> QED BY <3>1
  <2>9. q.out = rest /\ q.at = p.at /\ q.half = p.half /\ q.asked = p.asked /\ q.back = p.back
        /\ q.heard = p.heard /\ q.heir = p.heir /\ q.astray = p.astray
    BY <2>8 DEF Peer
  <2>10. Ordered(more, reply, q)
    BY <2>2, <2>3, <2>a, <2>4, <2>6, <2>9, OrderedRead
  <2>12. r = [slot |-> [slots EXCEPT ![i] = n], owner |-> owners,
              client |-> [clients EXCEPT ![c] = q], backlog |-> queue, broker |-> link]
    <3>1. [p EXCEPT !.out = rest] = q /\ clients[c] = p
      BY <2>1, <2>8
    <3>2. PICK b, y : m = [fd |-> fd, rx |-> b, got |-> got, reply |-> y] /\ b = m.rx /\ y = m.reply
      BY <2>1, <2>2, <1>3 DEF Message
    <3>3. PICK rxs, replies : /\ rxs = IF more[1].runt THEN b ELSE now
                              /\ replies = IF Len(more) = 2 THEN <<more[1]>> ELSE y
      BY Zenon
    <3>4. rxs = rx /\ replies = reply
      BY <3>2, <3>3, <2>5, <2>6
    <3>5. Filled(m, more) = [fd |-> fd, rx |-> rxs, got |-> more, reply |-> replies]
      <4>1. PICK f : f = [m EXCEPT !.got = more, !.rx = rxs, !.reply = replies]
        OBVIOUS
      <4>2. Filled(m, more) = f
        BY ONLY <3>2, <3>3, <4>1, Zenon DEF Filled
      <4>3. f = [fd |-> fd, rx |-> rxs, got |-> more, reply |-> replies]
        BY ONLY <3>2, <4>1
      <4> QED BY ONLY <4>2, <4>3
    <3>6. Filled(m, more) = n
      BY ONLY <3>4, <3>5, <2>7
    <3>7. r = [slot |-> [slots EXCEPT ![i] = n], owner |-> owners,
               client |-> [clients EXCEPT ![c].out = rest], backlog |-> queue, broker |-> link]
      BY ONLY <3>6, <2>a, <1>2
    <3>8. [clients EXCEPT ![c].out = rest] = [clients EXCEPT ![c] = q]
      BY ONLY <3>1
    <3> QED BY ONLY <3>7, <3>8
  <2>13. /\ [slots EXCEPT ![i] = n] \in [1..Slots -> Message]
         /\ [clients EXCEPT ![c] = q] \in [Clients -> Peer]
    BY <1>2
  <2>14. r \in Snapshot
    BY <2>12, <2>13, <1>2, SnapshotIs
  <2>15. /\ r.owner = s.owner /\ r.backlog = s.backlog /\ r.broker = s.broker
         /\ r.slot[i] = n /\ \A j \in 1..Slots : j # i => r.slot[j] = s.slot[j]
         /\ r.client[c] = q /\ \A d \in Clients : d # c => r.client[d] = s.client[d]
    BY <2>12, <1>2
  <2>16. n.fd = fd /\ n.got = more /\ n.reply = reply /\ n.rx = rx
    BY <2>7
  <2>17. Sound(r) /\ Works(s, r, i, c)
    <3>1. c = s.owner[s.slot[i].fd] /\ r.slot[i].fd = s.slot[i].fd
      BY <2>15, <2>16, <1>2, <1>3
    <3>2. /\ r.client[c].at = s.client[c].at /\ r.client[c].heard = s.client[c].heard
          /\ r.client[c].heir = s.client[c].heir
      BY <2>1, <2>9, <2>15, <1>2
    <3>3. Ordered(r.slot[i].got, r.slot[i].reply, r.client[c])
      BY <2>10, <2>15, <2>16, SMTT(20)
    <3>4. Works(s, r, i, c)
      BY ONLY <2>15, <3>1, <3>2, <3>3, s.slot[i].fd # 0 DEF Works
    <3> QED BY <2>14, <3>4, MessageSound
  <2>18. Eats(s, r, i, c)
    <3>1. s.client[c] = p /\ s.slot[i] = m
      BY <2>1, <1>2
    <3>2. s.client[c].out = out /\ s.slot[i].rx = m.rx
      BY ONLY <3>1, <2>2
    <3>3. r.client[c].out = rest /\ r.slot[i].rx = rx /\ r.slot[i].got = more
      BY ONLY <2>9, <2>15, <2>16
    <3> QED BY ONLY <3>2, <3>3, <2>3, <2>4, <2>5, <2>b DEF Eats
  <2>19. Reads(s, r, i, c)
    BY ONLY <2>17, <2>18 DEF Reads
  <2>20. Failed(s, r, i) \/ (r.slot[i].got # <<>> /\ ~r.slot[i].got[1].runt)
    <3>1. r.slot[i].got = more /\ s.slot[i].got = got
      BY <2>1, <2>2, <2>15, <2>16, <1>2
    <3>2. CASE more = got
      BY <3>1, <3>2, <2>4, <2>b DEF Whole
    <3>3. CASE more # got
      BY <3>1, <3>3, <2>b DEF Failed
    <3> QED BY <3>2, <3>3
  <2> QED BY <2>15, <2>17, <2>19, <2>20, <1>4
<1> QED BY <1>5, <1>6, <1>7

\* The reply written, or the connection found dead.
LEMMA WriteSound ==
  ASSUME NEW s, Sound(s), NEW i \in 1..Slots, s.slot[i].fd # 0,
         Ripe(s.slot[i].got, s.client[s.owner[s.slot[i].fd]]), NEW r \in WriteSlot(s, i)
  PROVE  /\ Sound(r) /\ \A j \in 1..Slots : j # i => r.slot[j] = s.slot[j]
         /\ \E g \in Fds, d \in Clients :
              g = s.slot[i].fd /\ d = s.owner[g] /\ Writes(s, r, i, d)
<1>1. s \in Snapshot /\ Wired(s) /\ Standing(s) /\ Answering(s)
  BY DEF Sound
<1>2. PICK slots, owners, clients, queue, link :
        /\ slots \in [1..Slots -> Message]
        /\ owners \in [Fds -> Clients \cup {Nobody, Broker}]
        /\ clients \in [Clients -> Peer]
        /\ queue \in Seq(Clients)
        /\ link \in [fd : 0..Slots + 2, lost : BOOLEAN]
        /\ s = [slot |-> slots, owner |-> owners, client |-> clients, backlog |-> queue,
                broker |-> link]
  BY <1>1 DEF Snapshot
<1>3. PICK fd \in Fds, c \in Clients : fd = slots[i].fd /\ c = owners[fd]
  <2>1. PICK m \in Message : m = slots[i] /\ m.fd # 0
    BY <1>2
  <2>2. m.fd \in 0..Slots + 2
    BY DEF Message
  <2>3. slots[i].fd \in Fds
    BY <2>1, <2>2, Numbers
  <2> QED BY <2>3, <1>1, <1>2 DEF Wired
<1>4. fd = s.slot[i].fd /\ c = s.owner[fd]
  BY <1>2, <1>3
<1>5. PICK m \in Message, p \in Peer : m = slots[i] /\ p = clients[c]
  BY <1>2
<1>a. PICK lost \in BOOLEAN : lost = (p.astray \/ (m.got # <<>> /\ ~Whole(m.got)))
  BY DEF Peer, Whole
<1>6. PICK written : written = [s EXCEPT !.client[c].back = p.back \o m.reply,
                                         !.client[c].astray = lost,
                                         !.slot[i].got = <<>>, !.slot[i].reply = <<>>]
  OBVIOUS
<1>7. CASE r = written
  <2>1. Ordered(m.got, m.reply, p) /\ Ripe(m.got, p)
    BY <1>1, <1>2, <1>3, <1>5 DEF Answering
  <2>2. PICK back \in Seq(Piece) : back = p.back \o m.reply
    <3>1. PICK x \in Seq(Piece), y \in Seq(Piece) : x = p.back /\ y = m.reply
      BY DEF Peer, Message
    <3>2. x \o y \in Seq(Piece)
      BY Joined
    <3> QED BY <3>1, <3>2
  <2>a. PICK spoken \in Peer : spoken = [p EXCEPT !.back = back]
    <3>1. [p EXCEPT !.back = back] \in Peer
      BY DEF Peer
    <3> QED BY <3>1
  <2>3. PICK q \in Peer : q = [spoken EXCEPT !.astray = lost]
    <3>1. [spoken EXCEPT !.astray = lost] \in Peer
      BY DEF Peer
    <3> QED BY <3>1
  <2>4. q.out = p.out /\ q.at = p.at /\ q.half = p.half /\ q.asked = p.asked /\ q.back = back
        /\ q.heard = p.heard /\ q.heir = p.heir /\ q.astray = lost
    BY <2>a, <2>3 DEF Peer
  <2>5. m.got \in Seq(Piece)
    BY DEF Message
  <2>6. Ordered(<<>>, <<>>, q)
    BY <2>1, <2>2, <2>4, <2>5, <1>a, OrderedWritten
  <2>7. PICK n \in Message : n = [[m EXCEPT !.got = <<>>] EXCEPT !.reply = <<>>]
    <3>1. <<>> \in Seq(Piece)
      OBVIOUS
    <3>2. [[m EXCEPT !.got = <<>>] EXCEPT !.reply = <<>>] \in Message
      BY <3>1 DEF Message
    <3> QED BY <3>2
  <2>8. n.fd = fd /\ n.got = <<>> /\ n.reply = <<>> /\ n.rx = m.rx
    BY <2>7, <1>3, <1>5 DEF Message
  <2>9. r = [slot |-> [slots EXCEPT ![i] = n], owner |-> owners,
             client |-> [clients EXCEPT ![c] = q], backlog |-> queue, broker |-> link]
    <3>1. PICK m1 : m1 = [m EXCEPT !.got = <<>>]
      OBVIOUS
    <3>2. n = [m1 EXCEPT !.reply = <<>>]
      BY <3>1, <2>7
    <3>3. [[slots EXCEPT ![i].got = <<>>] EXCEPT ![i].reply = <<>>] = [slots EXCEPT ![i] = n]
      <4>1. PICK f1, f2 : f1 = [slots EXCEPT ![i] = m1] /\ f2 = [f1 EXCEPT ![i] = n]
        OBVIOUS
      <4>2. f1[i] = m1 /\ f2 = [slots EXCEPT ![i] = n]
        BY <4>1, <1>2
      <4>3. f1 = [slots EXCEPT ![i].got = <<>>] /\ f2 = [f1 EXCEPT ![i].reply = <<>>]
        BY <3>1, <3>2, <4>1, <4>2, <1>5
      <4> QED BY ONLY <4>2, <4>3
    <3>4. [[clients EXCEPT ![c].back = back] EXCEPT ![c].astray = lost] =
            [clients EXCEPT ![c] = q]
      <4>1. PICK f1, f2 : f1 = [clients EXCEPT ![c] = spoken] /\ f2 = [f1 EXCEPT ![c] = q]
        OBVIOUS
      <4>2. f1[c] = spoken /\ f2 = [clients EXCEPT ![c] = q]
        BY <4>1, <1>2
      <4>3. f1 = [clients EXCEPT ![c].back = back] /\ f2 = [f1 EXCEPT ![c].astray = lost]
        BY <2>a, <2>3, <4>1, <4>2, <1>5
      <4> QED BY ONLY <4>2, <4>3
    <3>5. r = [slot |-> [[slots EXCEPT ![i].got = <<>>] EXCEPT ![i].reply = <<>>],
               owner |-> owners,
               client |-> [[clients EXCEPT ![c].back = back] EXCEPT ![c].astray = lost],
               backlog |-> queue, broker |-> link]
      BY ONLY <2>2, <1>2, <1>6, <1>7
    <3> QED BY ONLY <3>3, <3>4, <3>5
  <2>10. /\ [slots EXCEPT ![i] = n] \in [1..Slots -> Message]
         /\ [clients EXCEPT ![c] = q] \in [Clients -> Peer]
    BY <1>2
  <2>11. r \in Snapshot
    BY <2>9, <2>10, <1>2, SnapshotIs
  <2>12. /\ r.owner = s.owner /\ r.backlog = s.backlog /\ r.broker = s.broker
         /\ r.slot[i] = n /\ \A j \in 1..Slots : j # i => r.slot[j] = s.slot[j]
         /\ r.client[c] = q /\ \A d \in Clients : d # c => r.client[d] = s.client[d]
    BY <2>9, <1>2
  <2>13. Sound(r) /\ Works(s, r, i, c)
    <3>1. c = s.owner[s.slot[i].fd] /\ r.slot[i].fd = s.slot[i].fd
      BY <2>8, <2>12, <1>2, <1>3
    <3>2. /\ r.client[c].at = s.client[c].at /\ r.client[c].heard = s.client[c].heard
          /\ r.client[c].heir = s.client[c].heir
      BY <2>4, <2>12, <1>2, <1>5
    <3>3. Ordered(r.slot[i].got, r.slot[i].reply, r.client[c])
      BY <2>6, <2>8, <2>12
    <3>4. Works(s, r, i, c)
      BY ONLY <2>12, <3>1, <3>2, <3>3, s.slot[i].fd # 0 DEF Works
    <3> QED BY <2>11, <3>4, MessageSound
  <2>14. /\ r.client[c].out = s.client[c].out /\ r.slot[i].rx = s.slot[i].rx
         /\ r.slot[i].got = <<>>
    BY <2>4, <2>8, <2>12, <1>2, <1>5
  <2>15. Writes(s, r, i, c)
    BY ONLY <2>13, <2>14 DEF Writes
  <2> QED BY <2>12, <2>13, <2>15, <1>4
<1>8. CASE r = Hung(s, i) /\ p.at = "left"
  <2>1. PICK t : t = Hung(s, i) /\ \A j \in 1..Slots : j # i => t.slot[j] = s.slot[j]
    BY ONLY <1>4, <1>1, HungAt DEF HungFrom
  <2>2. s.client[c].at = "left"
    BY <1>2, <1>5, <1>8
  <2>3. Writes(s, r, i, c)
    BY ONLY <2>2, <1>8 DEF Writes
  <2> QED BY <2>1, <2>3, <1>8, <1>4, HungSound
<1>9. r = written \/ (r = Hung(s, i) /\ p.at = "left")
  <2>1. /\ s.client[c].at = p.at /\ s.slot[i].reply = m.reply /\ s.slot[i].got = m.got
        /\ s.client[c].back = p.back /\ s.client[c].astray = p.astray
    BY <1>2, <1>5
  <2>2. s.owner[s.slot[i].fd] = c
    BY <1>4
  <2>3. PICK w : w = [s EXCEPT !.client[c].back = s.client[c].back \o s.slot[i].reply,
                               !.client[c].astray = s.client[c].astray \/
                                  (s.slot[i].got # <<>> /\ ~Whole(s.slot[i].got)),
                               !.slot[i].got = <<>>, !.slot[i].reply = <<>>]
    OBVIOUS
  <2>4. w = written
    BY ONLY <2>1, <2>3, <1>6, <1>a
  <2>5. r \in IF s.client[c].at = "left" THEN {w, Hung(s, i)} ELSE {w}
    BY <2>2, <2>3, <1>2 DEF WriteSlot
  <2>6. r = w \/ (r = Hung(s, i) /\ s.client[c].at = "left")
    BY ONLY <2>5
  <2> QED BY ONLY <2>1, <2>4, <2>6
<1> QED BY <1>7, <1>8, <1>9

-----------------------------------------------------------------------------
(***************************************************************************)
(* Who was silent longest: through a turn, a slot remembers when its       *)
(* client was heard, and whoever is put out was the one silent longest.    *)
(***************************************************************************)

\* Client c has slot i.
Has(s, i, c) == s.slot[i].fd \in Fds /\ s.owner[s.slot[i].fd] = c

Aged(s) == \A i \in 1..Slots, c \in Clients : Has(s, i, c) => s.slot[i].rx = s.client[c].heard

\* In a turn that began in z and has reached s, with slot k to be served next,
\* client c in slot i was accepted in this turn, or was there before.
Newcomer(z, s, i, c) ==
  /\ z.backlog # <<>> /\ s.backlog = Tail(z.backlog) /\ c = Head(z.backlog)
  /\ s.slot[i].rx = now
Stays(z, s, i, c, k) ==
  /\ Has(z, i, c) /\ s.slot[i].fd = z.slot[i].fd
  /\ s.client[c].at = z.client[c].at /\ s.client[c].heard = z.client[c].heard
  /\ \/ s.client[c].out = z.client[c].out /\ s.slot[i].rx = z.slot[i].rx
     \/ i < k /\ Eats(z, s, i, c)

\* Nobody has a slot and was silent longer than c, and somebody waits for one.
Idlest(z, c) ==
  /\ z.backlog # <<>>
  /\ \E v \in 1..Slots :
       Has(z, v, c) /\ \A j \in 1..Slots : z.slot[j].fd # 0 /\ z.slot[v].rx <= z.slot[j].rx

Aging(z, s, k) ==
  /\ \A i \in 1..Slots, c \in Clients :
       Has(s, i, c) => Newcomer(z, s, i, c) \/ Stays(z, s, i, c, k)
  /\ \A c \in Clients : z.client[c].at = "in" /\ s.client[c].at = "dropped" => Idlest(z, c)
  /\ z.backlog = <<>> => s.backlog = <<>>

\* select() named a client's descriptor because it had sent something or left.
Selected(z, reads) ==
  \A i \in 1..Slots, c \in Clients :
    Has(z, i, c) /\ z.slot[i].fd \in reads => z.client[c].out # <<>> \/ z.client[c].at = "left"

\* A slot in use is some client's.
LEMMA HasOne ==
  ASSUME NEW s, Sound(s), NEW i \in 1..Slots
  PROVE  /\ s.slot[i].fd # 0 <=> \E c \in Clients : Has(s, i, c)
         /\ \A j \in 1..Slots, c \in Clients : Has(s, i, c) /\ Has(s, j, c) => i = j
<1>1. s \in Snapshot /\ Wired(s)
  BY DEF Sound
<1>2. s.slot[i].fd # 0 <=> s.slot[i].fd \in Fds
  BY <1>1, Numbers DEF Snapshot, Message
<1>3. ASSUME s.slot[i].fd # 0 PROVE \E c \in Clients : Has(s, i, c)
  <2>1. PICK g \in Fds : g = s.slot[i].fd
    BY <1>2, <1>3
  <2>2. s.owner[g] \in Clients
    BY <1>1, <1>3, <2>1 DEF Wired
  <2> QED BY <2>1, <2>2 DEF Has
<1>4. ASSUME NEW j \in 1..Slots, NEW c \in Clients, Has(s, i, c), Has(s, j, c) PROVE i = j
  <2>1. PICK g \in Fds, h \in Fds : /\ g = s.slot[i].fd /\ h = s.slot[j].fd
                                    /\ s.owner[g] = c /\ s.owner[h] = c
    BY <1>4 DEF Has
  <2>2. g = h /\ g # 0
    BY <1>1, <2>1, Numbers DEF Wired
  <2> QED BY <1>1, <2>1, <2>2 DEF Wired
<1> QED BY <1>2, <1>3, <1>4 DEF Has

\* The client first in the backlog has no slot.
LEMMA HeadWaits ==
  ASSUME NEW z, Sound(z), z.backlog # <<>>, NEW c, c = Head(z.backlog)
  PROVE  /\ c \in Clients /\ z.client[c].at \in {"waiting", "left"}
         /\ \A i \in 1..Slots : ~Has(z, i, c)
<1>1. z \in Snapshot /\ Standing(z)
  BY DEF Sound
<1>2. PICK q \in Seq(Clients) : q = z.backlog /\ q # <<>>
  BY <1>1 DEF Snapshot
<1>3. c \in Clients /\ 1 \in DOMAIN q /\ c = q[1]
  BY <1>2
<1>4. z.client[c].at \in {"waiting", "left"} /\ \A g \in Fds : z.owner[g] # c
  BY <1>1, <1>2, <1>3 DEF Standing
<1> QED BY <1>3, <1>4 DEF Has

\* What does not move ages as before.
LEMMA AgesAlike ==
  ASSUME NEW z, NEW s, NEW r, NEW i \in 1..Slots, NEW c \in Clients, NEW k \in Nat, NEW l \in Nat,
         k <= l, r.slot[i] = s.slot[i], r.client[c] = s.client[c],
         r.backlog = s.backlog,
         Newcomer(z, s, i, c) \/ Stays(z, s, i, c, k)
  PROVE  Newcomer(z, r, i, c) \/ Stays(z, r, i, c, l)
<1>1. CASE Newcomer(z, s, i, c)
  BY <1>1 DEF Newcomer
<1>2. CASE Stays(z, s, i, c, k)
  <2>1. /\ Has(z, i, c) /\ r.slot[i].fd = z.slot[i].fd
        /\ r.client[c].at = z.client[c].at /\ r.client[c].heard = z.client[c].heard
    BY <1>2 DEF Stays
  <2>2. i < k => i < l
    BY Numbers
  <2>3. Eats(z, s, i, c) => Eats(z, r, i, c)
    BY DEF Eats
  <2> QED BY <1>2, <2>1, <2>2, <2>3 DEF Stays
<1> QED BY <1>1, <1>2

\* A connection closed: its client was not in when the turn began, or was the
\* one silent longest.
LEMMA AgingHung ==
  ASSUME NEW z, NEW s, Sound(s), NEW k \in Nat, Aging(z, s, k), NEW i \in 1..Slots,
         NEW c \in Clients, Has(s, i, c), z.client[c].at # "in" \/ Idlest(z, c)
  PROVE  \E h : /\ h = Hung(s, i) /\ Aging(z, h, k) /\ Sound(h) /\ h.backlog = s.backlog
                /\ h.slot[i].fd = 0 /\ \A g \in Fds : s.owner[g] = Nobody => h.owner[g] = Nobody
<1>1. s \in Snapshot /\ Wired(s)
  BY DEF Sound
<1>2. PICK fd \in Fds : fd = s.slot[i].fd /\ c = s.owner[fd]
  BY SMTT(20) DEF Has
<1>3. PICK h : /\ h = Hung(s, i) /\ h.backlog = s.backlog
               /\ h.slot[i].fd = 0 /\ \A j \in 1..Slots : j # i => h.slot[j] = s.slot[j]
               /\ h.owner[fd] = Nobody /\ \A g \in Fds : g # fd => h.owner[g] = s.owner[g]
               /\ \A d \in Clients : d # c => h.client[d] = s.client[d]
  <2>1. PICK h : h = Hung(s, i)
    OBVIOUS
  <2>2. HungFrom(s, h, i, fd, c)
    BY <2>1, <1>1, <1>2, HungAt
  <2> QED BY ONLY <2>1, <2>2 DEF HungFrom
<1>4. ASSUME NEW j \in 1..Slots, NEW d \in Clients, Has(h, j, d)
      PROVE  j # i /\ d # c /\ Has(s, j, d)
  <2>1. PICK g \in Fds : g = h.slot[j].fd /\ h.owner[g] = d
    BY <1>4 DEF Has
  <2>2. j # i /\ g # fd
    BY <2>1, <1>3, Numbers
  <2>3. g = s.slot[j].fd /\ s.owner[g] = d
    BY <2>1, <2>2, <1>3
  <2>4. Has(s, j, d)
    BY <2>3 DEF Has
  <2>5. d # c
    BY <2>2, <2>4, HasOne
  <2> QED BY <2>2, <2>4, <2>5
<1>5. ASSUME NEW j \in 1..Slots, NEW d \in Clients, Has(h, j, d)
      PROVE  Newcomer(z, h, j, d) \/ Stays(z, h, j, d, k)
  <2>1. /\ h.slot[j] = s.slot[j] /\ h.client[d] = s.client[d] /\ h.backlog = s.backlog
        /\ k <= k
    BY <1>3, <1>4, <1>5
  <2>2. Newcomer(z, s, j, d) \/ Stays(z, s, j, d, k)
    BY <1>4, <1>5 DEF Aging
  <2> QED BY ONLY <2>1, <2>2, k \in Nat, j \in 1..Slots, d \in Clients, AgesAlike
<1>6. ASSUME NEW d \in Clients, z.client[d].at = "in", h.client[d].at = "dropped"
      PROVE  Idlest(z, d)
  <2>1. CASE d = c
    BY <2>1, <1>6
  <2>2. CASE d # c
    <3>1. s.client[d].at = "dropped"
      BY <2>2, <1>3, <1>6
    <3> QED BY <3>1, <1>6 DEF Aging
  <2> QED BY <2>1, <2>2
<1>7. Aging(z, h, k)
  BY <1>3, <1>5, <1>6 DEF Aging
<1>8. Sound(h)
  BY <1>2, <1>3, HungSound, Numbers
<1>9. \A g \in Fds : s.owner[g] = Nobody => h.owner[g] = Nobody
  BY <1>3
<1> QED BY <1>3, <1>7, <1>8, <1>9

\* Who was taken from a queue leaves it shorter.
LEMMA Shorter ==
  ASSUME NEW S, NEW q \in Seq(S), q # <<>>
  PROVE  Tail(q) # q
<1>1. PICK n \in Nat : n = Len(q)
  OBVIOUS
<1>2. Len(Tail(q)) = n - 1
  BY <1>1
<1>3. n - 1 # n
  OBVIOUS
<1>4. Len(Tail(q)) # Len(q)
  BY ONLY <1>1, <1>2, <1>3
<1> QED BY ONLY <1>4

\* A client accepted.
LEMMA AgingTaken ==
  ASSUME NEW z, NEW s, Sound(z), Sound(s), Aging(z, s, 1), s.backlog = z.backlog,
         z.backlog # <<>>, NEW i \in 1..Slots, s.slot[i].fd = 0,
         NEW fd \in Fds, s.owner[fd] = Nobody, now \in Nat, NEW writes
  PROVE  Aging(z, Taken(s, i, fd, Free, writes), 1)
<1>1. s \in Snapshot /\ Wired(s)
  BY DEF Sound
<1>2. PICK t, c :
        /\ t = Taken(s, i, fd, Free, writes) /\ c = Head(s.backlog) /\ c \in Clients
        /\ t.backlog = Tail(s.backlog) /\ t.slot[i].fd = fd /\ t.slot[i].rx = now
        /\ \A j \in 1..Slots : j # i => t.slot[j] = s.slot[j]
        /\ t.owner[fd] = c /\ \A g \in Fds : g # fd => t.owner[g] = s.owner[g]
        /\ \A d \in Clients : d # c => t.client[d] = s.client[d]
  BY <1>1, TakenIs
<1>3. c = Head(z.backlog) /\ z.client[c].at # "in"
  BY <1>2, HeadWaits
<1>4. \A j \in 1..Slots : ~Has(s, j, c)
  BY <1>2, HeadWaits
<1>5. ASSUME NEW j \in 1..Slots, NEW d \in Clients, Has(t, j, d), j # i
      PROVE  Has(s, j, d) /\ d # c
  <2>1. PICK g \in Fds : g = t.slot[j].fd /\ t.owner[g] = d
    BY <1>5 DEF Has
  <2>2. g = s.slot[j].fd /\ g # 0
    BY <2>1, <1>2, <1>5, Numbers
  <2>3. s.owner[g] \in Clients
    BY <2>2, <1>1 DEF Wired
  <2>4. g # fd
    BY <2>3, Numbers
  <2>5. Has(s, j, d)
    BY <2>1, <2>2, <2>4, <1>2 DEF Has
  <2> QED BY <2>5, <1>4
<1>6. \A j \in 1..Slots, d \in Clients : ~Newcomer(z, s, j, d)
  <2> SUFFICES ASSUME NEW j \in 1..Slots, NEW d \in Clients, Newcomer(z, s, j, d) PROVE FALSE
    OBVIOUS
  <2>1. PICK q \in Seq(Clients) : q = z.backlog
    BY DEF Sound, Snapshot
  <2>2. Tail(q) # q
    BY <2>1, Shorter
  <2> QED BY <2>1, <2>2 DEF Newcomer
<1>7. ASSUME NEW j \in 1..Slots, NEW d \in Clients, Has(t, j, d)
      PROVE  Newcomer(z, t, j, d) \/ Stays(z, t, j, d, 1)
  <2>1. CASE j = i
    <3>1. d = c
      BY <2>1, <1>2, <1>7 DEF Has
    <3> QED BY <2>1, <3>1, <1>2, <1>3 DEF Newcomer
  <2>2. CASE j # i
    <3>1. Has(s, j, d) /\ d # c
      BY <2>2, <1>5, <1>7
    <3>2. Stays(z, s, j, d, 1)
      BY <3>1, <1>6 DEF Aging
    <3>3. t.slot[j] = s.slot[j] /\ t.client[d] = s.client[d]
      BY <2>2, <3>1, <1>2
    <3>4. ~(j < 1)
      BY Numbers
    <3> QED BY ONLY <3>2, <3>3, <3>4 DEF Stays
  <2> QED BY <2>1, <2>2
<1>8. ASSUME NEW d \in Clients, z.client[d].at = "in", t.client[d].at = "dropped"
      PROVE  Idlest(z, d)
  <2>1. d # c
    BY <1>3, <1>8
  <2>2. s.client[d].at = "dropped"
    BY <2>1, <1>2, <1>8
  <2> QED BY <2>2, <1>8 DEF Aging
<1> QED BY <1>2, <1>7, <1>8 DEF Aging

\* The device's own connection leaves the clients' alone.
LEMMA AgingStart ==
  ASSUME NEW z, Sound(z), NEW r \in EmuServiced(z), NEW writes, writes \subseteq Fds, Due(z, 1, writes)
  PROVE  /\ Sound(r) /\ Aging(z, r, 1) /\ r.slot = z.slot /\ r.backlog = z.backlog
         /\ \A j \in 1..Slots, d \in Clients : Has(r, j, d) => Has(z, j, d)
<1>1. /\ Sound(r) /\ r.slot = z.slot /\ r.client = z.client /\ r.backlog = z.backlog
      /\ \A g \in Fds : r.owner[g] \in Clients => r.owner[g] = z.owner[g]
  BY EmuSound
<1>2. ASSUME NEW j \in 1..Slots, NEW d \in Clients, Has(r, j, d)
      PROVE  Has(z, j, d)
  BY <1>1, <1>2 DEF Has
<1>3. ASSUME NEW j \in 1..Slots, NEW d \in Clients, Has(r, j, d)
      PROVE  Stays(z, r, j, d, 1)
  BY <1>1, <1>2, <1>3 DEF Stays
<1>4. \A d \in Clients : ~(z.client[d].at = "in" /\ r.client[d].at = "dropped")
  BY <1>1
<1>5. Aging(z, r, 1)
  BY <1>1, <1>3, <1>4 DEF Aging
<1> QED BY <1>1, <1>2, <1>5

\* accept(): only the client silent longest is put out, and only for another.
LEMMA AgingAccepted ==
  ASSUME NEW z, Sound(z), NEW s \in EmuServiced(z), NEW writes, writes \subseteq Fds,
         Due(z, 1, writes), now \in Nat
  PROVE  Aging(z, Accepted(s, writes), 1)
<1>1. /\ Sound(s) /\ Aging(z, s, 1) /\ s.slot = z.slot /\ s.backlog = z.backlog
      /\ \A j \in 1..Slots, d \in Clients : Has(s, j, d) => Has(z, j, d)
  BY AgingStart
<1>2. s \in Snapshot /\ Wired(s)
  BY <1>1 DEF Sound
<1>3. PICK i, fd : i = Victim(s) /\ fd = LowestFree(s)
  OBVIOUS
<1>4. i \in 1..Slots /\ fd \in Fds /\ s.owner[fd] = Nobody
  BY <1>2, <1>3, VictimIs, LowestFreeIs
<1>5. CASE s.backlog = <<>>
  BY <1>1, <1>5 DEF Accepted
<1>6. CASE s.backlog # <<>> /\ s.slot[i].fd = 0
  <2>1. Accepted(s, writes) = Taken(s, i, fd, Free, writes)
    BY <1>3, <1>6 DEF Accepted
  <2>2. Aging(z, Taken(s, i, fd, Free, writes), 1)
    BY <1>1, <1>4, <1>6, AgingTaken
  <2> QED BY <2>1, <2>2
<1>7. CASE s.backlog # <<>> /\ s.slot[i].fd # 0
  <2>1. PICK c \in Clients : Has(s, i, c)
    BY <1>1, <1>4, <1>7, HasOne
  <2>2. Idlest(z, c)
    <3>1. \A j \in 1..Slots : s.slot[j].fd # 0 /\ s.slot[i].rx <= s.slot[j].rx
      BY <1>2, <1>3, <1>7, VictimIs
    <3>2. Has(z, i, c)
      BY <1>1, <1>4, <2>1
    <3> QED BY <3>1, <3>2, <1>1, <1>4, <1>7 DEF Idlest
  <2>3. PICK h : /\ h = Hung(s, i) /\ Aging(z, h, 1) /\ Sound(h) /\ h.backlog = s.backlog
                 /\ h.slot[i].fd = 0
                 /\ \A g \in Fds : s.owner[g] = Nobody => h.owner[g] = Nobody
    <3>1. 1 \in Nat
      OBVIOUS
    <3> QED BY <3>1, <2>1, <2>2, <1>1, <1>4, AgingHung
  <2>4. Accepted(s, writes) = Taken(Closed(s, s.slot[i].fd), i, fd, Free, writes)
    BY <1>3, <1>7 DEF Accepted
  <2>5. s.owner[s.slot[i].fd] \in Clients
    BY <2>1 DEF Has
  <2>6. Accepted(s, writes) = Taken(h, i, fd, Free, writes)
    BY <2>3, <2>4, <2>5, <1>2, <1>4, <1>7, TakenOver
  <2>7. Aging(z, Taken(h, i, fd, Free, writes), 1)
    BY <2>3, <1>1, <1>4, <1>7, AgingTaken
  <2> QED BY <2>6, <2>7
<1> QED BY <1>5, <1>6, <1>7

\* A slot that has been served counts as one that may have been.
LEMMA AgingLater ==
  ASSUME NEW z, NEW s, NEW k \in Nat, Aging(z, s, k)
  PROVE  Aging(z, s, k + 1)
<1>1. k + 1 \in Nat /\ k <= k + 1
  OBVIOUS
<1>2. ASSUME NEW j \in 1..Slots, NEW d \in Clients, Has(s, j, d)
      PROVE  Newcomer(z, s, j, d) \/ Stays(z, s, j, d, k + 1)
  <2>1. Newcomer(z, s, j, d) \/ Stays(z, s, j, d, k)
    BY <1>2 DEF Aging
  <2> QED BY <2>1, <1>1, AgesAlike
<1> QED BY <1>2 DEF Aging

\* A slot worked on: it is enough to look at its own client.
LEMMA AgingWorks ==
  ASSUME NEW z, NEW s, Sound(s), NEW r, NEW k \in Nat, Aging(z, s, k), NEW i \in 1..Slots,
         NEW c \in Clients, Has(s, i, c), Works(s, r, i, c),
         Newcomer(z, r, i, c) \/ Stays(z, r, i, c, k)
  PROVE  Aging(z, r, k)
<1>1. /\ r.owner = s.owner /\ r.backlog = s.backlog
      /\ r.slot[i].fd = s.slot[i].fd /\ \A j \in 1..Slots : j # i => r.slot[j] = s.slot[j]
  BY ONLY Works(s, r, i, c), Zenon DEF Works
<1>2. r.client[c].at = s.client[c].at /\ \A d \in Clients : d # c => r.client[d] = s.client[d]
  BY ONLY Works(s, r, i, c), Zenon DEF Works
<1>3. ASSUME NEW j \in 1..Slots, NEW d \in Clients, Has(r, j, d)
      PROVE  Has(s, j, d)
  <2>1. r.slot[j].fd = s.slot[j].fd
    BY <1>1
  <2> QED BY ONLY <2>1, <1>1, <1>3 DEF Has
<1>4. ASSUME NEW j \in 1..Slots, NEW d \in Clients, Has(r, j, d)
      PROVE  Newcomer(z, r, j, d) \/ Stays(z, r, j, d, k)
  <2>1. CASE j = i
    <3>1. d = c
      BY ONLY <2>1, <1>1, <1>3, <1>4, Has(s, i, c), i \in 1..Slots, d \in Clients DEF Has
    <3> QED BY <2>1, <3>1
  <2>2. CASE j # i
    <3>1. d # c
      BY <2>2, <1>3, <1>4, HasOne
    <3>2. r.slot[j] = s.slot[j] /\ r.client[d] = s.client[d]
      BY ONLY <2>2, <3>1, <1>1, <1>2, j \in 1..Slots, d \in Clients
    <3>3. Newcomer(z, s, j, d) \/ Stays(z, s, j, d, k)
      BY <1>3, <1>4 DEF Aging
    <3>4. k <= k
      OBVIOUS
    <3>5. r.backlog = s.backlog
      BY ONLY <1>1
    <3> QED BY ONLY <3>2, <3>3, <3>4, <3>5, k \in Nat, j \in 1..Slots, d \in Clients, AgesAlike
  <2> QED BY <2>1, <2>2
<1>5. \A d \in Clients : r.client[d].at = s.client[d].at
  BY ONLY <1>2
<1>6. \A d \in Clients : z.client[d].at = "in" /\ r.client[d].at = "dropped" => Idlest(z, d)
  BY <1>5 DEF Aging
<1>7. z.backlog = <<>> => r.backlog = <<>>
  BY <1>1 DEF Aging
<1> QED BY <1>4, <1>6, <1>7 DEF Aging

\* A slot read.
LEMMA AgingRead ==
  ASSUME NEW z, Sound(z), NEW reads, Selected(z, reads), NEW s, Sound(s),
         NEW i \in 1..Slots, Aging(z, s, i), s.slot[i].fd \in reads, s.slot[i].fd # 0,
         now \in Nat, NEW r \in ReadSlot(s, i)
  PROVE  Aging(z, r, i + 1)
<1>1. \E g \in Fds, d \in Clients :
        g = s.slot[i].fd /\ d = s.owner[g] /\ Reads(s, r, i, d)
  BY ReadSound
<1>2. PICK c \in Clients : Has(s, i, c) /\ Reads(s, r, i, c)
  BY <1>1 DEF Has
<1>3. i \in Nat /\ i + 1 \in Nat /\ i < i + 1 /\ ~(i < i)
  BY Numbers
<1>4. Newcomer(z, s, i, c) \/ Stays(z, s, i, c, i)
  BY <1>2 DEF Aging
<1>5. Aging(z, s, i + 1)
  BY <1>3, AgingLater
<1>6. CASE r = s
  BY <1>5, <1>6
<1>7. CASE r = Hung(s, i) /\ s.client[c].out = <<>>
  <2>1. CASE Newcomer(z, s, i, c)
    <3>1. z.client[c].at # "in"
      BY <2>1, HeadWaits DEF Newcomer
    <3> QED BY <3>1, <1>1, <1>2, <1>3, <1>5, <1>7, AgingHung
  <2>2. CASE Stays(z, s, i, c, i)
    <3>1. /\ Has(z, i, c) /\ z.slot[i].fd \in reads
          /\ s.client[c].out = z.client[c].out
      BY <2>2, <1>3 DEF Stays
    <3>2. z.client[c].at = "left"
      BY <3>1, <1>7, Zenon DEF Selected
    <3>3. z.client[c].at # "in"
      BY <3>2
    <3> QED BY <3>3, <1>1, <1>2, <1>3, <1>5, <1>7, AgingHung
  <2> QED BY <1>4, <2>1, <2>2
<1>8. CASE Works(s, r, i, c) /\ Eats(s, r, i, c)
  <2>1. r.backlog = s.backlog /\ r.slot[i].fd = s.slot[i].fd
    BY ONLY <1>8, Zenon DEF Works
  <2>2. r.client[c].at = s.client[c].at /\ r.client[c].heard = s.client[c].heard
    BY ONLY <1>8, Zenon DEF Works
  <2>3. CASE Newcomer(z, s, i, c)
    <3>1. Newcomer(z, r, i, c)
      <4>1. s.slot[i].rx = now
        BY <2>3 DEF Newcomer
      <4>2. r.slot[i].rx = now
        BY ONLY <4>1, <1>8 DEF Eats
      <4> QED BY ONLY <4>2, <2>1, <2>3 DEF Newcomer
    <3> QED BY <3>1, <1>1, <1>2, <1>3, <1>5, <1>8, AgingWorks
  <2>4. CASE Stays(z, s, i, c, i)
    <3>1. /\ Has(z, i, c) /\ s.slot[i].fd = z.slot[i].fd
          /\ s.client[c].at = z.client[c].at /\ s.client[c].heard = z.client[c].heard
          /\ s.client[c].out = z.client[c].out /\ s.slot[i].rx = z.slot[i].rx
      BY ONLY <2>4, <1>3 DEF Stays
    <3>2. Eats(z, r, i, c)
      BY ONLY <3>1, <1>8 DEF Eats
    <3>3. Stays(z, r, i, c, i + 1)
      BY ONLY <3>1, <3>2, <2>1, <2>2, <1>3 DEF Stays
    <3> QED BY <3>3, <1>1, <1>2, <1>3, <1>5, <1>8, AgingWorks
  <2> QED BY <1>4, <2>3, <2>4
<1> QED BY <1>2, <1>6, <1>7, <1>8 DEF Reads

\* A slot written.
LEMMA AgingWrite ==
  ASSUME NEW z, Sound(z), NEW s, Sound(s), NEW k \in Nat, Aging(z, s, k), NEW i \in 1..Slots,
         s.slot[i].fd # 0, Ripe(s.slot[i].got, s.client[s.owner[s.slot[i].fd]]),
         \A c \in Clients :
           Has(s, i, c) => \/ Newcomer(z, s, i, c) \/ Stays(z, s, i, c, i)
                           \/ s.slot[i].got = <<>> \/ ~s.slot[i].got[1].runt,
         NEW r \in WriteSlot(s, i)
  PROVE  Aging(z, r, k)
<1>1. \E g \in Fds, d \in Clients :
        g = s.slot[i].fd /\ d = s.owner[g] /\ Writes(s, r, i, d)
  BY WriteSound
<1>2. PICK c \in Clients : Has(s, i, c) /\ Writes(s, r, i, c)
  BY <1>1 DEF Has
<1>3. Newcomer(z, s, i, c) \/ Stays(z, s, i, c, k)
  BY <1>2 DEF Aging
<1>4. CASE r = Hung(s, i) /\ s.client[c].at = "left"
  <2>1. z.client[c].at # "in"
    <3>1. CASE Newcomer(z, s, i, c)
      BY <3>1, HeadWaits DEF Newcomer
    <3>2. CASE Stays(z, s, i, c, k)
      <4>1. s.client[c].at = z.client[c].at
        BY <3>2 DEF Stays
      <4>2. z.client[c].at = "left"
        BY ONLY <4>1, <1>4
      <4> QED BY <4>2
    <3> QED BY <1>3, <3>1, <3>2
  <2> QED BY <2>1, <1>2, <1>4, AgingHung
<1>5. CASE /\ Works(s, r, i, c) /\ r.client[c].out = s.client[c].out
           /\ r.slot[i].rx = s.slot[i].rx /\ r.slot[i].got = <<>>
  <2>1. r.backlog = s.backlog /\ r.slot[i].fd = s.slot[i].fd
    BY ONLY <1>5, Zenon DEF Works
  <2>2. r.client[c].at = s.client[c].at /\ r.client[c].heard = s.client[c].heard
    BY ONLY <1>5, Zenon DEF Works
  <2>3. Newcomer(z, s, i, c) => Newcomer(z, r, i, c)
    BY ONLY <2>1, <1>5 DEF Newcomer
  <2>4. ASSUME Stays(z, s, i, c, k), ~Newcomer(z, s, i, c)
        PROVE  Stays(z, r, i, c, k)
    <3>1. /\ Has(z, i, c) /\ r.slot[i].fd = z.slot[i].fd
          /\ r.client[c].at = z.client[c].at /\ r.client[c].heard = z.client[c].heard
      BY ONLY <2>1, <2>2, <2>4 DEF Stays
    <3>2. CASE s.client[c].out = z.client[c].out /\ s.slot[i].rx = z.slot[i].rx
      BY ONLY <3>1, <3>2, <1>5 DEF Stays
    <3>3. CASE /\ i < k /\ Eats(z, s, i, c)
               /\ ~(s.client[c].out = z.client[c].out /\ s.slot[i].rx = z.slot[i].rx)
      <4>1. ~(i < i)
        BY Numbers
      <4>2. ~Stays(z, s, i, c, i)
        BY ONLY <3>3, <4>1 DEF Stays
      <4>3. s.slot[i].got = <<>> \/ ~s.slot[i].got[1].runt
        BY <4>2, <2>4, <1>2
      <4>4. Eats(z, r, i, c)
        BY ONLY <4>3, <3>3, <1>5 DEF Eats
      <4> QED BY ONLY <3>1, <3>3, <4>4 DEF Stays
    <3> QED BY ONLY <3>2, <3>3, <2>4 DEF Stays
  <2>5. Newcomer(z, r, i, c) \/ Stays(z, r, i, c, k)
    BY ONLY <2>3, <2>4, <1>3
  <2> QED BY <2>5, <1>2, <1>5, AgingWorks
<1> QED BY <1>2, <1>4, <1>5 DEF Writes

-----------------------------------------------------------------------------
(***************************************************************************)
(* A whole turn.                                                           *)
(***************************************************************************)
\* The clients of the other slots are left alone.
Aside(s, r, i) ==
  \A j \in 1..Slots :
    j # i /\ s.slot[j].fd # 0 =>
      r.client[r.owner[s.slot[j].fd]] = s.client[s.owner[s.slot[j].fd]]

\* A slot read, written or closed: the others keep their clients.
LEMMA Apart ==
  ASSUME NEW s, Sound(s), NEW i \in 1..Slots, NEW r, NEW fd \in Fds, NEW c \in Clients,
         fd = s.slot[i].fd, c = s.owner[fd], Reads(s, r, i, c) \/ Writes(s, r, i, c)
  PROVE  Aside(s, r, i)
<1>1. s \in Snapshot /\ Wired(s)
  BY DEF Sound
<1>2. /\ \A g \in Fds : g # fd => r.owner[g] = s.owner[g]
      /\ \A d \in Clients : d # c => r.client[d] = s.client[d]
  <2>1. CASE r = s
    BY <2>1
  <2>2. CASE r = Hung(s, i)
    <3>1. HungFrom(s, r, i, fd, c)
      BY <1>1, <2>2, HungAt
    <3> QED BY ONLY <3>1 DEF HungFrom
  <2>3. CASE Works(s, r, i, c)
    BY ONLY <2>3, Zenon DEF Works
  <2> QED BY <2>1, <2>2, <2>3 DEF Reads, Writes
<1>3. ASSUME NEW j \in 1..Slots, j # i, s.slot[j].fd # 0
      PROVE  r.client[r.owner[s.slot[j].fd]] = s.client[s.owner[s.slot[j].fd]]
  <2>1. PICK g \in Fds : g = s.slot[j].fd
    BY <1>1, <1>3, Numbers DEF Snapshot, Message
  <2>2. g # fd /\ s.owner[g] \in Clients
    BY <1>1, <1>3, <2>1 DEF Wired
  <2>3. s.owner[g] # c
    BY <1>1, <2>2 DEF Wired
  <2>4. r.owner[g] = s.owner[g] /\ r.client[s.owner[g]] = s.client[s.owner[g]]
    BY ONLY <1>2, <2>2, <2>3
  <2> QED BY ONLY <2>1, <2>4
<1> QED BY <1>3 DEF Aside

\* One slot in one turn.
LEMMA ServedSound ==
  ASSUME NEW z, Sound(z), NEW reads, Selected(z, reads), NEW s, Sound(s), NEW i \in 1..Slots,
         Aging(z, s, i), NEW writes, reads \subseteq Fds, writes \subseteq Fds,
         Due(s, i, writes), now \in Nat, NEW r \in Served(s, i, reads, writes)
  PROVE  Sound(r) /\ Due(r, i + 1, writes) /\ Aging(z, r, i + 1)
<1>1. PICK t \in IF s.slot[i].fd \in reads THEN ReadSlot(s, i) ELSE {s} :
        \/ t.slot[i].fd \in writes /\ ~Failed(s, t, i) /\ r \in WriteSlot(t, i)
        \/ r = t
  BY Zenon DEF Served
<1>2. i \in Nat /\ i + 1 \in Nat /\ i \in i..Slots /\ ~(0 \in reads) /\ ~(0 \in writes)
  BY Numbers
<1>3. \/ t = s
      \/ s.slot[i].fd \in reads /\ s.slot[i].fd # 0 /\ t \in ReadSlot(s, i)
  BY <1>1, <1>2
<1>4. /\ Sound(t) /\ \A j \in 1..Slots : j # i => t.slot[j] = s.slot[j]
      /\ \/ t = s
         \/ t.slot[i].fd = 0
         \/ Failed(s, t, i)
         \/ t.slot[i].got # <<>> /\ ~t.slot[i].got[1].runt
      /\ \/ t = s
         \/ \E fd \in Fds, c \in Clients :
              fd = s.slot[i].fd /\ c = s.owner[fd] /\ Reads(s, t, i, c)
  BY ONLY <1>3, Sound(s), i \in 1..Slots, now \in Nat, ReadSound
<1>5. ASSUME t.slot[i].fd \in writes
      PROVE  t.slot[i].fd # 0 /\ Ripe(t.slot[i].got, t.client[t.owner[t.slot[i].fd]])
  <2>1. t.slot[i].fd # 0
    BY <1>2, <1>5
  <2>2. CASE t = s
    BY <2>1, <2>2, <1>2, <1>5 DEF Due, Safe, Ripe
  <2>3. CASE t # s
    <3>1. PICK fd \in Fds, c \in Clients :
            fd = s.slot[i].fd /\ c = s.owner[fd] /\ Reads(s, t, i, c)
      BY <2>3, <1>4
    <3>2. s \in Snapshot
      BY DEF Sound
    <3>3. t # Hung(s, i)
      <4>1. Hung(s, i).slot[i].fd = 0
        BY ONLY <3>1, <3>2, i \in 1..Slots, HungAt DEF HungFrom
      <4> QED BY <4>1, <2>1
    <3>4. Works(s, t, i, c) /\ s.client[c].out # <<>>
      BY ONLY <2>3, <3>1, <3>3 DEF Reads, Eats
    <3>5. /\ t.slot[i].fd = fd /\ t.owner = s.owner
          /\ t.client[c].heir = s.client[c].heir
      BY ONLY <3>1, <3>4, Zenon DEF Works
    <3>6. Safe(s.slot[i].got, s.client[c])
      BY <3>1, <3>5, <1>2, <1>5 DEF Due
    <3>7. ~Whole(s.slot[i].got)
      BY <2>3, <1>3 DEF ReadSlot
    <3>8. s.client[c].heir
      BY ONLY <3>4, <3>6, <3>7 DEF Safe
    <3>9. t.client[t.owner[t.slot[i].fd]].heir
      BY <3>1, <3>5, <3>8
    <3> QED BY <2>1, <3>9 DEF Ripe
  <2> QED BY <2>2, <2>3
<1>6. Sound(r) /\ \A j \in 1..Slots : j # i => r.slot[j] = s.slot[j]
  <2>1. CASE r \in WriteSlot(t, i) /\ t.slot[i].fd \in writes
    <3>1. Sound(r) /\ \A j \in 1..Slots : j # i => r.slot[j] = t.slot[j]
      BY <2>1, <1>4, <1>5, WriteSound
    <3> QED BY <3>1, <1>4
  <2>2. CASE r = t
    BY <2>2, <1>4
  <2> QED BY <1>1, <2>1, <2>2
<1>7. ASSUME NEW j \in 1..Slots, j # i, s.slot[j].fd # 0
      PROVE  r.client[r.owner[s.slot[j].fd]] = s.client[s.owner[s.slot[j].fd]]
  <2>1. t.client[t.owner[s.slot[j].fd]] = s.client[s.owner[s.slot[j].fd]]
    <3>1. CASE t = s
      BY <3>1
    <3>2. CASE t # s
      <4>1. PICK fd \in Fds, c \in Clients :
              fd = s.slot[i].fd /\ c = s.owner[fd] /\ Reads(s, t, i, c)
        BY <3>2, <1>4
      <4>2. Aside(s, t, i)
        BY ONLY <4>1, Sound(s), i \in 1..Slots, Apart, Zenon
      <4> QED BY ONLY <4>2, <1>7, j \in 1..Slots DEF Aside
    <3> QED BY <3>1, <3>2
  <2>2. CASE r \in WriteSlot(t, i) /\ t.slot[i].fd \in writes
    <3>1. PICK fd \in Fds, c \in Clients :
            fd = t.slot[i].fd /\ c = t.owner[fd] /\ Writes(t, r, i, c)
      BY <2>2, <1>4, <1>5, WriteSound
    <3>2. t.slot[j].fd = s.slot[j].fd
      BY <1>4, <1>7
    <3>3. Aside(t, r, i)
      BY ONLY <3>1, <1>4, i \in 1..Slots, Apart, Zenon
    <3>4. r.client[r.owner[t.slot[j].fd]] = t.client[t.owner[t.slot[j].fd]]
      BY ONLY <3>2, <3>3, <1>7, j \in 1..Slots DEF Aside
    <3> QED BY ONLY <2>1, <3>2, <3>4
  <2>3. CASE r = t
    BY <2>1, <2>3
  <2> QED BY <1>1, <2>2, <2>3
<1>8. Due(r, i + 1, writes)
  <2> SUFFICES ASSUME NEW j \in i + 1..Slots, r.slot[j].fd \in writes
               PROVE  Safe(r.slot[j].got, r.client[r.owner[r.slot[j].fd]])
    BY DEF Due
  <2>1. j \in 1..Slots /\ j # i /\ j \in i..Slots
    BY Numbers
  <2>2. r.slot[j] = s.slot[j] /\ s.slot[j].fd # 0
    BY <2>1, <1>2, <1>6
  <2>3. r.client[r.owner[s.slot[j].fd]] = s.client[s.owner[s.slot[j].fd]]
    BY <2>1, <2>2, <1>7
  <2>4. Safe(s.slot[j].got, s.client[s.owner[s.slot[j].fd]])
    BY <2>1, <2>2 DEF Due
  <2> QED BY <2>2, <2>3, <2>4
<1>9. Aging(z, t, i + 1)
  <2>1. CASE t = s
    BY <2>1, <1>2, AgingLater
  <2>2. CASE s.slot[i].fd \in reads /\ s.slot[i].fd # 0 /\ t \in ReadSlot(s, i)
    BY <2>2, AgingRead
  <2> QED BY <1>3, <2>1, <2>2
<1>10. Aging(z, r, i + 1)
  <2>1. CASE t.slot[i].fd \in writes /\ ~Failed(s, t, i) /\ r \in WriteSlot(t, i)
    <3>1. ASSUME NEW c \in Clients, Has(t, i, c)
          PROVE  \/ Newcomer(z, t, i, c) \/ Stays(z, t, i, c, i)
                 \/ t.slot[i].got = <<>> \/ ~t.slot[i].got[1].runt
      <4>1. CASE t = s
        BY <4>1, <3>1 DEF Aging
      <4>2. CASE t # s
        BY <4>2, <2>1, <1>4, <1>5
      <4> QED BY <4>1, <4>2
    <3> QED BY ONLY <2>1, <3>1, <1>2, <1>4, <1>5, <1>9, Sound(z), i \in 1..Slots, AgingWrite
  <2>2. CASE r = t
    BY <2>2, <1>9
  <2> QED BY <1>1, <2>1, <2>2
<1> QED BY <1>6, <1>8, <1>10

\* The states after each slot are those a function gives, built slot by slot.
LEMMA TurnIs ==
  ASSUME NEW s, NEW reads, NEW writes
  PROVE  \E after :
           /\ TurnOf(s, reads, writes) = after[Slots]
           /\ after[0] = {Accepted(r, writes) : r \in EmuServiced(s)}
           /\ \A i \in 1..Slots :
                after[i] = UNION {Served(r, i, reads, writes) : r \in after[i - 1]}
<1> DEFINE first == {Accepted(r, writes) : r \in EmuServiced(s)}
           next(S, i) == UNION {Served(r, i, reads, writes) : r \in S}
           step(h) == [i \in 0..Slots |-> IF i = 0 THEN first ELSE next(h[i - 1], i)]
           upTo(h, n) == /\ h[0] = first
                         /\ \A i \in 1..n : h[i] = next(h[i - 1], i)
           after == CHOOSE h : h = step(h)
<1>1. TurnOf(s, reads, writes) = after[Slots]
  BY DEF TurnOf
<1> HIDE DEF first, next
<1>2. \E h : upTo(h, Slots)
  <2> DEFINE T == {n \in 0..Slots : ~\E h : upTo(h, n)}
  <2>1. SUFFICES ASSUME T # {} PROVE FALSE
    BY Numbers
  <2>2. T \in SUBSET Nat
    BY Numbers
  <2>3. PICK m \in T : \A n \in T : m <= n
    BY <2>1, <2>2, LeastNumber
  <2>4. m # 0
    <3>1. upTo([i \in 0..0 |-> first], 0)
      OBVIOUS
    <3> QED BY <3>1, <2>3
  <2>5. m \in 1..Slots /\ m - 1 \in 0..Slots /\ ~(m <= m - 1)
    BY <2>3, <2>4, Numbers
  <2>6. PICK h : upTo(h, m - 1)
    BY <2>3, <2>5
  <2> DEFINE g == [i \in 0..m |-> IF i = m THEN next(h[m - 1], m) ELSE h[i]]
  <2>7. /\ g[0] = h[0] /\ g[m] = next(h[m - 1], m)
        /\ \A i \in 0..m - 1 : g[i] = h[i]
    <3>1. /\ 0 \in 0..m /\ 0 # m /\ m \in 0..m
          /\ \A i \in 0..m - 1 : i \in 0..m /\ i # m
      BY <2>5, Numbers
    <3> QED BY <3>1
  <2> HIDE DEF g
  <2>8. ASSUME NEW i \in 1..m PROVE g[i] = next(g[i - 1], i)
    <3>1. CASE i = m
      <4>1. m - 1 \in 0..m - 1
        BY <2>5, Numbers
      <4> QED BY <3>1, <4>1, <2>7
    <3>2. CASE i # m
      <4>1. i \in 1..m - 1 /\ i \in 0..m - 1 /\ i - 1 \in 0..m - 1
        BY <3>2, <2>5, Numbers
      <4> QED BY <4>1, <2>6, <2>7
    <3> QED BY <3>1, <3>2
  <2>9. upTo(g, m)
    BY <2>6, <2>7, <2>8
  <2> QED BY <2>3, <2>9
<1>3. PICK h : upTo(h, Slots)
  BY <1>2
<1> DEFINE g == [i \in 0..Slots |-> h[i]]
<1>4. g = step(g)
  <2>1. \A i \in 0..Slots : i = 0 \/ (i \in 1..Slots /\ i # 0 /\ i - 1 \in 0..Slots)
    BY Numbers
  <2>2. ASSUME NEW i \in 0..Slots
        PROVE  g[i] = IF i = 0 THEN first ELSE next(g[i - 1], i)
    BY <2>1, <1>3
  <2> QED BY <2>2
<1>5. after = step(after)
  <2> HIDE DEF step
  <2> QED BY <1>4
<1> HIDE DEF after
<1>6. after[0] = first /\ \A i \in 1..Slots : after[i] = next(after[i - 1], i)
  <2>1. 0 \in 0..Slots /\ \A i \in 1..Slots : i \in 0..Slots /\ i # 0
    BY Numbers
  <2> QED BY <2>1, <1>5
<1> QED BY <1>1, <1>6 DEF first, next

\* The whole turn: the broker, accept() and every slot.
LEMMA TurnSound ==
  ASSUME NEW s, Sound(s), NEW reads, NEW writes, reads \subseteq Fds, Selected(s, reads),
         writes \subseteq Fds, Due(s, 1, writes), now \in Nat, NEW done \in TurnOf(s, reads, writes)
  PROVE  Sound(done) /\ Aging(s, done, Slots + 1)
<1>1. PICK after :
        /\ TurnOf(s, reads, writes) = after[Slots]
        /\ after[0] = {Accepted(r, writes) : r \in EmuServiced(s)}
        /\ \A i \in 1..Slots :
             after[i] = UNION {Served(r, i, reads, writes) : r \in after[i - 1]}
  BY TurnIs
<1> DEFINE good(i) == \A r \in after[i] :
                        Sound(r) /\ Due(r, i + 1, writes) /\ Aging(s, r, i + 1)
           T == {i \in 0..Slots : ~good(i)}
<1>2. good(0)
  <2> TAKE r \in after[0]
  <2>1. PICK q \in EmuServiced(s) : r = Accepted(q, writes)
    BY <1>1
  <2>2. Sound(q) /\ Due(q, 1, writes)
    BY EmuSound
  <2>3. Sound(Accepted(q, writes)) /\ Due(Accepted(q, writes), 1, writes)
    BY <2>2, AcceptedSound
  <2>4. Aging(s, Accepted(q, writes), 1)
    BY AgingAccepted
  <2>5. 0 + 1 = 1
    OBVIOUS
  <2> QED BY <2>1, <2>3, <2>4, <2>5
<1>3. ASSUME NEW i \in 1..Slots, good(i - 1) PROVE good(i)
  <2> TAKE r \in after[i]
  <2>1. PICK q \in after[i - 1] : r \in Served(q, i, reads, writes)
    BY <1>1
  <2>2. (i - 1) + 1 = i
    OBVIOUS
  <2>3. Sound(q) /\ Due(q, i, writes) /\ Aging(s, q, i)
    BY <2>1, <2>2, <1>3
  <2> QED BY <2>1, <2>3, ServedSound
<1> HIDE DEF good
<1>4. T = {}
  <2> SUFFICES ASSUME T # {} PROVE FALSE
    OBVIOUS
  <2>1. T \in SUBSET Nat
    BY Numbers
  <2> HIDE DEF T
  <2>2. PICK m \in T : \A n \in T : m <= n
    BY <2>1, LeastNumber
  <2>3. m \in 0..Slots /\ ~good(m)
    BY <2>2 DEF T
  <2>4. m \in 1..Slots /\ m - 1 \in 0..Slots /\ ~(m <= m - 1)
    BY <2>3, <1>2, Numbers
  <2>5. good(m - 1)
    BY <2>2, <2>4 DEF T
  <2> QED BY <2>3, <2>4, <2>5, <1>3
<1>5. Slots \in 0..Slots
  BY Numbers
<1> QED BY <1>1, <1>4, <1>5 DEF good

-----------------------------------------------------------------------------
(***************************************************************************)
(* The steps.                                                              *)
(***************************************************************************)

\* Clients change what they sent and got in step, and may leave.
LEMMA ClientsSound ==
  ASSUME NEW s, Sound(s), NEW r \in Snapshot,
         r.slot = s.slot, r.owner = s.owner, r.backlog = s.backlog, r.broker.fd = s.broker.fd,
         \A c \in Clients :
           \/ r.client[c].at = s.client[c].at
           \/ s.client[c].at \in {"waiting", "in"} /\ r.client[c].at = "left",
         \A c \in Clients : r.client[c].heir = s.client[c].heir,
         \A c \in Clients, got \in Seq(Piece), reply \in Seq(Piece) :
           Ordered(got, reply, s.client[c]) => Ordered(got, reply, r.client[c])
  PROVE  Sound(r)
<1>1. s \in Snapshot /\ Wired(s) /\ Standing(s) /\ Answering(s)
  BY DEF Sound
<1>2. Wired(r)
  BY <1>1 DEF Wired
<1>3. Standing(r)
  <2>1. \A g \in Fds : r.owner[g] \in Clients => r.client[r.owner[g]].at \in {"in", "left"}
    BY <1>1 DEF Standing
  <2>2. \A c \in Clients : r.client[c].at = "in" => \E g \in Fds : r.owner[g] = c
    BY <1>1 DEF Standing
  <2>3. \A k \in DOMAIN r.backlog :
          /\ r.client[r.backlog[k]].at \in {"waiting", "left"}
          /\ \A g \in Fds : r.owner[g] # r.backlog[k]
    <3> TAKE k \in DOMAIN r.backlog
    <3>1. s.backlog[k] \in Clients
      BY <1>1 DEF Snapshot
    <3> QED BY <3>1, <1>1 DEF Standing
  <2>4. \A j, k \in DOMAIN r.backlog : r.backlog[j] = r.backlog[k] => j = k
    BY <1>1 DEF Standing
  <2> QED BY <2>1, <2>2, <2>3, <2>4 DEF Standing
<1>4. Answering(r)
  <2>1. ASSUME NEW i \in 1..Slots, r.slot[i].fd # 0
        PROVE  Ordered(r.slot[i].got, r.slot[i].reply, r.client[r.owner[r.slot[i].fd]])
    <3>1. PICK c \in Clients : c = s.owner[s.slot[i].fd]
      BY <2>1, <1>1 DEF Wired
    <3>2. s.slot[i].got \in Seq(Piece) /\ s.slot[i].reply \in Seq(Piece)
      BY <1>1 DEF Snapshot, Message
    <3>3. Ordered(s.slot[i].got, s.slot[i].reply, s.client[c])
      BY <2>1, <3>1, <1>1 DEF Answering
    <3> QED BY <3>1, <3>2, <3>3
  <2>2. ASSUME NEW c \in Clients, \A g \in Fds : r.owner[g] # c
        PROVE  ~r.client[c].heir /\ Ordered(<<>>, <<>>, r.client[c])
    <3>1. <<>> \in Seq(Piece)
      OBVIOUS
    <3>2. ~s.client[c].heir /\ Ordered(<<>>, <<>>, s.client[c])
      BY <2>2, <1>1 DEF Answering
    <3> QED BY <3>1, <3>2
  <2> QED BY <2>1, <2>2 DEF Answering
<1> QED BY <1>2, <1>3, <1>4 DEF Sound

\* A newcomer in the backlog.
LEMMA ConnectSound ==
  ASSUME NEW s, Sound(s), NEW r \in Snapshot, NEW c \in Clients,
         r.slot = s.slot, r.owner = s.owner, r.broker = s.broker,
         r.backlog = Append(s.backlog, c), s.client[c].at = "away",
         r.client[c].at = "waiting", Like(r.client[c], s.client[c]),
         r.client[c].heir = s.client[c].heir,
         \A d \in Clients : d # c => r.client[d] = s.client[d]
  PROVE  Sound(r)
<1>1. s \in Snapshot /\ Wired(s) /\ Standing(s) /\ Answering(s)
  BY DEF Sound
<1>2. \A g \in Fds : s.owner[g] # c
  BY <1>1 DEF Standing
<1>3. PICK q \in Seq(Clients), n \in Nat : q = s.backlog /\ n = Len(q)
  BY <1>1 DEF Snapshot
<1>4. /\ DOMAIN q = 1..n /\ DOMAIN Append(q, c) = 1..n + 1 /\ Append(q, c)[n + 1] = c
      /\ \A k \in 1..n : Append(q, c)[k] = q[k]
      /\ \A k \in 1..n + 1 : k = n + 1 \/ k \in 1..n
  BY <1>3
<1>5. \A k \in 1..n : /\ q[k] # c /\ q[k] \in Clients
                      /\ s.client[q[k]].at \in {"waiting", "left"}
                      /\ \A g \in Fds : s.owner[g] # q[k]
  BY <1>1, <1>3, <1>4 DEF Standing
<1>6. Wired(r)
  BY <1>1 DEF Wired
<1>7. Standing(r)
  <2>1. \A g \in Fds : r.owner[g] \in Clients => r.client[r.owner[g]].at \in {"in", "left"}
    BY <1>1, <1>2 DEF Standing
  <2>2. \A d \in Clients : r.client[d].at = "in" => \E g \in Fds : r.owner[g] = d
    BY <1>1 DEF Standing
  <2>3. \A k \in DOMAIN r.backlog :
          /\ r.client[r.backlog[k]].at \in {"waiting", "left"}
          /\ \A g \in Fds : r.owner[g] # r.backlog[k]
    <3> TAKE k \in DOMAIN r.backlog
    <3>1. k \in 1..n + 1
      BY <1>3, <1>4
    <3>2. CASE k = n + 1
      <4>1. r.backlog[k] = c
        BY <3>2, <1>3, <1>4
      <4> QED BY <4>1, <1>2
    <3>3. CASE k \in 1..n
      <4>1. r.backlog[k] = q[k]
        BY <3>3, <1>3, <1>4
      <4> QED BY <3>3, <4>1, <1>5
    <3> QED BY <3>1, <3>2, <3>3, <1>4
  <2>4. \A j, k \in DOMAIN r.backlog : r.backlog[j] = r.backlog[k] => j = k
    <3>1. \A j, k \in 1..n : q[j] = q[k] => j = k
      BY <1>1, <1>3, <1>4 DEF Standing
    <3>2. r.backlog = Append(q, c)
      BY <1>3
    <3> QED BY ONLY <3>1, <3>2, <1>4, <1>5
  <2> QED BY <2>1, <2>2, <2>3, <2>4 DEF Standing
<1>8. Answering(r)
  <2>1. ASSUME NEW i \in 1..Slots, r.slot[i].fd # 0
        PROVE  Ordered(r.slot[i].got, r.slot[i].reply, r.client[r.owner[r.slot[i].fd]])
    <3>1. s.slot[i].fd \in Fds
      BY <2>1, <1>1, Numbers DEF Snapshot, Message
    <3>2. PICK d \in Clients : d = s.owner[s.slot[i].fd] /\ d # c
      BY <2>1, <3>1, <1>1, <1>2 DEF Wired
    <3> QED BY <2>1, <3>2, <1>1 DEF Answering
  <2>2. ASSUME NEW d \in Clients, \A g \in Fds : r.owner[g] # d
        PROVE  ~r.client[d].heir /\ Ordered(<<>>, <<>>, r.client[d])
    <3>1. ~s.client[d].heir /\ Ordered(<<>>, <<>>, s.client[d])
      BY <2>2, <1>1 DEF Answering
    <3>2. CASE d = c
      BY <3>1, <3>2, OrderedAlike
    <3>3. CASE d # c
      BY <3>1, <3>3
    <3> QED BY <3>2, <3>3
  <2> QED BY <2>1, <2>2 DEF Answering
<1> QED BY <1>6, <1>7, <1>8 DEF Sound

\* The parts of State.
LEMMA StateIs ==
  /\ State.slot = slot /\ State.owner = owner /\ State.client = client
  /\ State.backlog = backlog /\ State.broker = broker
BY DEF State

\* What select() tells holds of the turn it starts.
LEMMA SelectedSound ==
  ASSUME Sound(State)
  PROVE  /\ Readable \subseteq Fds /\ Selected(State, Readable)
         /\ \A writes \in Writable : writes \subseteq Fds /\ Due(State, 1, writes)
<1>1. State \in Snapshot /\ Wired(State)
  BY DEF Sound
<1>2. State.slot = slot /\ State.owner = owner /\ State.broker = broker
  BY DEF State
<1>3. \A i \in 1..Slots : slot[i].fd # 0 => slot[i].fd \in Fds /\ owner[slot[i].fd] \in Clients
  BY <1>1, <1>2, Numbers DEF Wired, Snapshot, Message
<1>4. \A fd \in SlotsWritable :
        \E i \in 1..Slots : slot[i].fd = fd /\ fd # 0 /\ Whole(slot[i].got)
  BY DEF SlotsWritable, Open
<1>5. \A i, j \in 1..Slots : slot[i].fd # 0 /\ slot[i].fd = slot[j].fd => i = j
  BY <1>1, <1>2 DEF Wired
<1>6. /\ broker.fd = 0 \/ broker.fd \in Fds
      /\ \A i \in 1..Slots : slot[i].fd # 0 => slot[i].fd # broker.fd
  <2>1. broker.fd = 0 \/ broker.fd \in Fds
    BY <1>1, <1>2, Numbers DEF Snapshot
  <2>2. \A fd \in Fds : owner[fd] = Broker <=> broker.fd = fd
    BY <1>1, <1>2 DEF Wired
  <2>3. ~(Broker \in Clients)
    BY DeviceAssumption
  <2> QED BY <2>1, <2>2, <2>3, <1>3
<1>7. ASSUME NEW writes \in Writable
      PROVE  writes \subseteq Fds /\ Due(State, 1, writes)
  <2>1. \A fd \in writes : fd \in SlotsWritable \/ (fd = broker.fd /\ fd # 0)
    <3>1. writes = SlotsWritable \/ writes = SlotsWritable \cup ({broker.fd} \ {0})
      BY Zenon DEF Writable
    <3> QED BY ONLY <3>1
  <2>2. writes \subseteq Fds
    BY <2>1, <1>3, <1>4, <1>6
  <2>3. ASSUME NEW i \in 1..Slots, slot[i].fd \in writes
        PROVE  Whole(slot[i].got)
    <3>1. slot[i].fd # 0
      BY <2>2, <2>3, Numbers
    <3>2. slot[i].fd \in SlotsWritable
      BY <3>1, <2>1, <2>3, <1>6
    <3>3. PICK j \in 1..Slots : slot[j].fd = slot[i].fd /\ Whole(slot[j].got)
      BY <3>2, <1>4
    <3> QED BY <3>1, <3>3, <1>5
  <2>4. Due(State, 1, writes)
    BY <2>3, <1>2 DEF Due, Safe
  <2> QED BY <2>2, <2>4
<1>8. Readable \subseteq Fds
  BY DEF Readable
<1>9. Selected(State, Readable)
  <2> SUFFICES ASSUME NEW i \in 1..Slots, NEW c \in Clients, Has(State, i, c),
                      slot[i].fd \in Readable
               PROVE  client[c].out # <<>> \/ client[c].at = "left"
    BY StateIs DEF Selected
  <2>1. owner[slot[i].fd] = c /\ c # Broker
    BY <1>2, DeviceAssumption DEF Has
  <2> QED BY <2>1 DEF Readable
<1> QED BY <1>7, <1>8, <1>9

\* The device and its clients, at any time.
DeviceInv == Sound(State) /\ now \in Nat

\* The server starts with the broker connected and no client.
LEMMA DeviceInit == Init => DeviceInv
<1> SUFFICES ASSUME Init PROVE DeviceInv
  OBVIOUS
<1>1. /\ Free.fd = 0 /\ Free \in Message
  <2>1. <<>> \in Seq(Piece) /\ 0 \in Nat
    OBVIOUS
  <2> QED BY <2>1, Numbers DEF Free, Message
<1>2. Away \in Peer /\ Away.at = "away" /\ ~Away.heir /\ Ordered(<<>>, <<>>, Away)
  <2>1. <<>> \in Seq(Piece) /\ 0 \in Nat
    OBVIOUS
  <2>2. Away \in Peer
    BY <2>1 DEF Away, Peer
  <2>3. /\ Away.at = "away" /\ Away.out = <<>> /\ ~Away.half /\ Away.asked = <<>>
        /\ Away.back = <<>> /\ ~Away.heir /\ ~Away.astray
    BY DEF Away
  <2> QED BY <2>2, <2>3, OrderedFresh
<1>3. 1 \in Fds
  BY Numbers DEF Fds
<1>4. /\ slot \in [1..Slots -> Message] /\ \A i \in 1..Slots : slot[i].fd = 0
      /\ owner \in [Fds -> Clients \cup {Nobody, Broker}]
      /\ \A fd \in Fds : ~(owner[fd] \in Clients) /\ (owner[fd] = Broker <=> fd = 1)
      /\ client \in [Clients -> Peer] /\ \A c \in Clients : client[c] = Away
      /\ backlog = <<>> /\ broker.fd = 1 /\ now = 0
  BY <1>1, <1>2, Numbers DEF Init
<1>5. broker \in [fd : 0..Slots + 2, lost : BOOLEAN]
  <2>1. 1 \in 0..Slots + 2
    BY Numbers
  <2> QED BY <2>1 DEF Init
<1>6. State \in Snapshot
  <2>1. backlog \in Seq(Clients)
    BY <1>4
  <2> QED BY <2>1, <1>4, <1>5, SnapshotIs DEF State
<1>7. Wired(State)
  BY <1>4, StateIs DEF Wired
<1>8. Standing(State)
  BY <1>2, <1>4, StateIs DEF Standing
<1>9. Answering(State)
  BY <1>2, <1>4, StateIs DEF Answering
<1> QED BY <1>4, <1>6, <1>7, <1>8, <1>9 DEF DeviceInv, Sound

\* The turn as a step; who was heard changes nothing else.
LEMMA ServerStepSound ==
  ASSUME DeviceInv, ServerStep
  PROVE  \E t : /\ t = [slot |-> slot', owner |-> owner', client |-> client',
                        backlog |-> backlog', broker |-> broker']
                /\ Sound(t)
<1>1. Sound(State) /\ now \in Nat
  BY DEF DeviceInv
<1>a. PICK writes \in Writable :
        \E done \in TurnOf(State, Readable, writes) :
          /\ slot' = done.slot /\ owner' = done.owner /\ backlog' = done.backlog
          /\ broker' = done.broker
          /\ client' = [c \in Clients |->
                          [done.client[c] EXCEPT !.heard = IF Heard(c, done) THEN now ELSE @]]
  BY DEF ServerStep
<1>2. PICK done \in TurnOf(State, Readable, writes) :
        /\ slot' = done.slot /\ owner' = done.owner /\ backlog' = done.backlog
        /\ broker' = done.broker
        /\ client' = [c \in Clients |->
                        [done.client[c] EXCEPT !.heard = IF Heard(c, done) THEN now ELSE @]]
  BY <1>a
<1>3. Sound(done)
  BY <1>1, <1>2, SelectedSound, TurnSound
<1>4. done \in Snapshot
  BY <1>3 DEF Sound
<1>5. ASSUME NEW c \in Clients
      PROVE  /\ client'[c] \in Peer /\ client'[c].at = done.client[c].at
             /\ client'[c].heir = done.client[c].heir /\ Like(client'[c], done.client[c])
  <2>1. PICK p \in Peer : p = done.client[c]
    BY <1>4 DEF Snapshot
  <2>2. PICK h \in Nat : h = IF Heard(c, done) THEN now ELSE p.heard
    BY <1>1 DEF Peer
  <2>3. PICK q : q = [p EXCEPT !.heard = h]
    OBVIOUS
  <2>4. client'[c] = q
    BY <2>1, <2>2, <2>3, <1>2
  <2>5. q \in Peer /\ q.at = p.at /\ q.heir = p.heir /\ Like(q, p)
    BY <2>3 DEF Peer, Like
  <2> QED BY <2>1, <2>4, <2>5
<1>6. client' \in [Clients -> Peer]
  BY <1>2, <1>5
<1>7. PICK t : t = [slot |-> slot', owner |-> owner', client |-> client',
                    backlog |-> backlog', broker |-> broker']
  OBVIOUS
<1>8. t \in Snapshot
  <2>1. /\ slot' \in [1..Slots -> Message] /\ owner' \in [Fds -> Clients \cup {Nobody, Broker}]
        /\ backlog' \in Seq(Clients) /\ broker' \in [fd : 0..Slots + 2, lost : BOOLEAN]
    BY <1>2, <1>4 DEF Snapshot
  <2> QED BY <2>1, <1>6, <1>7, SnapshotIs
<1>9. /\ t.slot = done.slot /\ t.owner = done.owner /\ t.backlog = done.backlog
      /\ t.broker.fd = done.broker.fd /\ t.client = client'
  BY <1>2, <1>7
<1>10. \A c \in Clients : /\ t.client[c].at = done.client[c].at
                          /\ t.client[c].heir = done.client[c].heir
  BY <1>5, <1>9
<1>11. \A c \in Clients, got \in Seq(Piece), reply \in Seq(Piece) :
         Ordered(got, reply, done.client[c]) => Ordered(got, reply, t.client[c])
  BY <1>5, <1>9, OrderedAlike
<1> QED BY <1>3, <1>7, <1>8, <1>9, <1>10, <1>11, ClientsSound

\* The turn as a step: a slot remembers when its client was heard, and only who
\* was silent longest is put out.
LEMMA ServerStepAges ==
  ASSUME DeviceInv, Aged(State), ServerStep
  PROVE  /\ \E t : /\ t = [slot |-> slot', owner |-> owner', client |-> client',
                           backlog |-> backlog', broker |-> broker']
                   /\ Aged(t)
         /\ \A c \in Clients :
              client[c].at = "in" /\ client'[c].at = "dropped" => Idlest(State, c)
<1>1. Sound(State) /\ now \in Nat
  BY DEF DeviceInv
<1>a. PICK writes \in Writable :
        \E done \in TurnOf(State, Readable, writes) :
          /\ slot' = done.slot /\ owner' = done.owner /\ backlog' = done.backlog
          /\ broker' = done.broker
          /\ client' = [c \in Clients |->
                          [done.client[c] EXCEPT !.heard = IF Heard(c, done) THEN now ELSE @]]
  BY DEF ServerStep
<1>2. PICK done \in TurnOf(State, Readable, writes) :
        /\ slot' = done.slot /\ owner' = done.owner /\ backlog' = done.backlog
        /\ broker' = done.broker
        /\ client' = [c \in Clients |->
                        [done.client[c] EXCEPT !.heard = IF Heard(c, done) THEN now ELSE @]]
  BY <1>a
<1>3. Sound(done) /\ Aging(State, done, Slots + 1)
  BY <1>1, <1>2, SelectedSound, TurnSound
<1>4. done \in Snapshot /\ State \in Snapshot
  BY <1>1, <1>3 DEF Sound
<1>5. ASSUME NEW c \in Clients
      PROVE  /\ client'[c].at = done.client[c].at
             /\ client'[c].heard = IF Heard(c, done) THEN now ELSE done.client[c].heard
  <2>1. PICK p \in Peer : p = done.client[c]
    BY <1>4 DEF Snapshot
  <2>2. PICK h : h = IF Heard(c, done) THEN now ELSE p.heard
    OBVIOUS
  <2>3. PICK q : q = [p EXCEPT !.heard = h]
    OBVIOUS
  <2>4. client'[c] = q
    BY <2>1, <2>2, <2>3, <1>2
  <2>5. q.heard = h /\ q.at = p.at
    BY <2>3 DEF Peer
  <2> QED BY <2>1, <2>2, <2>4, <2>5
<1>6. PICK t : t = [slot |-> slot', owner |-> owner', client |-> client',
                    backlog |-> backlog', broker |-> broker']
  OBVIOUS
<1>7. t.slot = done.slot /\ t.owner = done.owner /\ t.client = client'
  BY <1>2, <1>6
<1>8. ASSUME NEW i \in 1..Slots, NEW c \in Clients, Has(t, i, c)
      PROVE  done.slot[i].rx = IF Heard(c, done) THEN now ELSE done.client[c].heard
  <2>1. Has(done, i, c)
    BY <1>7, <1>8 DEF Has
  <2>2. Newcomer(State, done, i, c) \/ Stays(State, done, i, c, Slots + 1)
    BY <2>1, <1>3 DEF Aging
  <2>3. CASE Newcomer(State, done, i, c)
    <3>1. /\ backlog # <<>> /\ done.backlog = Tail(backlog) /\ c = Head(backlog)
          /\ done.slot[i].rx = now
      BY <2>3, StateIs DEF Newcomer
    <3>2. backlog \in Seq(Clients)
      BY <1>4, StateIs DEF Snapshot
    <3>3. done.backlog # backlog
      BY <3>1, <3>2, Shorter
    <3> QED BY <3>1, <3>3 DEF Heard
  <2>4. CASE Stays(State, done, i, c, Slots + 1)
    <3>1. /\ Has(State, i, c) /\ done.client[c].at = client[c].at
          /\ done.client[c].heard = client[c].heard
          /\ \/ done.client[c].out = client[c].out /\ done.slot[i].rx = slot[i].rx
             \/ Eats(State, done, i, c)
      BY <2>4, StateIs DEF Stays
    <3>2. slot[i].rx = client[c].heard
      BY <3>1, StateIs DEF Aged
    <3>3. ~(done.backlog # backlog /\ Head(backlog) = c)
      <4>1. CASE backlog = <<>>
        BY <4>1, <1>3, StateIs DEF Aging
      <4>2. CASE backlog # <<>>
        BY <4>2, <3>1, <1>1, StateIs, HeadWaits
      <4> QED BY <4>1, <4>2
    <3>4. Heard(c, done) <=>
            /\ done.client[c].out # client[c].out
            /\ done.slot[i].got = <<>> \/ ~done.slot[i].got[1].runt
      <4>1. /\ done.slot[i].fd # 0 /\ done.owner[done.slot[i].fd] = c
            /\ \A j \in 1..Slots :
                 done.slot[j].fd # 0 /\ done.owner[done.slot[j].fd] = c => j = i
        <5>1. done.slot[i].fd # 0 /\ done.owner[done.slot[i].fd] = c
          BY <2>1, Numbers DEF Has
        <5>2. ASSUME NEW j \in 1..Slots, done.slot[j].fd # 0, done.owner[done.slot[j].fd] = c
              PROVE  j = i
          <6>1. \E d \in Clients : Has(done, j, d)
            BY <5>2, <1>3, HasOne
          <6>2. Has(done, j, c)
            BY <6>1, <5>2 DEF Has
          <6> QED BY <6>2, <2>1, <1>3, HasOne
        <5> QED BY <5>1, <5>2
      <4> QED BY ONLY <4>1, <3>1, <3>3, i \in 1..Slots DEF Heard
    <3>5. CASE done.client[c].out = client[c].out /\ done.slot[i].rx = slot[i].rx
      BY <3>1, <3>2, <3>4, <3>5
    <3>6. CASE Eats(State, done, i, c)
      <4>1. /\ client[c].out # <<>> /\ done.client[c].out = Tail(client[c].out)
            /\ \/ /\ done.slot[i].rx = now
                  /\ done.slot[i].got = <<>> \/ ~done.slot[i].got[1].runt
               \/ /\ done.slot[i].rx = slot[i].rx
                  /\ done.slot[i].got # <<>> /\ done.slot[i].got[1].runt
        BY <3>6, StateIs DEF Eats
      <4>2. client[c].out \in Seq(Piece)
        BY <1>4, StateIs DEF Snapshot, Peer
      <4>3. done.client[c].out # client[c].out
        BY <4>1, <4>2, Shorter
      <4> QED BY ONLY <4>1, <4>3, <3>1, <3>2, <3>4
    <3> QED BY <3>1, <3>5, <3>6
  <2> QED BY <2>2, <2>3, <2>4
<1>9. Aged(t)
  BY <1>5, <1>7, <1>8 DEF Aged
<1>10. ASSUME NEW c \in Clients, client[c].at = "in", client'[c].at = "dropped"
       PROVE  Idlest(State, c)
  BY <1>3, <1>5, <1>10, StateIs DEF Aging
<1> QED BY <1>6, <1>9, <1>10

\* One client does something and the server does not.
LEMMA ClientStepSound ==
  ASSUME DeviceInv, NEW c \in Clients, NEW p \in Peer, client' = [client EXCEPT ![c] = p],
         UNCHANGED <<slot, owner, backlog, broker>>,
         \/ p.at = client[c].at
         \/ client[c].at \in {"waiting", "in"} /\ p.at = "left",
         p.heir = client[c].heir,
         \A got \in Seq(Piece), reply \in Seq(Piece) :
           Ordered(got, reply, client[c]) => Ordered(got, reply, p)
  PROVE  \E t : /\ t = [slot |-> slot', owner |-> owner', client |-> client',
                        backlog |-> backlog', broker |-> broker']
                /\ Sound(t)
<1>1. Sound(State) /\ State \in Snapshot
  BY DEF DeviceInv, Sound
<1>2. /\ slot \in [1..Slots -> Message] /\ owner \in [Fds -> Clients \cup {Nobody, Broker}]
      /\ backlog \in Seq(Clients) /\ broker \in [fd : 0..Slots + 2, lost : BOOLEAN]
      /\ client \in [Clients -> Peer]
  BY <1>1, StateIs DEF Snapshot
<1>3. PICK t : t = [slot |-> slot', owner |-> owner', client |-> client',
                    backlog |-> backlog', broker |-> broker']
  OBVIOUS
<1>4. /\ t.slot = slot /\ t.owner = owner /\ t.backlog = backlog /\ t.broker = broker
      /\ t.client = client'
  BY <1>3
<1>5. client' \in [Clients -> Peer] /\ client'[c] = p
      /\ \A d \in Clients : d # c => client'[d] = client[d]
  BY <1>2
<1>6. t \in Snapshot
  <2>1. t = [slot |-> slot, owner |-> owner, client |-> client', backlog |-> backlog,
             broker |-> broker]
    BY <1>3
  <2> QED BY <2>1, <1>2, <1>5, SnapshotIs
<1>7. /\ \A d \in Clients :
           \/ t.client[d].at = State.client[d].at
           \/ State.client[d].at \in {"waiting", "in"} /\ t.client[d].at = "left"
      /\ \A d \in Clients : t.client[d].heir = State.client[d].heir
  BY <1>4, <1>5, StateIs
<1>8. \A d \in Clients, got \in Seq(Piece), reply \in Seq(Piece) :
        Ordered(got, reply, State.client[d]) => Ordered(got, reply, t.client[d])
  BY <1>4, <1>5, StateIs
<1>9. /\ t.slot = State.slot /\ t.owner = State.owner /\ t.backlog = State.backlog
      /\ t.broker.fd = State.broker.fd
  BY <1>4, StateIs
<1>10. Sound(t)
  BY ONLY <1>1, <1>6, <1>7, <1>8, <1>9, ClientsSound
<1> QED BY <1>3, <1>10

\* A sequence one longer.
LEMMA Appended ==
  ASSUME NEW S, NEW q \in Seq(S), NEW x \in S
  PROVE  Append(q, x) \in Seq(S)
OBVIOUS

\* A client sends a header, or a runt.
LEMMA SendSound ==
  ASSUME DeviceInv, NEW c \in Clients, NEW ask \in Piece, Send(c, ask)
  PROVE  \E t : /\ t = [slot |-> slot', owner |-> owner', client |-> client',
                        backlog |-> backlog', broker |-> broker']
                /\ Sound(t)
<1>1. PICK q \in Peer : q = client[c]
  <2>1. State \in Snapshot
    BY DEF DeviceInv, Sound
  <2> QED BY <2>1, StateIs DEF Snapshot
<1>2. PICK p : p = [q EXCEPT !.out = Append(@, ask), !.sent = @ + 1,
                             !.asked = IF ask.runt THEN @ ELSE Append(@, ask),
                             !.half = ~ask.runt]
  OBVIOUS
<1>3. ~q.half /\ client' = [client EXCEPT ![c] = p] /\ UNCHANGED <<slot, owner, backlog, broker>>
  BY <1>1, <1>2 DEF Send
<1>4. ask.runt \in BOOLEAN
  BY DEF Piece
<1>5. /\ p \in Peer /\ p.at = q.at /\ p.out = Append(q.out, ask) /\ p.back = q.back
      /\ p.heir = q.heir /\ p.astray = q.astray
      /\ p.half = ~ask.runt /\ p.asked = IF ask.runt THEN q.asked ELSE Append(q.asked, ask)
  <2>1. /\ q.out \in Seq(Piece) /\ q.asked \in Seq(Piece) /\ q.back \in Seq(Piece)
        /\ q.at \in {"away", "waiting", "in", "left", "dropped"} /\ q.sent \in Nat
        /\ q.heard \in Nat /\ q.astray \in BOOLEAN /\ q.heir \in BOOLEAN
    BY DEF Peer
  <2>2. PICK out : out = Append(q.out, ask) /\ out \in Seq(Piece)
    BY <2>1, Appended
  <2>3. PICK asked : /\ asked = IF ask.runt THEN q.asked ELSE Append(q.asked, ask)
                     /\ asked \in Seq(Piece)
    BY <2>1, Appended
  <2>4. PICK sent : sent = q.sent + 1 /\ sent \in Nat
    BY <2>1
  <2>5. PICK half : half = ~ask.runt /\ half \in BOOLEAN
    OBVIOUS
  <2>6. [at |-> q.at, out |-> out, half |-> half, sent |-> sent, asked |-> asked,
         back |-> q.back, heard |-> q.heard, astray |-> q.astray, heir |-> q.heir] \in Peer
    BY <2>1, <2>2, <2>3, <2>4, <2>5 DEF Peer
  <2>7. p = [at |-> q.at, out |-> out, half |-> half, sent |-> sent, asked |-> asked,
             back |-> q.back, heard |-> q.heard, astray |-> q.astray, heir |-> q.heir]
    BY <1>2, <2>2, <2>3, <2>4, <2>5 DEF Peer
  <2> QED BY <2>2, <2>3, <2>4, <2>5, <2>6, <2>7
<1>6. ASSUME NEW got \in Seq(Piece), NEW reply \in Seq(Piece), Ordered(got, reply, q)
      PROVE  Ordered(got, reply, p)
  BY <1>3, <1>5, <1>6, OrderedSent
<1> QED BY <1>1, <1>3, <1>5, <1>6, ClientStepSound

\* With or without a slot, every client is in step with the server.
LEMMA EveryoneOrdered ==
  ASSUME DeviceInv, NEW c \in Clients
  PROVE  \E got \in Seq(Piece), reply \in Seq(Piece) : Ordered(got, reply, client[c])
<1>1. State \in Snapshot /\ Answering(State)
  BY DEF DeviceInv, Sound
<1>2. CASE \A g \in Fds : State.owner[g] # c
  <2>1. <<>> \in Seq(Piece)
    OBVIOUS
  <2> QED BY <1>2, <2>1, <1>1, StateIs DEF Answering
<1>3. CASE \E g \in Fds : State.owner[g] = c
  <2>1. PICK g \in Fds : State.owner[g] = c
    BY <1>3
  <2>2. PICK i \in 1..Slots : State.slot[i].fd = g
    BY <2>1 DEF DeviceInv, Sound, Wired
  <2>3. Ordered(State.slot[i].got, State.slot[i].reply, client[c])
    BY <2>1, <2>2, <1>1, StateIs, Numbers DEF Answering
  <2>4. State.slot[i].got \in Seq(Piece) /\ State.slot[i].reply \in Seq(Piece)
    BY <1>1 DEF Snapshot, Message
  <2> QED BY <2>3, <2>4
<1> QED BY <1>2, <1>3

\* A client sends the rest of its request.
LEMMA SendRestSound ==
  ASSUME DeviceInv, NEW c \in Clients, SendRest(c)
  PROVE  \E t : /\ t = [slot |-> slot', owner |-> owner', client |-> client',
                        backlog |-> backlog', broker |-> broker']
                /\ Sound(t)
<1>1. State \in Snapshot
  BY DEF DeviceInv, Sound
<1>2. PICK q \in Peer : q = client[c]
  BY <1>1, StateIs DEF Snapshot
<1>3. \E got \in Seq(Piece), reply \in Seq(Piece) : Ordered(got, reply, q)
  BY <1>2, EveryoneOrdered
<1>4. PICK p : p = [q EXCEPT !.out = Append(@, Last(q.asked)), !.half = FALSE]
  OBVIOUS
<1>5. q.half /\ client' = [client EXCEPT ![c] = p] /\ UNCHANGED <<slot, owner, backlog, broker>>
  BY <1>2, <1>4 DEF SendRest
<1>6. /\ p.at = q.at /\ p.out = Append(q.out, Last(q.asked)) /\ p.back = q.back
      /\ ~p.half /\ p.asked = q.asked /\ p.heir = q.heir /\ p.astray = q.astray
  BY <1>4 DEF Peer
<1>7. \A got \in Seq(Piece), reply \in Seq(Piece) : Ordered(got, reply, q) => Ordered(got, reply, p)
  BY <1>5, <1>6, OrderedFinished
<1>8. Last(q.asked) \in Piece
  BY <1>3, <1>5, <1>6, OrderedFinished
<1>9. p \in Peer
  <2>1. q.out \in Seq(Piece)
    BY DEF Peer
  <2>2. Append(q.out, Last(q.asked)) \in Seq(Piece)
    BY <2>1, <1>8
  <2> QED BY <2>2, <1>4 DEF Peer
<1> QED BY <1>2, <1>5, <1>6, <1>7, <1>9, ClientStepSound

\* A client leaves; what it sent stays to be read.
LEMMA LeaveSound ==
  ASSUME DeviceInv, NEW c \in Clients, Leave(c)
  PROVE  \E t : /\ t = [slot |-> slot', owner |-> owner', client |-> client',
                        backlog |-> backlog', broker |-> broker']
                /\ Sound(t)
<1>1. PICK q \in Peer : q = client[c]
  <2>1. State \in Snapshot
    BY DEF DeviceInv, Sound
  <2> QED BY <2>1, StateIs DEF Snapshot
<1>2. PICK p : p = [q EXCEPT !.at = "left"]
  OBVIOUS
<1>3. /\ client[c].at \in {"waiting", "in"} /\ client' = [client EXCEPT ![c] = p]
      /\ UNCHANGED <<slot, owner, backlog, broker>>
  BY <1>1, <1>2 DEF Leave
<1>4. p \in Peer /\ p.at = "left" /\ p.heir = q.heir /\ Like(p, q)
  BY <1>2 DEF Peer, Like
<1> QED BY <1>1, <1>3, <1>4, OrderedAlike, ClientStepSound

\* A client connects.
LEMMA ConnectStepSound ==
  ASSUME DeviceInv, NEW c \in Clients, Connect(c)
  PROVE  \E t : /\ t = [slot |-> slot', owner |-> owner', client |-> client',
                        backlog |-> backlog', broker |-> broker']
                /\ Sound(t)
<1>1. Sound(State) /\ State \in Snapshot
  BY DEF DeviceInv, Sound
<1>2. /\ slot \in [1..Slots -> Message] /\ owner \in [Fds -> Clients \cup {Nobody, Broker}]
      /\ backlog \in Seq(Clients) /\ broker \in [fd : 0..Slots + 2, lost : BOOLEAN]
      /\ client \in [Clients -> Peer]
  BY <1>1, StateIs DEF Snapshot
<1>3. PICK q \in Peer : q = client[c]
  BY <1>2
<1>4. PICK p : p = [q EXCEPT !.at = "waiting"]
  OBVIOUS
<1>5. /\ q.at = "away" /\ client' = [client EXCEPT ![c] = p] /\ backlog' = Append(backlog, c)
      /\ slot' = slot /\ owner' = owner /\ broker' = broker
  BY <1>3, <1>4 DEF Connect
<1>6. p \in Peer /\ p.at = "waiting" /\ p.heir = q.heir /\ Like(p, q)
  BY <1>4 DEF Peer, Like
<1>7. client' \in [Clients -> Peer] /\ client'[c] = p
      /\ \A d \in Clients : d # c => client'[d] = client[d]
  BY <1>2, <1>5, <1>6
<1>8. PICK t : t = [slot |-> slot', owner |-> owner', client |-> client',
                    backlog |-> backlog', broker |-> broker']
  OBVIOUS
<1>9. /\ t.slot = State.slot /\ t.owner = State.owner /\ t.broker = State.broker
      /\ t.backlog = Append(State.backlog, c) /\ t.client = client'
  BY <1>5, <1>8, StateIs
<1>10. t \in Snapshot
  <2>1. backlog' \in Seq(Clients)
    BY <1>2, <1>5, Appended
  <2>2. t = [slot |-> slot, owner |-> owner, client |-> client', backlog |-> backlog',
             broker |-> broker]
    BY <1>5, <1>8
  <2> QED BY <2>1, <2>2, <1>2, <1>7, SnapshotIs
<1>11. /\ State.client[c].at = "away" /\ t.client[c].at = "waiting"
       /\ Like(t.client[c], State.client[c]) /\ t.client[c].heir = State.client[c].heir
       /\ \A d \in Clients : d # c => t.client[d] = State.client[d]
  BY <1>3, <1>5, <1>6, <1>7, <1>9, StateIs
<1>12. Sound(t)
  BY ONLY <1>1, <1>9, <1>10, <1>11, c \in Clients, ConnectSound
<1> QED BY <1>8, <1>12

\* The broker closes the connection; the server does not know yet.
LEMMA BrokerClosesSound ==
  ASSUME DeviceInv, BrokerCloses
  PROVE  \E t : /\ t = [slot |-> slot', owner |-> owner', client |-> client',
                        backlog |-> backlog', broker |-> broker']
                /\ Sound(t)
<1>1. Sound(State) /\ State \in Snapshot
  BY DEF DeviceInv, Sound
<1>2. /\ slot \in [1..Slots -> Message] /\ owner \in [Fds -> Clients \cup {Nobody, Broker}]
      /\ backlog \in Seq(Clients) /\ broker \in [fd : 0..Slots + 2, lost : BOOLEAN]
      /\ client \in [Clients -> Peer]
  BY <1>1, StateIs DEF Snapshot
<1>3. /\ broker' \in [fd : 0..Slots + 2, lost : BOOLEAN] /\ broker'.fd = broker.fd
      /\ slot' = slot /\ owner' = owner /\ client' = client /\ backlog' = backlog
  BY <1>2 DEF BrokerCloses
<1>4. PICK t : t = [slot |-> slot', owner |-> owner', client |-> client',
                    backlog |-> backlog', broker |-> broker']
  OBVIOUS
<1>5. /\ t.slot = State.slot /\ t.owner = State.owner /\ t.backlog = State.backlog
      /\ t.client = State.client /\ t.broker.fd = State.broker.fd
  BY <1>3, <1>4, StateIs
<1>6. t \in Snapshot
  <2>1. t = [slot |-> slot, owner |-> owner, client |-> client, backlog |-> backlog,
             broker |-> broker']
    BY <1>3, <1>4
  <2> QED BY <2>1, <1>2, <1>3, SnapshotIs
<1>7. Sound(t)
  BY ONLY <1>1, <1>5, <1>6, ClientsSound
<1> QED BY <1>4, <1>7

\* The clock and the steps that change nothing.
LEMMA NothingSound ==
  ASSUME DeviceInv, UNCHANGED <<slot, owner, backlog, client, broker>>
  PROVE  \E t : /\ t = [slot |-> slot', owner |-> owner', client |-> client',
                        backlog |-> backlog', broker |-> broker']
                /\ Sound(t)
BY DEF DeviceInv, State

-----------------------------------------------------------------------------
(***************************************************************************)
(* The invariant and what it says.                                         *)
(***************************************************************************)
LEMMA DeviceNext == DeviceInv /\ [Next]_vars => DeviceInv'
<1> SUFFICES ASSUME DeviceInv, [Next]_vars PROVE DeviceInv'
  OBVIOUS
<1> DEFINE Lasts == \E t : /\ t = [slot |-> slot', owner |-> owner', client |-> client',
                                   backlog |-> backlog', broker |-> broker']
                           /\ Sound(t)
<1>1. \A c \in Clients : /\ Request(c, client[c].sent + 1) \in Piece
                         /\ Runt(c, client[c].sent + 1) \in Piece
  <2> TAKE c \in Clients
  <2>1. client[c].sent + 1 \in Nat
    BY StateIs DEF DeviceInv, Sound, Snapshot, Peer
  <2> QED BY <2>1 DEF Request, Runt, Piece
<1>2. Lasts /\ now' \in Nat
  <2>1. now \in Nat
    BY DEF DeviceInv
  <2>2. CASE ServerStep
    BY <2>1, <2>2, ServerStepSound DEF ServerStep
  <2>3. ASSUME NEW c \in Clients, Connect(c) PROVE Lasts /\ now' \in Nat
    BY <2>1, <2>3, ConnectStepSound DEF Connect
  <2>4. ASSUME NEW c \in Clients, Send(c, Request(c, client[c].sent + 1))
        PROVE  Lasts /\ now' \in Nat
    BY <2>1, <2>4, <1>1, SendSound DEF Send
  <2>5. ASSUME NEW c \in Clients, Send(c, Runt(c, client[c].sent + 1))
        PROVE  Lasts /\ now' \in Nat
    BY <2>1, <2>5, <1>1, SendSound DEF Send
  <2>6. ASSUME NEW c \in Clients, SendRest(c) PROVE Lasts /\ now' \in Nat
    BY <2>1, <2>6, SendRestSound DEF SendRest
  <2>7. ASSUME NEW c \in Clients, Leave(c) PROVE Lasts /\ now' \in Nat
    BY <2>1, <2>7, LeaveSound DEF Leave
  <2>8. CASE BrokerCloses
    BY <2>1, <2>8, BrokerClosesSound DEF BrokerCloses
  <2>9. CASE Tick
    BY <2>1, <2>9, NothingSound DEF Tick
  <2>10. CASE UNCHANGED vars
    BY <2>1, <2>10, NothingSound DEF vars
  <2> QED BY <2>2, <2>3, <2>4, <2>5, <2>6, <2>7, <2>8, <2>9, <2>10 DEF Next
<1>3. PICK t : /\ t = [slot |-> slot', owner |-> owner', client |-> client',
                       backlog |-> backlog', broker |-> broker']
               /\ Sound(t)
  BY <1>2
<1>4. t = State'
  BY <1>3 DEF State
<1> QED BY <1>2, <1>3, <1>4 DEF DeviceInv

\* So the invariant holds for ever.
LEMMA DeviceAlways == Spec => []DeviceInv
BY DeviceInit, DeviceNext, PTL DEF Spec

\* A step that is not the server's leaves slots and descriptors alone, hears
\* nobody and puts nobody out.
LEMMA OthersAge ==
  DeviceInv /\ [Next]_vars =>
    \/ ServerStep
    \/ /\ slot' = slot /\ owner' = owner
       /\ \A d \in Clients :
            /\ client'[d].heard = client[d].heard
            /\ client'[d].at = "dropped" => client[d].at = "dropped"
<1> SUFFICES ASSUME DeviceInv, [Next]_vars, ~ServerStep
             PROVE  /\ slot' = slot /\ owner' = owner
                    /\ \A d \in Clients :
                         /\ client'[d].heard = client[d].heard
                         /\ client'[d].at = "dropped" => client[d].at = "dropped"
  OBVIOUS
<1>1. client \in [Clients -> Peer]
  BY StateIs DEF DeviceInv, Sound, Snapshot
<1>2. ASSUME NEW c \in Clients, NEW p, client' = [client EXCEPT ![c] = p],
             p.heard = client[c].heard, p.at \in {client[c].at, "waiting", "left"},
             NEW d \in Clients
      PROVE  /\ client'[d].heard = client[d].heard
             /\ client'[d].at = "dropped" => client[d].at = "dropped"
  BY <1>1, <1>2
<1>3. ASSUME NEW c \in Clients, Connect(c)
      PROVE  \E p : /\ client' = [client EXCEPT ![c] = p] /\ p.heard = client[c].heard
                    /\ p.at \in {client[c].at, "waiting", "left"}
  <2>1. PICK q \in Peer : q = client[c]
    BY <1>1
  <2>2. PICK p : p = [q EXCEPT !.at = "waiting"]
    OBVIOUS
  <2>3. p.heard = q.heard /\ p.at = "waiting"
    BY <2>2 DEF Peer
  <2>4. client' = [client EXCEPT ![c] = p]
    BY <1>3, <2>1, <2>2 DEF Connect
  <2> QED BY <2>1, <2>3, <2>4
<1>4. ASSUME NEW c \in Clients, NEW ask, Send(c, ask)
      PROVE  \E p : /\ client' = [client EXCEPT ![c] = p] /\ p.heard = client[c].heard
                    /\ p.at \in {client[c].at, "waiting", "left"}
  <2>1. PICK q \in Peer : q = client[c]
    BY <1>1
  <2>2. PICK p : p = [q EXCEPT !.out = Append(@, ask), !.sent = @ + 1,
                               !.asked = IF ask.runt THEN @ ELSE Append(@, ask),
                               !.half = ~ask.runt]
    OBVIOUS
  <2>3. p.heard = q.heard /\ p.at = q.at
    BY <2>2 DEF Peer
  <2>4. client' = [client EXCEPT ![c] = p]
    BY <1>4, <2>1, <2>2 DEF Send
  <2> QED BY <2>1, <2>3, <2>4
<1>5. ASSUME NEW c \in Clients, SendRest(c)
      PROVE  \E p : /\ client' = [client EXCEPT ![c] = p] /\ p.heard = client[c].heard
                    /\ p.at \in {client[c].at, "waiting", "left"}
  <2>1. PICK q \in Peer : q = client[c]
    BY <1>1
  <2>2. PICK p : p = [q EXCEPT !.out = Append(@, Last(q.asked)), !.half = FALSE]
    OBVIOUS
  <2>3. p.heard = q.heard /\ p.at = q.at
    BY <2>2 DEF Peer
  <2>4. client' = [client EXCEPT ![c] = p]
    BY <1>5, <2>1, <2>2 DEF SendRest
  <2> QED BY <2>1, <2>3, <2>4
<1>6. ASSUME NEW c \in Clients, Leave(c)
      PROVE  \E p : /\ client' = [client EXCEPT ![c] = p] /\ p.heard = client[c].heard
                    /\ p.at \in {client[c].at, "waiting", "left"}
  <2>1. PICK q \in Peer : q = client[c]
    BY <1>1
  <2>2. PICK p : p = [q EXCEPT !.at = "left"]
    OBVIOUS
  <2>3. p.heard = q.heard /\ p.at = "left"
    BY <2>2 DEF Peer
  <2>4. client' = [client EXCEPT ![c] = p]
    BY <1>6, <2>1, <2>2 DEF Leave
  <2> QED BY <2>1, <2>3, <2>4
<1>7. \/ \E c \in Clients : \/ Connect(c) \/ (\E ask : Send(c, ask)) \/ SendRest(c) \/ Leave(c)
      \/ UNCHANGED <<slot, owner, client>>
  BY DEF Next, BrokerCloses, Tick, vars
<1>8. slot' = slot /\ owner' = owner
  BY <1>7, Zenon DEF Connect, Send, SendRest, Leave
<1>9. \/ client' = client
      \/ \E c \in Clients : \E p :
           /\ client' = [client EXCEPT ![c] = p] /\ p.heard = client[c].heard
           /\ p.at \in {client[c].at, "waiting", "left"}
  BY <1>3, <1>4, <1>5, <1>6, <1>7
<1> QED BY <1>2, <1>8, <1>9

\* A slot remembers when its client was heard, between the turns.
AgedInv == DeviceInv /\ Aged(State)

LEMMA AgedAlways == Spec => []AgedInv
<1>1. Init => AgedInv
  <2> SUFFICES ASSUME Init PROVE Aged(State)
    BY DeviceInit DEF AgedInv
  <2>1. \A i \in 1..Slots : slot[i].fd = 0
    BY DEF Init, Free
  <2> QED BY <2>1, StateIs, Numbers DEF Aged, Has
<1>2. AgedInv /\ [Next]_vars => AgedInv'
  <2> SUFFICES ASSUME AgedInv, [Next]_vars PROVE Aged(State)'
    BY DeviceNext DEF AgedInv
  <2>1. \E t : /\ t = [slot |-> slot', owner |-> owner', client |-> client',
                       backlog |-> backlog', broker |-> broker']
               /\ Aged(t)
    <3>1. CASE ServerStep
      BY <3>1, ServerStepAges DEF AgedInv
    <3>2. CASE ~ServerStep
      <4>1. PICK t : t = [slot |-> slot', owner |-> owner', client |-> client',
                          backlog |-> backlog', broker |-> broker']
        OBVIOUS
      <4>2. /\ t.slot = slot /\ t.owner = owner
            /\ \A d \in Clients : t.client[d].heard = client[d].heard
        BY <3>2, <4>1, OthersAge DEF AgedInv
      <4>3. Aged(t)
        BY <4>2, StateIs DEF AgedInv, Aged, Has
      <4> QED BY <4>1, <4>3
    <3> QED BY <3>1, <3>2
  <2>2. PICK t : /\ t = [slot |-> slot', owner |-> owner', client |-> client',
                         backlog |-> backlog', broker |-> broker']
                 /\ Aged(t)
    BY <2>1
  <2>3. t = State'
    BY <2>2 DEF State
  <2> QED BY <2>2, <2>3
<1> QED BY <1>1, <1>2, PTL DEF Spec

\* Every descriptor the kernel gave the server for a client is in exactly one
\* slot of modbusmq_connections, whatever was accepted, closed, put out or
\* numbered anew, and the broker's socket is never taken for a client's.
THEOREM NoDescriptorLostProved == Spec => []NoDescriptorLost
<1>1. DeviceInv => NoDescriptorLost
  <2> SUFFICES ASSUME DeviceInv PROVE NoDescriptorLost
    OBVIOUS
  <2>1. /\ Wired(State) /\ Standing(State) /\ State \in Snapshot
    BY DEF DeviceInv, Sound
  <2>2. ASSUME NEW fd \in Fds
        PROVE  Cardinality({i \in 1..Slots : slot[i].fd = fd}) = IF ClientAt(fd) THEN 1 ELSE 0
    <3>1. PICK held : held = {i \in 1..Slots : slot[i].fd = fd}
      OBVIOUS
    <3>2. CASE ClientAt(fd)
      <4>1. PICK i \in 1..Slots : slot[i].fd = fd
        BY <2>1, <3>2, StateIs DEF Wired, ClientAt
      <4>2. \A j \in 1..Slots : slot[j].fd = fd => j = i
        BY <2>1, <4>1, StateIs, Numbers DEF Wired
      <4>3. held = {i}
        BY <3>1, <4>1, <4>2
      <4>4. Cardinality(held) = 1
        BY <4>3, FS_Singleton
      <4> QED BY <3>1, <3>2, <4>4
    <3>3. CASE ~ClientAt(fd)
      <4>1. \A j \in 1..Slots : slot[j].fd # fd
        BY <2>1, <3>3, StateIs, Numbers DEF Wired, ClientAt
      <4>2. held = {}
        BY <3>1, <4>1
      <4>3. Cardinality(held) = 0
        BY <4>2, FS_EmptySet
      <4> QED BY <3>1, <3>3, <4>3
    <3> QED BY <3>2, <3>3
  <2>3. \A c \in Clients : client[c].at = "in" => \E fd \in Fds : owner[fd] = c
    BY <2>1, StateIs DEF Standing
  <2>4. \A fd \in Fds : owner[fd] = Broker <=> broker.fd = fd
    BY <2>1, StateIs DEF Wired
  <2> QED BY <2>2, <2>3, <2>4 DEF NoDescriptorLost
<1> QED BY <1>1, DeviceAlways, PTL

\* What the server has written to a client answers the client's own requests in
\* the order it sent them: not a reply twice, none skipped, none meant for the
\* client that had the slot before, however the frames came in pieces.  It is so
\* for every client but one that was accepted with bytes under way and under a
\* number in the write set, which can only be the number the broker's socket had.
THEOREM AnswersInOrderProved == Spec => []AnswersInOrder
<1>1. DeviceInv => AnswersInOrder
  <2> SUFFICES ASSUME DeviceInv, NEW c \in Clients, ~client[c].heir
               PROVE  IsPrefix(client[c].back, client[c].asked)
    BY DEF AnswersInOrder
  <2>1. PICK back \in Seq(Piece), asked \in Seq(Piece) :
          back = client[c].back /\ asked = client[c].asked
    BY StateIs DEF DeviceInv, Sound, Snapshot, Peer
  <2>2. \E got, reply : InStep(got, reply, client[c])
    BY EveryoneOrdered DEF Ordered
  <2>3. Len(back) <= Len(asked) /\ \A k \in 1..Len(back) : back[k] = asked[k]
    BY <2>1, <2>2 DEF InStep
  <2>4. SubSeq(back, 1, Len(back)) = SubSeq(asked, 1, Len(back))
    BY <2>3
  <2> QED BY <2>1, <2>3, <2>4 DEF IsPrefix
<1> QED BY <1>1, DeviceAlways, PTL

\* The server puts a client out only when another waits and every slot is taken,
\* and then the one it has heard nothing of for longest, also when several of them
\* sent something in the same turn, some only half a request or a runt.
THEOREM PutOutIdlestProved == Spec => PutOutIdlest
<1>1. AgedInv /\ [Next]_vars =>
        \A c \in Clients :
          client[c].at = "in" /\ client'[c].at = "dropped" =>
            /\ backlog # <<>>
            /\ \A i \in 1..Slots :
                 Open(i) /\ client[c].heard <= client[owner[slot[i].fd]].heard
  <2> SUFFICES ASSUME AgedInv, [Next]_vars, NEW c \in Clients,
                      client[c].at = "in", client'[c].at = "dropped"
               PROVE  /\ backlog # <<>>
                      /\ \A i \in 1..Slots :
                           Open(i) /\ client[c].heard <= client[owner[slot[i].fd]].heard
    OBVIOUS
  <2>1. ServerStep
    BY OthersAge DEF AgedInv
  <2>2. Idlest(State, c)
    BY <2>1, ServerStepAges DEF AgedInv
  <2>3. PICK v \in 1..Slots :
          /\ Has(State, v, c)
          /\ \A i \in 1..Slots : slot[i].fd # 0 /\ slot[v].rx <= slot[i].rx
    BY <2>2, StateIs DEF Idlest
  <2>4. slot[v].rx = client[c].heard
    BY <2>3, StateIs DEF AgedInv, Aged
  <2>5. ASSUME NEW i \in 1..Slots
        PROVE  Open(i) /\ client[c].heard <= client[owner[slot[i].fd]].heard
    <3>1. PICK d \in Clients : Has(State, i, d)
      BY <2>3, HasOne, StateIs DEF AgedInv, DeviceInv
    <3>2. slot[i].rx = client[d].heard /\ d = owner[slot[i].fd]
      BY <3>1, StateIs DEF AgedInv, Aged, Has
    <3> QED BY <2>3, <2>4, <3>2 DEF Open
  <2> QED BY <2>2, <2>5, StateIs DEF Idlest
<1> QED BY <1>1, AgedAlways, PTL DEF PutOutIdlest, Spec
=============================================================================
