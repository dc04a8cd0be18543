----------------------------- MODULE WireProofs -----------------------------
(***************************************************************************)
(* Proofs about Wire: every cell on the line and in the reader that starts *)
(* a frame says truthfully whose answer it is, and on TCP no other bytes   *)
(* claim to answer anything.  With that an accepted answer belongs to the  *)
(* request on TCP, and on RTU to one of the same slave, function and       *)
(* count, and a stale frame stepped over takes no byte of another's answer *)
(* with it.                                                                *)
(***************************************************************************)
EXTENDS Wire, SequenceTheorems, FiniteSetTheorems, TLAPS

\* A cell that starts a frame bears the head of the request it answers; on TCP
\* no other cell bears the head of any.
Truthful(c) ==
  /\ c.part = 1 => c.of \in Ids /\ c.head = HeadOf(c.of, c.head.exc)
  /\ c.part # 1 /\ transport = "tcp" => c.head.unit = NoOne

TrueCells == {c \in Cells : Truthful(c)}

Endings == [code : Codes, to : Ids \cup {NoOne}, of : Ids \cup {NoOne}]

\* The inductive invariant.
WireInv ==
  /\ TypeOK
  /\ buf \in Seq(TrueCells)
  /\ line \in Seq(TrueCells)

-----------------------------------------------------------------------------
(***************************************************************************)
(* Sequences.                                                              *)
(***************************************************************************)
LEMMA PartsOfSeq ==
  ASSUME NEW S, NEW s \in Seq(S), NEW m \in 1..(Len(s) + 1), NEW n \in 0..Len(s)
  PROVE  SubSeq(s, m, n) \in Seq(S)
<1>1. \A i \in m..n : s[i] \in S
  BY ElementOfSeq
<1> QED
  BY <1>1, SubSeqProperties

LEMMA SuffixesOfSeq ==
  ASSUME NEW S, NEW s \in Seq(S)
  PROVE  Suffixes(s) \subseteq Seq(S)
<1>1. Len(s) \in Nat
  OBVIOUS
<1>2. \A l \in 1..Len(s) : SubSeq(s, l, Len(s)) \in Seq(S)
  BY <1>1, PartsOfSeq
<1>3. <<>> \in Seq(S)
  BY EmptySeq
<1> QED
  BY <1>2, <1>3 DEF Suffixes

LEMMA ThreeInSeq ==
  ASSUME NEW S, NEW f, f = [k \in 1..3 |-> f[k]], \A k \in 1..3 : f[k] \in S
  PROVE  f \in Seq(S) /\ Len(f) = 3
<1>1. f \in [1..3 -> S]
  OBVIOUS
<1> QED
  BY <1>1, LenProperties, IsASeq

-----------------------------------------------------------------------------
(***************************************************************************)
(* Frames and heads.                                                       *)
(***************************************************************************)
LEMMA HeadType ==
  ASSUME NEW i \in Ids, NEW exc \in BOOLEAN
  PROVE  HeadOf(i, exc) \in Heads /\ HeadOf(i, exc).exc = exc /\ HeadOf(i, exc).len = FrameCells
<1>1. Match[i] \in [unit : Nat, count : Nat] /\ i \in Nat
  BY WireAssumption
<1>2. CASE transport = "tcp"
  BY <1>1, <1>2 DEF HeadOf, Heads, FrameCells
<1>3. CASE transport # "tcp"
  BY <1>1, <1>3 DEF HeadOf, Heads, FrameCells
<1> QED
  BY <1>2, <1>3

LEMMA JunkType == Junk \in Heads /\ Junk.unit = NoOne
BY DEF Junk, Heads, NoOne, FrameCells

LEMMA FrameType ==
  ASSUME NEW i \in Ids, NEW exc \in BOOLEAN
  PROVE  Frame(i, exc) \in Seq(TrueCells) /\ Len(Frame(i, exc)) = FrameCells
<1> DEFINE f == Frame(i, exc)
<1>1. \A k \in 1..3 : f[k] \in TrueCells
  <2> SUFFICES ASSUME NEW k \in 1..3 PROVE f[k] \in TrueCells
    OBVIOUS
  <2>1. f[k] = [of |-> i, part |-> k, head |-> IF k = 1 THEN HeadOf(i, exc) ELSE Junk]
    BY DEF Frame, FrameCells
  <2>2. f[k] \in Cells
    BY <2>1, HeadType, JunkType DEF Cells, FrameCells
  <2>3. Truthful(f[k])
    BY <2>1, HeadType, JunkType DEF Truthful
  <2> QED
    BY <2>2, <2>3 DEF TrueCells
<1>2. f = [k \in 1..3 |-> f[k]]
  BY DEF Frame, FrameCells
<1> QED
  BY <1>1, <1>2, ThreeInSeq DEF FrameCells

\* What the device may answer is a sequence of three true cells.
LEMMA AnswersType ==
  ASSUME NEW i \in Ids, NEW f \in Answers(i)
  PROVE  f \in Seq(TrueCells) /\ Len(f) = FrameCells
<1>1. PICK exc \in BOOLEAN : f = Frame(i, exc)
  BY DEF Answers
<1> QED
  BY <1>1, FrameType

\* Bytes read as the start of a frame although they are not do not pass for an
\* answer on TCP.
LEMMA LooksType ==
  ASSUME cur.id \in Ids, NEW h \in Looks
  PROVE  h \in Heads /\ (transport = "tcp" => h.unit = NoOne)
<1>1. CASE h = Junk
  BY <1>1, JunkType
<1>2. ASSUME NEW n \in Lens, h = [Junk EXCEPT !.len = n]
      PROVE  h \in Heads /\ (transport = "tcp" => h.unit = NoOne)
  <2>1. n \in 2..4
    BY WireAssumption DEF HeaderCells, FrameCells
  <2>2. h = [unit |-> NoOne, count |-> 0, exc |-> FALSE, len |-> n]
    BY <1>2 DEF Junk
  <2>3. n \in 0..(FrameCells + 1)
    BY <2>1 DEF FrameCells
  <2> QED
    BY <2>2, <2>3 DEF Heads
<1>3. ASSUME transport # "tcp", NEW exc \in BOOLEAN, h = HeadOf(cur.id, exc)
      PROVE  h \in Heads /\ (transport = "tcp" => h.unit = NoOne)
  BY <1>3, HeadType
<1> QED
  BY <1>1, <1>2, <1>3 DEF Looks

LEMMA StartType ==
  ASSUME cur.id \in Ids, NEW s \in Seq(TrueCells), s # <<>>, NEW b \in Start(s)
  PROVE  b \in Seq(TrueCells) /\ Len(b) = Len(s)
<1>1. CASE s[1].part = 1
  BY <1>1 DEF Start
<1>2. CASE s[1].part # 1
  <2>1. PICK h \in Looks : b = [s EXCEPT ![1].head = h]
    BY <1>2 DEF Start
  <2>2. 1 \in 1..Len(s) /\ s[1] \in TrueCells
    BY ElementOfSeq
  <2> DEFINE c == [s[1] EXCEPT !.head = h]
  <2>3. b = [s EXCEPT ![1] = c]
    BY <2>1
  <2>4. h \in Heads /\ (transport = "tcp" => h.unit = NoOne)
    BY LooksType
  <2>5. s[1] \in Cells
    BY <2>2 DEF TrueCells
  <2>6. c \in Cells /\ c.part = s[1].part /\ c.head = h
    BY <2>4, <2>5 DEF Cells
  <2>7. c \in TrueCells
    BY <2>4, <2>6, <1>2 DEF TrueCells, Truthful
  <2> QED
    BY <2>2, <2>3, <2>7, ExceptSeq
<1> QED
  BY <1>1, <1>2

LEMMA DrainedType ==
  ASSUME NEW S, NEW s \in Seq(S)
  PROVE  Drained(s) \subseteq Seq(S)
BY SuffixesOfSeq, EmptySeq DEF Drained

-----------------------------------------------------------------------------
(***************************************************************************)
(* Every step keeps the invariant.                                         *)
(***************************************************************************)
LEMMA SameTrueCells ==
  ASSUME transport' = transport
  PROVE  TrueCells' = TrueCells
<1>1. \A c : Truthful(c)' <=> Truthful(c)
  BY DEF Truthful, HeadOf
<1> QED
  BY <1>1 DEF TrueCells

LEMMA TrueCellsAreCells == Seq(TrueCells) \subseteq Seq(Cells)
<1>1. TrueCells \subseteq Cells
  BY DEF TrueCells
<1> QED
  BY <1>1

\* The invariant of the next state, part by part.
LEMMA InvOfParts ==
  ASSUME transport' = transport, transport \in {"tcp", "rtu"},
         cur' \in [id : Ids, sync : BOOLEAN] \cup {None},
         buf' \in Seq(TrueCells), Len(buf') < want', want' \in HeaderCells..(FrameCells + 1),
         line' \in Seq(TrueCells), owed' \subseteq Ids, resync' \in BOOLEAN,
         last' \in Endings, calm' \in BOOLEAN
  PROVE  WireInv'
<1>1. buf' \in Seq(TrueCells)' /\ line' \in Seq(TrueCells)'
  BY SameTrueCells
<1>2. buf' \in Seq(Cells) /\ line' \in Seq(Cells)
  BY TrueCellsAreCells
<1>3. TypeOK'
  <2>1. Cells' = Cells
    BY DEF Cells, Heads
  <2> QED
    BY <1>2, <2>1 DEF TypeOK, None, Endings, Codes, NoOne
<1> QED
  BY <1>1, <1>3 DEF WireInv

\* What a read hands to the reader, and what it leaves.
LEMMA ReadFacts ==
  ASSUME WireInv, cur # None,
         NEW n \in 1..(want - Len(buf)), n <= Len(line),
         NEW b \in IF buf = <<>> THEN Start(SubSeq(line, 1, n)) ELSE {buf \o SubSeq(line, 1, n)}
  PROVE  /\ b \in Seq(TrueCells) /\ Len(b) \in 1..want
         /\ SubSeq(line, n + 1, Len(line)) \in Seq(TrueCells)
<1> DEFINE s == SubSeq(line, 1, n)
<1>1. /\ buf \in Seq(TrueCells) /\ line \in Seq(TrueCells)
      /\ Len(buf) \in Nat /\ Len(line) \in Nat /\ want \in 2..4 /\ n \in Nat
  BY DEF WireInv, TypeOK, HeaderCells, FrameCells
<1>2. s \in Seq(TrueCells) /\ Len(s) = n
  <2>1. 1 \in 1..(Len(line) + 1) /\ n \in 0..Len(line)
    BY <1>1
  <2> QED
    BY <1>1, <2>1, PartsOfSeq
<1>3. SubSeq(line, n + 1, Len(line)) \in Seq(TrueCells)
  <2>1. n + 1 \in 1..(Len(line) + 1) /\ Len(line) \in 0..Len(line)
    BY <1>1
  <2> QED
    BY <1>1, <2>1, PartsOfSeq
<1>4. CASE buf = <<>>
  <2>1. s # <<>> /\ Len(buf) = 0
    BY <1>1, <1>2, <1>4
  <2>2. cur.id \in Ids
    BY DEF WireInv, TypeOK
  <2>3. b \in Seq(TrueCells) /\ Len(b) = n
    BY <1>2, <1>4, <2>1, <2>2, StartType
  <2> QED
    BY <1>1, <1>3, <2>1, <2>3
<1>5. CASE buf # <<>>
  <2>1. b = buf \o s
    BY <1>5
  <2>2. b \in Seq(TrueCells) /\ Len(b) = Len(buf) + n
    BY <1>1, <1>2, <2>1, ConcatProperties
  <2> QED
    BY <1>1, <1>3, <2>2
<1> QED
  BY <1>4, <1>5

LEMMA EndsType ==
  ASSUME WireInv, NEW code \in Codes, NEW of \in Ids \cup {NoOne}, Ends(code, of)
  PROVE  /\ cur' = None /\ last' \in Endings
         /\ buf' = <<>> /\ buf' \in Seq(TrueCells) /\ Len(buf') < want'
         /\ want' \in HeaderCells..(FrameCells + 1)
<1>1. cur.id \in Ids \cup {NoOne}
  BY DEF WireInv, TypeOK, None
<1>2. last' \in Endings
  BY <1>1 DEF Ends, Endings
<1> QED
  BY <1>2, EmptySeq DEF Ends, Rearm, HeaderCells, FrameCells

LEMMA RearmType ==
  ASSUME Rearm
  PROVE  /\ buf' \in Seq(TrueCells) /\ Len(buf') < want'
         /\ want' \in HeaderCells..(FrameCells + 1)
BY EmptySeq DEF Rearm, HeaderCells, FrameCells

LEMMA ReopenType ==
  ASSUME WireInv, Reopen
  PROVE  line' \in Seq(TrueCells) /\ owed' \subseteq Ids /\ resync' \in BOOLEAN
<1>1. line \in Seq(TrueCells) /\ owed \subseteq Ids
  BY DEF WireInv, TypeOK
<1> QED
  BY <1>1, EmptySeq, SuffixesOfSeq DEF Reopen

\* What the reader holds after a read, and what is left on the line.
Held(b, rest) ==
  /\ b \in Seq(TrueCells) /\ Len(b) \in 1..want
  /\ rest \in Seq(TrueCells)

LEMMA HeldHead ==
  ASSUME NEW b, NEW rest, Held(b, rest)
  PROVE  /\ b[1] \in TrueCells /\ b[1].head.len \in 0..(FrameCells + 1)
         /\ Len(b) \in Nat \ {0}
<1>1. 1 \in 1..Len(b) /\ Len(b) \in Nat \ {0}
  BY DEF Held
<1>2. b[1] \in TrueCells
  BY <1>1, ElementOfSeq DEF Held
<1>3. b[1].head \in Heads
  BY <1>2 DEF TrueCells, Cells
<1> QED
  BY <1>1, <1>2, <1>3 DEF Heads

LEMMA ReadMoreKeeps ==
  ASSUME WireInv, transport' = transport, calm' = calm,
         NEW b, NEW rest, Held(b, rest), ReadMore(b, rest)
  PROVE  WireInv'
<1>1. b[1].head.len \in 0..(FrameCells + 1) /\ Len(b) \in Nat \ {0}
  BY HeldHead
<1>2. Size(b) \in 0..(FrameCells + 1)
  BY <1>1 DEF Size, FrameCells
<1>3. want \in HeaderCells..(FrameCells + 1)
  BY DEF WireInv, TypeOK
<1>4. Len(b) < want' /\ want' \in HeaderCells..(FrameCells + 1)
  <2>1. CASE Unsized(b)
    BY <1>1, <1>3, <2>1 DEF ReadMore, Unsized, HeaderCells, FrameCells
  <2>2. CASE ~Unsized(b)
    BY <1>1, <1>2, <2>2 DEF ReadMore, HeaderCells, FrameCells
  <2> QED
    BY <2>1, <2>2
<1>5. buf' \in Seq(TrueCells) /\ Len(buf') < want' /\ line' \in Seq(TrueCells)
  BY <1>4 DEF ReadMore, Held
<1>6. /\ cur' \in [id : Ids, sync : BOOLEAN] \cup {None} /\ owed' \subseteq Ids
      /\ resync' \in BOOLEAN /\ last' \in Endings
      /\ calm' \in BOOLEAN /\ transport \in {"tcp", "rtu"}
  BY DEF WireInv, TypeOK, Endings, ReadMore
<1> QED
  BY <1>4, <1>5, <1>6, InvOfParts

LEMMA StepOverKeeps ==
  ASSUME WireInv, transport' = transport, calm' = calm,
         NEW b, NEW rest, Held(b, rest), StepOver(b, rest)
  PROVE  WireInv'
<1>1. line' \in Seq(TrueCells) /\ Rearm
  BY DEF StepOver, Held
<1>2. /\ cur' \in [id : Ids, sync : BOOLEAN] \cup {None} /\ owed' \subseteq Ids
      /\ resync' \in BOOLEAN /\ last' \in Endings
      /\ calm' \in BOOLEAN /\ transport \in {"tcp", "rtu"}
  BY DEF WireInv, TypeOK, Endings, StepOver
<1> QED
  BY <1>1, <1>2, RearmType, InvOfParts

\* A request that ends leaves an empty reader.
LEMMA EndedInv ==
  ASSUME WireInv, transport' = transport, calm' \in BOOLEAN,
         NEW code \in Codes, NEW of \in Ids \cup {NoOne}, Ends(code, of),
         line' \in Seq(TrueCells), owed' \subseteq Ids, resync' \in BOOLEAN
  PROVE  WireInv'
<1>1. transport \in {"tcp", "rtu"}
  BY DEF WireInv, TypeOK
<1> QED
  BY <1>1, EndsType, InvOfParts

LEMMA EndKeeps ==
  ASSUME WireInv, transport' = transport, calm' = calm,
         NEW b, NEW rest, Held(b, rest),
         Accept(b, rest) \/ Refused(b, rest) \/ BadAnswer(b, rest)
  PROVE  WireInv'
<1>1. /\ rest \in Seq(TrueCells) /\ Drained(rest) \subseteq Seq(TrueCells)
      /\ owed \subseteq Ids /\ resync \in BOOLEAN /\ calm \in BOOLEAN
  BY DrainedType DEF Held, WireInv, TypeOK
<1>2. PICK code \in Codes, of \in Ids \cup {NoOne} : Ends(code, of)
  <2>1. b[1].of \in Ids \cup {NoOne}
    BY HeldHead DEF TrueCells, Cells
  <2> QED
    BY <2>1 DEF Accept, Refused, BadAnswer, Codes
<1>3. line' \in Seq(TrueCells)
  BY <1>1 DEF Accept, Refused, BadAnswer
<1>4. owed' \subseteq Ids /\ resync' \in BOOLEAN
  BY <1>1 DEF Accept, Refused, BadAnswer
<1> QED
  BY <1>1, <1>2, <1>3, <1>4, EndedInv

LEMMA NoFrameKeeps ==
  ASSUME WireInv, transport' = transport, calm' = calm,
         NEW b, NEW rest, Held(b, rest), NoFrame(b, rest)
  PROVE  WireInv'
<1>1. /\ Drained(rest) \subseteq Seq(TrueCells)
      /\ owed \subseteq Ids /\ resync \in BOOLEAN /\ calm \in BOOLEAN
      /\ cur \in [id : Ids, sync : BOOLEAN] \cup {None} /\ transport \in {"tcp", "rtu"}
  BY DrainedType DEF Held, WireInv, TypeOK
<1>2. line' \in Seq(TrueCells) /\ owed' \subseteq Ids /\ resync' \in BOOLEAN
  BY <1>1 DEF NoFrame
<1>3. CASE Ends("failed", NoOne)
  BY <1>1, <1>2, <1>3, EndedInv DEF Codes
<1>4. CASE cur' = cur /\ last' = [code |-> "failed", to |-> cur.id, of |-> NoOne] /\ Rearm
  <2>1. last' \in Endings
    BY <1>1, <1>4 DEF Codes, Endings, None
  <2> QED
    BY <1>1, <1>2, <1>4, <2>1, RearmType, InvOfParts
<1> QED
  BY <1>3, <1>4 DEF NoFrame

LEMMA BadLengthKeeps ==
  ASSUME WireInv, transport' = transport, calm' = calm,
         NEW b, NEW rest, Held(b, rest), BadLength(b, rest)
  PROVE  WireInv'
<1>1. calm' \in BOOLEAN
  BY DEF WireInv, TypeOK
<1>2. Ends("failed", NoOne)
  BY DEF BadLength
<1>3. line' \in Seq(TrueCells) /\ owed' \subseteq Ids /\ resync' \in BOOLEAN
  <2>1. CASE Reopen
    BY <2>1, ReopenType
  <2>2. CASE line' = rest /\ UNCHANGED <<owed, resync>>
    BY <2>2 DEF Held, WireInv, TypeOK
  <2> QED
    BY <2>1, <2>2 DEF BadLength
<1> QED
  BY <1>1, <1>2, <1>3, EndedInv DEF Codes

\* A read takes n cells from the line, b is what the reader holds then.
Taken(n, b, rest) ==
  /\ n \in 1..(want - Len(buf)) /\ n <= Len(line)
  /\ b \in IF buf = <<>> THEN Start(SubSeq(line, 1, n)) ELSE {buf \o SubSeq(line, 1, n)}
  /\ rest = SubSeq(line, n + 1, Len(line))

\* A read is one of these.
LEMMA ReadCases ==
  ASSUME WireInv, Read
  PROVE  \E n, b, rest :
           /\ Taken(n, b, rest) /\ Held(b, rest)
           /\ \/ ReadMore(b, rest) \/ StepOver(b, rest) \/ Accept(b, rest) \/ Refused(b, rest)
              \/ BadAnswer(b, rest) \/ NoFrame(b, rest) \/ BadLength(b, rest)
<1>1. cur # None
  BY DEF Read
<1>2. PICK n \in 1..(want - Len(buf)) :
        /\ n <= Len(line)
        /\ \E b \in IF buf = <<>> THEN Start(SubSeq(line, 1, n)) ELSE {buf \o SubSeq(line, 1, n)} :
           LET rest == SubSeq(line, n + 1, Len(line))
           IN \/ ReadMore(b, rest) \/ StepOver(b, rest) \/ Accept(b, rest) \/ Refused(b, rest)
              \/ BadAnswer(b, rest) \/ NoFrame(b, rest) \/ BadLength(b, rest)
  BY DEF Read
<1>3. PICK b \in IF buf = <<>> THEN Start(SubSeq(line, 1, n)) ELSE {buf \o SubSeq(line, 1, n)} :
        LET rest == SubSeq(line, n + 1, Len(line))
        IN \/ ReadMore(b, rest) \/ StepOver(b, rest) \/ Accept(b, rest) \/ Refused(b, rest)
           \/ BadAnswer(b, rest) \/ NoFrame(b, rest) \/ BadLength(b, rest)
  BY <1>2
<1>4. Held(b, SubSeq(line, n + 1, Len(line)))
  BY <1>1, <1>2, <1>3, ReadFacts DEF Held
<1>5. Taken(n, b, SubSeq(line, n + 1, Len(line)))
  BY <1>2, <1>3 DEF Taken
<1> QED
  BY <1>3, <1>4, <1>5

LEMMA ReadKeeps ==
  ASSUME WireInv, Read
  PROVE  WireInv'
<1>1. transport' = transport /\ calm' = calm
  BY DEF Read
<1>2. PICK n, b, rest :
        /\ Held(b, rest)
        /\ \/ ReadMore(b, rest) \/ StepOver(b, rest) \/ Accept(b, rest) \/ Refused(b, rest)
           \/ BadAnswer(b, rest) \/ NoFrame(b, rest) \/ BadLength(b, rest)
  BY ReadCases
<1> QED
  BY <1>1, <1>2, ReadMoreKeeps, StepOverKeeps, EndKeeps, NoFrameKeeps, BadLengthKeeps

LEMMA SendKeeps ==
  ASSUME WireInv, NEW i \in Ids, NEW sync \in Syncs, Send(i, sync)
  PROVE  WireInv'
<1>1. /\ line \in Seq(TrueCells) /\ owed \subseteq Ids /\ sync \in BOOLEAN
      /\ transport \in {"tcp", "rtu"}
  BY WireAssumption DEF WireInv, TypeOK
<1>2. line' \in Seq(TrueCells) /\ owed' \subseteq Ids
  BY <1>1, DrainedType DEF Send
<1>3. cur' \in [id : Ids, sync : BOOLEAN] \cup {None} /\ resync' \in BOOLEAN
  BY <1>1 DEF Send
<1>4. /\ last' \in Endings /\ calm' \in BOOLEAN
      /\ transport' = transport /\ Rearm
  BY DEF Send, WireInv, TypeOK, Endings
<1> QED
  BY <1>1, <1>2, <1>3, <1>4, RearmType, InvOfParts

LEMMA TimeoutKeeps ==
  ASSUME WireInv, Timeout
  PROVE  WireInv'
<1>1. line \in Seq(TrueCells) /\ resync \in BOOLEAN /\ owed \subseteq Ids /\ calm \in BOOLEAN
  BY DEF WireInv, TypeOK
<1>2. line' \in Seq(TrueCells) /\ resync' \in BOOLEAN
  BY <1>1, DrainedType DEF Timeout, TimeoutDrains, TimeoutSync
<1>3. owed' \subseteq Ids /\ calm' \in BOOLEAN /\ transport' = transport /\ Ends("failed", NoOne)
  BY <1>1 DEF Timeout
<1> QED
  BY <1>2, <1>3, EndedInv DEF Codes

LEMMA LinkLostKeeps ==
  ASSUME WireInv, LinkLost
  PROVE  WireInv'
<1>1. /\ line' \in Seq(TrueCells) /\ owed' \subseteq Ids /\ resync' \in BOOLEAN
      /\ transport' = transport /\ calm' \in BOOLEAN
  BY ReopenType DEF LinkLost, WireInv, TypeOK
<1>2. CASE Ends("failed", NoOne)
  BY <1>1, <1>2, EndedInv DEF Codes
<1>3. CASE cur' = cur /\ last' = last /\ Rearm
  <2>1. /\ cur' \in [id : Ids, sync : BOOLEAN] \cup {None}
        /\ last' \in Endings /\ transport \in {"tcp", "rtu"}
    BY <1>3 DEF WireInv, TypeOK, Endings
  <2> QED
    BY <1>1, <1>3, <2>1, RearmType, InvOfParts
<1> QED
  BY <1>2, <1>3 DEF LinkLost

\* Only the line, what is owed and the promise of calm are left to the outside.
LEMMA OutsideKeeps ==
  ASSUME WireInv, UNCHANGED <<transport, cur, buf, want, resync, last>>,
         line' \in Seq(TrueCells), owed' \subseteq Ids, calm' \in BOOLEAN
  PROVE  WireInv'
<1>1. /\ buf' \in Seq(TrueCells) /\ Len(buf') < want' /\ want' \in HeaderCells..(FrameCells + 1)
      /\ cur' \in [id : Ids, sync : BOOLEAN] \cup {None}
      /\ last' \in Endings /\ transport \in {"tcp", "rtu"}
      /\ resync' \in BOOLEAN
  BY DEF WireInv, TypeOK, Endings
<1> QED
  BY <1>1, InvOfParts

LEMMA EmitKeeps ==
  ASSUME WireInv, NEW i \in Ids, Emit(i)
  PROVE  WireInv'
<1>1. PICK f \in Answers(i) : line' = line \o f
  BY DEF Emit
<1>2. line' \in Seq(TrueCells)
  BY <1>1, AnswersType, ConcatProperties DEF WireInv
<1>3. owed' \subseteq Ids /\ calm' \in BOOLEAN
  BY DEF Emit, WireInv, TypeOK
<1> QED
  BY <1>2, <1>3, OutsideKeeps DEF Emit

\* A part of a frame, or a frame whose last cell is damaged.
LEMMA GarbledType ==
  ASSUME NEW f \in Seq(TrueCells), Len(f) = FrameCells,
         f[3].part = 3
  PROVE  {SubSeq(f, 1, 1), SubSeq(f, 2, 3), [f EXCEPT ![3].of = NoOne]} \subseteq Seq(TrueCells)
<1>1. Len(f) = 3 /\ 1 \in 1..Len(f) + 1 /\ 2 \in 1..Len(f) + 1 /\ 1 \in 0..Len(f) /\ 3 \in 0..Len(f)
      /\ 3 \in 1..Len(f)
  BY DEF FrameCells
<1>2. SubSeq(f, 1, 1) \in Seq(TrueCells) /\ SubSeq(f, 2, 3) \in Seq(TrueCells)
  BY <1>1, PartsOfSeq
<1>3. [f EXCEPT ![3].of = NoOne] \in Seq(TrueCells)
  <2> DEFINE c == [of |-> NoOne, part |-> 3, head |-> f[3].head]
  <2>1. f[3] \in TrueCells
    BY <1>1, ElementOfSeq
  <2>2. f[3] \in Cells /\ (transport = "tcp" => f[3].head.unit = NoOne)
    BY <2>1 DEF TrueCells, Truthful
  <2>3. c \in Cells
    BY <2>2 DEF Cells, FrameCells
  <2>4. c \in TrueCells
    BY <2>2, <2>3 DEF TrueCells, Truthful
  <2>5. [f[3] EXCEPT !.of = NoOne] = c
    BY <2>2 DEF Cells
  <2>6. [f EXCEPT ![3].of = NoOne] = [f EXCEPT ![3] = [f[3] EXCEPT !.of = NoOne]]
    OBVIOUS
  <2>7. [f EXCEPT ![3].of = NoOne] = [f EXCEPT ![3] = c]
    BY <2>5, <2>6
  <2> HIDE DEF c
  <2>8. [f EXCEPT ![3] = c] \in Seq(TrueCells)
    BY <1>1, <2>4, ExceptSeq
  <2> QED
    BY <2>7, <2>8
<1> QED
  BY <1>2, <1>3

LEMMA GarbleKeeps ==
  ASSUME WireInv, NEW i \in Ids, Garble(i)
  PROVE  WireInv'
<1>1. PICK f \in Answers(i) :
        \E g \in {SubSeq(f, 1, 1), SubSeq(f, 2, 3), [f EXCEPT ![3].of = NoOne]} : line' = line \o g
  BY DEF Garble
<1>2. f[3].part = 3
  BY DEF Answers, Frame, FrameCells
<1>3. line' \in Seq(TrueCells)
  <2>1. f \in Seq(TrueCells) /\ Len(f) = FrameCells
    BY AnswersType
  <2>2. PICK g \in Seq(TrueCells) : line' = line \o g
    BY <1>1, <1>2, <2>1, GarbledType
  <2>3. line \in Seq(TrueCells)
    BY DEF WireInv
  <2> QED
    BY <2>2, <2>3, ConcatProperties
<1>4. owed' \subseteq Ids /\ calm' \in BOOLEAN
  BY DEF Garble, WireInv, TypeOK
<1> QED
  BY <1>3, <1>4, OutsideKeeps DEF Garble

LEMMA NoiseKeeps ==
  ASSUME WireInv, Noise
  PROVE  WireInv'
<1> DEFINE c == [of |-> NoOne, part |-> FrameCells, head |-> Junk]
<1>1. c \in Cells
  BY JunkType DEF Cells, FrameCells
<1>2. c \in TrueCells
  BY <1>1, JunkType DEF TrueCells, Truthful, FrameCells
<1>3. line' \in Seq(TrueCells)
  <2>1. line' = Append(line, c) /\ line \in Seq(TrueCells)
    BY DEF Noise, WireInv
  <2> HIDE DEF c
  <2> QED
    BY <1>2, <2>1, AppendProperties
<1>4. owed' \subseteq Ids /\ calm' \in BOOLEAN
  BY DEF Noise, WireInv, TypeOK
<1> QED
  BY <1>3, <1>4, OutsideKeeps DEF Noise

LEMMA InitInv == Init => WireInv
<1> SUFFICES ASSUME Init PROVE WireInv
  OBVIOUS
<1>1. <<>> \in Seq(TrueCells) /\ <<>> \in Seq(Cells) /\ Len(<<>>) = 0
  BY EmptySeq
<1>2. cur \in [id : Ids, sync : BOOLEAN] \cup {None}
  BY DEF Init
<1>3. last \in Endings
  BY DEF Init, Codes, Endings
<1>4. want \in HeaderCells..(FrameCells + 1) /\ Len(buf) < want
  BY <1>1 DEF Init, HeaderCells, FrameCells
<1>5. TypeOK
  BY <1>1, <1>2, <1>3, <1>4 DEF Init, TypeOK, Endings
<1> QED
  BY <1>1, <1>5 DEF Init, WireInv

LEMMA StepInv == WireInv /\ [Next]_vars => WireInv'
<1> SUFFICES ASSUME WireInv, [Next]_vars PROVE WireInv'
  OBVIOUS
<1>1. CASE Read
  BY <1>1, ReadKeeps
<1>2. CASE \E i \in Ids, sync \in Syncs : Send(i, sync)
  BY <1>2, SendKeeps
<1>3. CASE Timeout
  BY <1>3, TimeoutKeeps
<1>4. CASE LinkLost
  BY <1>4, LinkLostKeeps
<1>5. CASE \E i \in Ids : Emit(i) \/ Garble(i)
  BY <1>5, EmitKeeps, GarbleKeeps
<1>6. CASE Noise
  BY <1>6, NoiseKeeps
<1>7. CASE CalmDown
  BY <1>7, OutsideKeeps DEF CalmDown, WireInv, TypeOK
<1>8. CASE UNCHANGED vars
  BY <1>8, OutsideKeeps DEF vars, WireInv, TypeOK
<1> QED
  BY <1>1, <1>2, <1>3, <1>4, <1>5, <1>6, <1>7, <1>8 DEF Next

LEMMA Invariance == Spec => []WireInv
BY InitInv, StepInv, PTL DEF Spec

\* The state of a request and of its reader (modbusmq_connect(), the two
\* frame_drain functions, modbusmq_read()) stays within its types; above all the
\* reader never holds as much as it waits for without having acted on it.
THEOREM TypeCorrect == Spec => []TypeOK
BY Invariance, PTL DEF WireInv

-----------------------------------------------------------------------------
(***************************************************************************)
(* Whose answer it is.                                                     *)
(***************************************************************************)
\* On TCP a frame that passes the header check answers the request.
LEMMA OursOnTcp ==
  ASSUME WireInv, cur # None, transport = "tcp", NEW b, NEW rest, Held(b, rest), Ours(b)
  PROVE  b[1].of = cur.id
<1>1. cur.id \in Ids /\ cur.id \in Nat
  BY WireAssumption DEF WireInv, TypeOK
<1>2. b[1] \in TrueCells
  BY HeldHead
<1>3. b[1].head.unit = cur.id
  BY DEF Ours, Addressed, HeadOf
<1>4. b[1].part = 1
  BY <1>1, <1>2, <1>3 DEF TrueCells, Truthful, NoOne
<1>5. b[1].of \in Ids /\ b[1].head = HeadOf(b[1].of, b[1].head.exc)
  BY <1>2, <1>4 DEF TrueCells, Truthful
<1>6. b[1].head.unit = b[1].of
  BY <1>5 DEF HeadOf
<1> QED
  BY <1>3, <1>6

\* On RTU a good answer that passes the header check and the CRC is one to a
\* request of the same slave, function and count.
LEMMA OursOnRtu ==
  ASSUME WireInv, cur # None, transport = "rtu", NEW b, NEW rest, Held(b, rest),
         Ours(b), ~b[1].head.exc, CrcHolds(b)
  PROVE  /\ b[1].of # NoOne
         /\ Match[b[1].of].unit = Match[cur.id].unit
         /\ Match[b[1].of].count = Match[cur.id].count
<1>1. b[1] \in TrueCells /\ b[1].part = 1 /\ b[1].of # NoOne
  BY HeldHead DEF CrcHolds, FrameCells
<1>2. b[1].of \in Ids /\ b[1].head = HeadOf(b[1].of, b[1].head.exc)
  BY <1>1 DEF TrueCells, Truthful
<1>3. /\ b[1].head.unit = Match[b[1].of].unit
      /\ b[1].head.count = Match[b[1].of].count
  BY <1>2 DEF HeadOf
<1>4. b[1].head.unit = Match[cur.id].unit /\ b[1].head.count = Match[cur.id].count
  BY DEF Ours, Addressed, HeadOf
<1> QED
  BY <1>1, <1>3, <1>4

LEMMA ReadAnswers ==
  ASSUME WireInv, AnswerFits, Read
  PROVE  AnswerFits'
<1>1. cur # None /\ transport' = transport /\ transport \in {"tcp", "rtu"} /\ cur.id # NoOne
  BY WireAssumption DEF Read, WireInv, TypeOK, NoOne
<1>2. PICK n, b, rest :
        /\ Held(b, rest)
        /\ \/ ReadMore(b, rest) \/ StepOver(b, rest) \/ Accept(b, rest) \/ Refused(b, rest)
           \/ BadAnswer(b, rest) \/ NoFrame(b, rest) \/ BadLength(b, rest)
  BY ReadCases
<1>3. CASE ReadMore(b, rest) \/ StepOver(b, rest)
  BY <1>1, <1>3 DEF ReadMore, StepOver, AnswerFits, Fitting, Alike
<1>4. CASE Accept(b, rest)
  <2>1. last' = [code |-> "answer", to |-> cur.id, of |-> b[1].of]
    BY <1>4 DEF Accept, Ends
  <2>2. CASE transport = "tcp"
    <3>1. b[1].of = cur.id
      BY <1>1, <1>2, <1>4, <2>2, OursOnTcp DEF Accept
    <3> QED
      BY <1>1, <2>1, <2>2, <3>1 DEF AnswerFits, Fitting, Alike, NoOne
  <2>3. CASE transport = "rtu"
    <3>1. /\ b[1].of # NoOne
          /\ Match[b[1].of].unit = Match[cur.id].unit
          /\ Match[b[1].of].count = Match[cur.id].count
      BY <1>1, <1>2, <1>4, <2>3, OursOnRtu DEF Accept
    <3> QED
      BY <1>1, <2>1, <2>3, <3>1 DEF AnswerFits, Fitting, Alike, NoOne
  <2> QED
    BY <1>1, <2>2, <2>3
<1>5. CASE Refused(b, rest)
  <2>1. last' = [code |-> "exception", to |-> cur.id, of |-> b[1].of]
    BY <1>5 DEF Refused, Ends
  <2>2. transport = "tcp" => b[1].of = cur.id
    BY <1>1, <1>2, <1>5, OursOnTcp DEF Refused
  <2> QED
    BY <1>1, <2>1, <2>2 DEF AnswerFits, Fitting, Alike, NoOne
<1>6. CASE BadAnswer(b, rest) \/ NoFrame(b, rest) \/ BadLength(b, rest)
  <2>1. last'.code = "failed"
    BY <1>6 DEF BadAnswer, NoFrame, BadLength, Ends
  <2> QED
    BY <2>1 DEF AnswerFits
<1> QED
  BY <1>2, <1>3, <1>4, <1>5, <1>6

LEMMA StepAnswers ==
  ASSUME WireInv, AnswerFits, [Next]_vars
  PROVE  AnswerFits'
<1>1. CASE Read
  BY <1>1, ReadAnswers
<1>2. CASE last' = last /\ transport' = transport
  BY <1>2 DEF AnswerFits, Fitting, Alike, NoOne
<1>3. CASE Timeout \/ LinkLost
  <2>1. transport' = transport /\ (last' = last \/ last'.code = "failed")
    BY <1>3 DEF Timeout, LinkLost, Ends
  <2> QED
    BY <1>2, <2>1 DEF AnswerFits
<1> QED
  BY <1>1, <1>2, <1>3 DEF Next, Send, Emit, Garble, Noise, CalmDown, vars

\* Whatever is late, in pieces or garbled, the header check of an answer and
\* its CRC (modbusmq_tcp_msg_check_header(), modbusmq_rtu_msg_check_header()) let
\* through what the transport can tell: on TCP, by the transaction id, only what
\* answers this request; on RTU only a whole answer to a request of the same
\* slave, function and count, which a late one to an earlier poll may be.
THEOREM AnswerFitsProved == Spec => []AnswerFits
<1>1. Init => AnswerFits
  BY DEF Init, AnswerFits
<1>2. WireInv /\ AnswerFits /\ [Next]_vars => AnswerFits'
  BY StepAnswers
<1> QED
  BY <1>1, <1>2, Invariance, PTL DEF Spec

-----------------------------------------------------------------------------
(***************************************************************************)
(* What is thrown away.                                                    *)
(***************************************************************************)

\* The reader waits for a header, and for the whole frame once it is sized.
WantFits ==
  /\ buf = <<>> => want = HeaderCells
  /\ buf # <<>> => cur # None /\ want = (IF Unsized(buf) THEN HeaderCells ELSE Size(buf))

LEMMA ReadFits ==
  ASSUME WireInv, WantFits, Read
  PROVE  WantFits'
<1>1. PICK n, b, rest :
        /\ Taken(n, b, rest) /\ Held(b, rest)
        /\ \/ ReadMore(b, rest) \/ StepOver(b, rest) \/ Accept(b, rest) \/ Refused(b, rest)
           \/ BadAnswer(b, rest) \/ NoFrame(b, rest) \/ BadLength(b, rest)
  BY ReadCases
<1>2. CASE ReadMore(b, rest)
  <2>1. /\ buf' = b /\ cur' = cur /\ transport' = transport /\ cur # None
        /\ want' = IF Unsized(b) THEN want ELSE Size(b)
    BY <1>2 DEF ReadMore, Read
  <2>2. /\ b \in Seq(TrueCells) /\ Len(b) \in Nat /\ Len(b) # 0
        /\ buf \in Seq(TrueCells) /\ Len(buf) \in Nat /\ want \in Nat
    BY <1>1 DEF Held, WireInv, TypeOK, HeaderCells, FrameCells
  <2>3. b # <<>>
    BY <2>2
  <2>4. Unsized(b) => want = HeaderCells
    <3>1. CASE buf = <<>>
      BY <3>1 DEF WantFits
    <3>2. CASE buf # <<>>
      <4>1. b = buf \o SubSeq(line, 1, n) /\ n \in 1..(want - Len(buf)) /\ n <= Len(line)
        BY <1>1, <3>2 DEF Taken
      <4>2. line \in Seq(TrueCells)
        BY DEF WireInv
      <4>3. SubSeq(line, 1, n) \in Seq(TrueCells)
        <5>1. 1 \in 1..(Len(line) + 1) /\ n \in 0..Len(line)
          BY <4>1, <4>2, <2>2
        <5> QED
          BY <5>1, <4>2, PartsOfSeq
      <4>4. Len(buf) <= Len(b)
        BY <4>1, <4>3, <2>2, ConcatProperties
      <4>5. Unsized(b) => Unsized(buf)
        BY <4>4, <2>2 DEF Unsized, HeaderCells
      <4> QED
        BY <3>2, <4>5 DEF WantFits
    <3> QED
      BY <3>1, <3>2
  <2>5. (Unsized(buf)' <=> Unsized(b)) /\ Size(buf)' = Size(b)
    BY <2>1 DEF Unsized, Size, Ours, Addressed, HeadOf
  <2>6. None' = None
    BY DEF None
  <2> QED
    BY <2>1, <2>3, <2>4, <2>5, <2>6 DEF WantFits
<1>3. ASSUME StepOver(b, rest) \/ Accept(b, rest) \/ Refused(b, rest) \/ BadAnswer(b, rest)
             \/ NoFrame(b, rest) \/ BadLength(b, rest)
      PROVE  buf' = <<>> /\ want' = HeaderCells
  BY <1>3 DEF StepOver, Accept, Refused, BadAnswer, NoFrame, BadLength, Ends, Rearm
<1> QED
  BY <1>1, <1>2, <1>3 DEF WantFits

LEMMA StepFits == WireInv /\ WantFits /\ [Next]_vars => WantFits'
<1> SUFFICES ASSUME WireInv, WantFits, [Next]_vars PROVE WantFits'
  OBVIOUS
<1>1. CASE Read
  BY <1>1, ReadFits
<1>2. CASE buf' = <<>> /\ want' = HeaderCells
  BY <1>2 DEF WantFits
<1>3. CASE UNCHANGED <<buf, want, cur, transport>>
  <2>1. (Unsized(buf)' <=> Unsized(buf)) /\ Size(buf)' = Size(buf)
    BY <1>3 DEF Unsized, Size, Ours, Addressed, HeadOf
  <2> QED
    BY <1>3, <2>1 DEF WantFits
<1> QED
  BY <1>1, <1>2, <1>3
     DEF Next, Send, Timeout, LinkLost, Emit, Garble, Noise, CalmDown, Ends, Rearm, vars

LEMMA WantAlways == Spec => [](WireInv /\ WantFits)
<1>1. Init => WantFits
  BY DEF Init, WantFits
<1> QED
  BY <1>1, StepFits, Invariance, PTL DEF Spec

\* While all that is not used up is whole frames, a read takes cells of the first.
LEMMA FirstFrame ==
  ASSUME WireInv, WantFits, InStep, cur # None,
         NEW n, NEW b, NEW rest, Taken(n, b, rest), Held(b, rest)
  PROVE  /\ Pending = b \o rest /\ Len(b) \in 1..FrameCells
         /\ b[1].of \in Ids /\ b[1].head = HeadOf(b[1].of, b[1].head.exc)
         /\ b[1].head.exc \in BOOLEAN
         /\ \A k \in 1..Len(b) : b[k].part = k /\ b[k].of = b[1].of
<1>1. /\ buf \in Seq(TrueCells) /\ line \in Seq(TrueCells) /\ Len(buf) \in Nat
      /\ Len(line) \in Nat /\ want \in 2..4
  BY DEF WireInv, TypeOK, HeaderCells, FrameCells
<1>2. n \in 1..(want - Len(buf)) /\ n <= Len(line) /\ n \in Nat
  BY <1>1 DEF Taken
<1>3. PICK s : s = SubSeq(line, 1, n)
  OBVIOUS
<1>4. /\ s \in Seq(TrueCells) /\ Len(s) = n /\ rest \in Seq(TrueCells)
      /\ \A k \in 1..n : s[k] = line[k]
  <2>1. 1 \in 1..(Len(line) + 1) /\ n \in 0..Len(line)
    BY <1>1, <1>2
  <2>2. s \in Seq(TrueCells)
    BY <1>1, <1>3, <2>1, PartsOfSeq
  <2> QED
    BY <1>1, <1>2, <1>3, <2>2 DEF Held
<1>5. line = s \o rest
  <2>1. PICK q : q = s \o rest
    OBVIOUS
  <2>2. rest = SubSeq(line, n + 1, Len(line)) /\ Len(rest) = Len(line) - n
    BY <1>1, <1>2 DEF Taken
  <2>3. /\ s \o rest \in Seq(TrueCells) /\ Len(s \o rest) = n + Len(rest)
        /\ \A k \in 1..n + Len(rest) : (s \o rest)[k] = IF k <= n THEN s[k] ELSE rest[k - n]
    BY <1>4, ConcatProperties
  <2>4. ASSUME NEW k \in 1..Len(line) PROVE line[k] = (s \o rest)[k]
    BY <1>1, <1>2, <1>4, <2>2, <2>3
  <2>5. q \in Seq(TrueCells) /\ Len(q) = n + Len(rest)
    BY <2>1, <2>3
  <2>6. Len(line) = Len(q)
    BY ONLY <1>1, <1>2, <2>2, <2>5
  <2>7. \A k \in 1..Len(line) : line[k] = q[k]
    BY ONLY <2>1, <2>4
  <2>8. line = q
    BY ONLY <1>1, <2>5, <2>6, <2>7, SeqEqual
  <2> QED
    BY <2>1, <2>8
<1>6. PICK p : p = Pending
  OBVIOUS
<1>7. p \in Seq(TrueCells) /\ Len(p) = Len(buf) + Len(line) /\ p = buf \o line
  BY <1>1, <1>6, ConcatProperties DEF Pending
<1>8. 1 \in 1..Len(p) /\ p[1] \in TrueCells
  BY <1>1, <1>2, <1>7, ElementOfSeq
<1>9. \A k \in 1..Len(p) :
        /\ p[k].part = ((k - 1) % FrameCells) + 1
        /\ p[k].part > 1 => p[k].of = p[k - 1].of
  <2>1. DOMAIN p = 1..Len(p)
    BY <1>7
  <2>2. DOMAIN Pending = 1..Len(p)
    BY <1>6, <2>1
  <2> QED
    BY ONLY <1>6, <2>2, InStep, Zenon DEF InStep
<1>10. /\ p[1].part = 1 /\ p[1].of \in Ids /\ p[1].head = HeadOf(p[1].of, p[1].head.exc)
       /\ p[1].head.exc \in BOOLEAN
  <2>1. p[1].part = 1
    BY <1>8, <1>9 DEF FrameCells
  <2>2. p[1].head \in Heads
    BY <1>8 DEF TrueCells, Cells
  <2> QED
    BY <1>8, <2>1, <2>2 DEF TrueCells, Truthful, Heads
<1>11. b = buf \o s
  <2>1. CASE buf = <<>>
    <3>1. p = line /\ buf \o s = s
      BY <1>1, <1>4, <1>7, <2>1, ConcatEmptySeq
    <3>2. s[1] = p[1]
      BY <1>2, <1>4, <3>1
    <3>3. b \in Start(s)
      BY <1>3, <2>1 DEF Taken
    <3> QED
      BY <1>10, <3>1, <3>2, <3>3 DEF Start
  <2>2. CASE buf # <<>>
    BY <1>3, <2>2 DEF Taken
  <2> QED
    BY <2>1, <2>2
<1>12. p = b \o rest
  BY <1>1, <1>4, <1>5, <1>7, <1>11, ConcatAssociative, SMTT(20)
<1>13. b \in Seq(TrueCells) /\ Len(b) = Len(buf) + n /\ Len(b) <= Len(p) /\ Len(b) \in Nat \ {0}
       /\ \A k \in 1..Len(b) : b[k] = p[k]
  <2>1. b \in Seq(TrueCells) /\ Len(b) = Len(buf) + n
    BY <1>1, <1>4, <1>11, ConcatProperties
  <2>2. Len(b) <= Len(p) /\ Len(b) \in Nat \ {0}
    BY <1>1, <1>2, <1>7, <2>1
  <2>3. Len(rest) \in Nat /\ \A k \in 1..Len(b) + Len(rest) : k <= Len(b) => p[k] = b[k]
    BY <1>4, <1>12, <2>1, ConcatProperties
  <2> QED
    BY <2>1, <2>2, <2>3
<1>14. Len(b) <= 3
  <2>1. CASE buf = <<>>
    <3>1. want = 2 /\ Len(buf) = 0
      BY <2>1 DEF WantFits, HeaderCells
    <3> QED
      BY <1>2, <1>13, <3>1
  <2>2. CASE buf # <<>>
    <3>1. buf[1] = p[1]
      <4>1. Len(buf) # 0
        BY <1>1, <2>2
      <4> QED
        BY <1>1, <1>7, <4>1, ConcatProperties
    <3>2. Size(buf) = 3
      <4>1. p[1].head.len = FrameCells
        BY <1>10, HeadType
      <4> QED
        BY <3>1, <4>1 DEF Size, FrameCells
    <3>3. want \in {2, 3}
      BY <2>2, <3>2 DEF WantFits, HeaderCells
    <3> QED
      BY <1>1, <1>2, <1>13, <3>3
  <2> QED
    BY <2>1, <2>2
<1>15. ASSUME NEW k \in 1..Len(b) PROVE b[k].part = k /\ b[k].of = b[1].of
  <2>1. k \in 1..Len(p) /\ k \in {1, 2, 3} /\ b[k] = p[k] /\ b[1] = p[1]
    BY <1>13, <1>14, <1>7, <1>1, SMTT(20)
  <2>2. p[k].part = k
    <3>1. p[k].part = ((k - 1) % 3) + 1
      BY <1>9, <2>1 DEF FrameCells
    <3>2. ((1 - 1) % 3) + 1 = 1 /\ ((2 - 1) % 3) + 1 = 2 /\ ((3 - 1) % 3) + 1 = 3
      OBVIOUS
    <3>3. ((k - 1) % 3) + 1 = k
      BY ONLY <2>1, <3>2
    <3> QED
      BY ONLY <3>1, <3>3
  <2>3. k > 1 => p[k].of = p[k - 1].of
    BY <1>9, <2>1, <2>2
  <2>4. k = 3 => p[2].of = p[1].of
    <3>1. k = 3 => 2 \in 1..Len(p)
      BY <2>1
    <3>2. k = 3 => p[2].part = 2
      BY <1>9, <3>1 DEF FrameCells
    <3>3. 2 - 1 = 1 /\ 2 > 1
      OBVIOUS
    <3> QED
      BY <1>9, <3>1, <3>2, <3>3
  <2>5. 3 - 1 = 2 /\ 2 - 1 = 1 /\ 3 > 1 /\ 2 > 1
    OBVIOUS
  <2> QED
    BY <2>1, <2>2, <2>3, <2>4, <2>5
<1>16. b[1] = p[1]
  BY <1>13
<1> QED
  BY <1>6, <1>10, <1>12, <1>13, <1>14, <1>15, <1>16 DEF FrameCells

CellsOf(p, x) == {k \in DOMAIN p : p[k].of = x}

\* For each cell of x in p there is one in q, d places before.
Covers(q, p, d, x) ==
  \A k \in 1..Len(p) : p[k].of = x => k - d \in 1..Len(q) /\ q[k - d].of = x

LEMMA MoreOwn ==
  ASSUME NEW p \in Seq(Cells), NEW q \in Seq(Cells), NEW d \in Nat, NEW x, Covers(q, p, d, x)
  PROVE  Cardinality(CellsOf(q, x)) >= Cardinality(CellsOf(p, x))
<1>1. PICK A, B : A = CellsOf(p, x) /\ B = CellsOf(q, x)
  OBVIOUS
<1>2. DOMAIN p = 1..Len(p) /\ DOMAIN q = 1..Len(q) /\ Len(p) \in Nat /\ Len(q) \in Nat
  OBVIOUS
<1>3. IsFiniteSet(A) /\ Cardinality(A) \in Nat /\ IsFiniteSet(B) /\ Cardinality(B) \in Nat
  <2>1. A \in SUBSET (1..Len(p)) /\ B \in SUBSET (1..Len(q))
    BY <1>1, <1>2 DEF CellsOf
  <2>2. IsFiniteSet(1..Len(p)) /\ IsFiniteSet(1..Len(q))
    BY <1>2, FS_Interval
  <2>3. IsFiniteSet(A) /\ IsFiniteSet(B)
    BY <2>1, <2>2, FS_Subset
  <2> QED
    BY <2>3, FS_CardinalityType
<1>4. PICK f : f = [k \in A |-> k - d]
  OBVIOUS
<1>5. f \in Injection(A, B)
  <2>1. A \subseteq Nat /\ \A k \in A : k - d \in B
    BY <1>1, <1>2 DEF CellsOf, Covers
  <2>2. f \in [A -> B] /\ \A j, k \in A : f[j] = f[k] => j = k
    BY <1>4, <2>1
  <2> QED
    BY <2>2 DEF Injection, IsInjective
<1>6. Cardinality(A) <= Cardinality(B)
  BY <1>3, <1>5, FS_Injection
<1> QED
  BY <1>1, <1>3, <1>6

LEMMA ReadThrowsNone ==
  ASSUME WireInv, WantFits, InStep, Read, cur' = cur
  PROVE  OwnBytes' >= OwnBytes
<1>1. cur # None /\ cur.id \in Ids /\ cur' # None
  BY DEF Read, WireInv, TypeOK
<1>2. PICK n, b, rest :
        /\ Taken(n, b, rest) /\ Held(b, rest)
        /\ \/ ReadMore(b, rest) \/ StepOver(b, rest) \/ Accept(b, rest) \/ Refused(b, rest)
           \/ BadAnswer(b, rest) \/ NoFrame(b, rest) \/ BadLength(b, rest)
  BY ReadCases
<1>3. /\ Pending = b \o rest /\ Len(b) \in 1..FrameCells
      /\ b[1].of \in Ids /\ b[1].head = HeadOf(b[1].of, b[1].head.exc)
      /\ b[1].head.exc \in BOOLEAN
      /\ \A k \in 1..Len(b) : b[k].part = k /\ b[k].of = b[1].of
  BY <1>1, <1>2, FirstFrame
<1>4. PICK p, q : p = Pending /\ q = Pending'
  OBVIOUS
<1>5. /\ b \in Seq(Cells) /\ rest \in Seq(Cells) /\ Len(b) \in Nat /\ Len(rest) \in Nat
  BY <1>2, TrueCellsAreCells DEF Held
<1>6. /\ p = b \o rest /\ p \in Seq(Cells) /\ Len(p) = Len(b) + Len(rest)
      /\ \A k \in 1..Len(p) : p[k] = IF k <= Len(b) THEN b[k] ELSE rest[k - Len(b)]
  BY <1>3, <1>4, <1>5, ConcatProperties
<1>7. /\ OwnBytes = Cardinality(CellsOf(p, cur.id))
      /\ OwnBytes' = Cardinality(CellsOf(q, cur.id))
  BY <1>4 DEF OwnBytes, CellsOf
<1>8. b[1].head.len = FrameCells /\ b[1].of # NoOne
  <2>1. b[1].head.len = FrameCells
    BY <1>3, HeadType
  <2>2. \A i \in Ids : i # NoOne
    BY WireAssumption DEF NoOne
  <2> QED
    BY <1>3, <2>1, <2>2
<1>9. CASE ReadMore(b, rest)
  <2>1. q = p
    BY <1>4, <1>6, <1>9 DEF ReadMore, Pending
  <2>2. Covers(q, p, 0, cur.id)
    BY <1>5, <1>6, <2>1 DEF Covers
  <2> QED
    BY <1>6, <1>7, <2>1, <2>2, MoreOwn
<1>10. CASE StepOver(b, rest)
  <2>1. ~Ours(b)
    BY <1>10 DEF StepOver
  <2>2. b[1].of # cur.id
    <3>1. SUFFICES ASSUME b[1].of = cur.id PROVE FALSE
      OBVIOUS
    <3>2. b[1].head = HeadOf(cur.id, b[1].head.exc)
      BY <1>3, <3>1
    <3>3. /\ HeadOf(cur.id, b[1].head.exc).unit = HeadOf(cur.id, FALSE).unit
          /\ HeadOf(cur.id, b[1].head.exc).count = HeadOf(cur.id, FALSE).count
      BY DEF HeadOf
    <3> QED
      BY <2>1, <3>2, <3>3 DEF Ours, Addressed
  <2>3. q = rest
    <3>1. buf' = <<>> /\ line' = rest
      BY <1>10 DEF StepOver, Rearm
    <3> QED
      BY <1>4, <1>5, <3>1, ConcatEmptySeq DEF Pending
  <2>4. Covers(q, p, Len(b), cur.id)
    <3> SUFFICES ASSUME NEW k \in 1..Len(p), p[k].of = cur.id
                 PROVE  k - Len(b) \in 1..Len(q) /\ q[k - Len(b)].of = cur.id
      BY DEF Covers
    <3>1. CASE k <= Len(b)
      <4>1. k \in 1..Len(b) /\ p[k] = b[k]
        BY <1>5, <1>6, <3>1
      <4> QED
        BY <1>3, <2>2, <4>1
    <3>2. CASE ~(k <= Len(b))
      <4>1. k - Len(b) \in 1..Len(q) /\ p[k] = q[k - Len(b)]
        BY <1>5, <1>6, <2>3, <3>2
      <4> QED
        BY <4>1
    <3> QED
      BY <3>1, <3>2
  <2> QED
    BY <1>5, <1>6, <1>7, <2>3, <2>4, MoreOwn
<1>11. CASE NoFrame(b, rest)
  <2>1. Size(b) = FrameCells
    BY <1>8 DEF Size
  <2>2. ~(b[1].head.len < Len(b))
    BY <1>3, <1>8 DEF FrameCells
  <2>3. Len(b) = FrameCells /\ ~CrcHolds(b)
    BY <1>11, <2>1, <2>2 DEF NoFrame
  <2>4. \A k \in 1..FrameCells : b[k].of = b[1].of /\ b[k].part = k
    BY <1>3, <2>3
  <2> QED
    BY <1>8, <2>3, <2>4 DEF CrcHolds
<1>12. ASSUME Accept(b, rest) \/ Refused(b, rest) \/ BadAnswer(b, rest) \/ BadLength(b, rest)
       PROVE  FALSE
  <2>1. cur' = None
    BY <1>12 DEF Accept, Refused, BadAnswer, BadLength, Ends
  <2> QED
    BY <1>1, <2>1
<1> QED
  BY <1>2, <1>9, <1>10, <1>11, <1>12

\* More arrives behind what is there.
LEMMA LineThrowsNone ==
  ASSUME WireInv, NEW g \in Seq(Cells), line' = line \o g, buf' = buf, cur' = cur
  PROVE  OwnBytes' >= OwnBytes
<1>1. buf \in Seq(Cells) /\ line \in Seq(Cells)
  BY DEF WireInv, TypeOK
<1>2. PICK p, q : p = Pending /\ q = Pending'
  OBVIOUS
<1>3. p \in Seq(Cells) /\ q = p \o g
  <2>1. p = buf \o line /\ q = buf \o (line \o g)
    BY <1>2 DEF Pending
  <2> QED
    BY <1>1, <2>1, ConcatProperties, ConcatAssociative, SMTT(20)
<1>4. q \in Seq(Cells) /\ Len(q) = Len(p) + Len(g) /\ \A k \in 1..Len(p) : q[k] = p[k]
  <2>1. Len(p) \in Nat /\ Len(g) \in Nat
    BY <1>3
  <2>2. /\ q \in Seq(Cells) /\ Len(q) = Len(p) + Len(g)
        /\ \A k \in 1..Len(p) + Len(g) : q[k] = IF k <= Len(p) THEN p[k] ELSE g[k - Len(p)]
    BY <1>3, ConcatProperties
  <2> QED
    BY <2>1, <2>2
<1>5. Covers(q, p, 0, cur.id)
  BY <1>3, <1>4 DEF Covers
<1>6. /\ OwnBytes = Cardinality(CellsOf(p, cur.id))
      /\ OwnBytes' = Cardinality(CellsOf(q, cur.id))
  BY <1>2 DEF OwnBytes, CellsOf
<1> QED
  BY <1>3, <1>4, <1>5, <1>6, MoreOwn

\* Stepping over a stale frame (modbusmq_frame_drain() with its reader rearmed)
\* takes from the line no byte of the answer to the request that waits, nor does
\* any other step that leaves it waiting, while the frames are in step.
THEOREM OwnAnswerKeptProved == Spec => OwnAnswerKept
<1>1. WireInv /\ WantFits /\ [Next]_vars =>
        (cur # None /\ cur' = cur /\ InStep => OwnBytes' >= OwnBytes)
  <2> SUFFICES ASSUME WireInv, WantFits, [Next]_vars, cur # None, cur' = cur, InStep
               PROVE  OwnBytes' >= OwnBytes
    OBVIOUS
  <2>1. CASE Read
    BY <2>1, ReadThrowsNone
  <2>2. CASE (\E i \in Ids, sync \in Syncs : Send(i, sync)) \/ Timeout \/ LinkLost
    <3>1. cur' = None
      BY <2>2 DEF Send, Timeout, LinkLost, Ends
    <3> QED
      BY <3>1
  <2>3. ASSUME NEW i \in Ids, Emit(i) PROVE OwnBytes' >= OwnBytes
    <3>1. PICK f \in Answers(i) : line' = line \o f
      BY <2>3 DEF Emit
    <3>2. f \in Seq(Cells)
      BY AnswersType, TrueCellsAreCells
    <3> QED
      BY <2>3, <3>1, <3>2, LineThrowsNone DEF Emit
  <2>4. ASSUME NEW i \in Ids, Garble(i) PROVE OwnBytes' >= OwnBytes
    <3>1. PICK f \in Answers(i) :
            \E g \in {SubSeq(f, 1, 1), SubSeq(f, 2, 3), [f EXCEPT ![3].of = NoOne]} :
              line' = line \o g
      BY <2>4 DEF Garble
    <3>2. f \in Seq(TrueCells) /\ Len(f) = FrameCells /\ f[3].part = 3
      BY AnswersType DEF Answers, Frame, FrameCells
    <3>3. PICK g \in Seq(TrueCells) : line' = line \o g
      BY <3>1, <3>2, GarbledType
    <3>4. g \in Seq(Cells)
      BY TrueCellsAreCells
    <3> QED
      BY <2>4, <3>3, <3>4, LineThrowsNone DEF Garble
  <2>5. CASE Noise
    <3>1. PICK c : c = [of |-> NoOne, part |-> FrameCells, head |-> Junk]
      OBVIOUS
    <3>2. c \in Cells
      BY <3>1, JunkType DEF Cells, FrameCells
    <3>3. line' = line \o <<c>> /\ <<c>> \in Seq(Cells)
      BY <2>5, <3>1, <3>2, AppendIsConcat DEF Noise, WireInv, TypeOK
    <3> QED
      BY <2>5, <3>3, LineThrowsNone DEF Noise
  <2>6. CASE CalmDown \/ UNCHANGED vars
    <3>1. line \in Seq(Cells) /\ <<>> \in Seq(Cells) /\ line' = line /\ buf' = buf
      BY <2>6 DEF CalmDown, vars, WireInv, TypeOK
    <3>2. line' = line \o <<>>
      BY <3>1, ConcatEmptySeq
    <3> QED
      BY <3>1, <3>2, LineThrowsNone
  <2> QED
    BY <2>1, <2>2, <2>3, <2>4, <2>5, <2>6 DEF Next
<1> QED
  BY <1>1, WantAlways, PTL DEF Spec, OwnAnswerKept
=============================================================================
