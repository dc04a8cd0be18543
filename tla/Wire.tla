-------------------------------- MODULE Wire --------------------------------
(***************************************************************************)
(* One request of libmodbusmq on the wire and the answers that come back,  *)
(* over Modbus TCP and over Modbus RTU (lib/modbusmq.c, modbusmq_tcp.c,    *)
(* modbusmq_rtu.c).  Answers may be late, in pieces, behind the answers of *)
(* requests given up on, and on a serial line garbled or pure noise.  The  *)
(* library tells them apart by the transaction id (TCP) or by slave,       *)
(* function and byte count (RTU), steps over a frame that is not the one   *)
(* it waits for, and drains the line when it lost the boundaries.          *)
(*                                                                         *)
(* A frame is three cells: what names it (transaction id and length; slave *)
(* and function), what TCP still counts to its header (unit and function;  *)
(* byte count or exception code), and the rest with the CRC.  Writing a    *)
(* request is one step here; RequestQueue has it in pieces.                *)
(***************************************************************************)
EXTENDS Integers, SequencesExt

CONSTANTS
  Ids,       \* bound: names of the requests that leave a trace; a name is used
             \* again once nothing of the old request is left anywhere
  Match,     \* what an RTU answer to a request shows: [unit, count]
  Refusable, \* requests the device may answer with an exception
  Syncs,     \* by modbusmq_send (TRUE), by the event loop (FALSE), or both
  Lens,      \* bound: cells announced by bytes that are no header
  MaxLate    \* bound: older requests whose answers may still come

NoOne == -1
FrameCells == 3
HeaderCells == 2   \* header_length: 8 bytes on TCP, 3 on RTU

ASSUME WireAssumption ==
  /\ Ids \subseteq Nat
  /\ Match \in [Ids -> [unit : Nat, count : Nat]]
  /\ Refusable \subseteq Ids
  /\ Syncs \subseteq BOOLEAN
  /\ Lens \subseteq HeaderCells..(FrameCells + 1)
  /\ MaxLate \in Nat

VARIABLES
  transport,  \* the kind of context: tcp or rtu
  cur,        \* the request on the wire; sync: it was sent by modbusmq_send
  buf,        \* reader->buf, up to reader->xmit
  want,       \* reader->length
  line,       \* bytes arrived and not read, or on their way
  owed,       \* requests whose answer the device has still to send
  resync,     \* resync_pending
  last,       \* history: what the last request, to, ended with, and the request
              \* that was an answer of, or NoOne
  calm        \* environment: from now on every request is answered in time,
              \* and nothing is garbled

vars == <<transport, cur, buf, want, line, owed, resync, last, calm>>

None == [id |-> NoOne, sync |-> FALSE]
\* What bytes say when they are read as the start of a frame.
Heads == [unit : Nat \cup {NoOne}, count : Nat, exc : BOOLEAN, len : 0..(FrameCells + 1)]
Cells == [of : Ids \cup {NoOne}, part : 1..FrameCells, head : Heads]
Codes == {"none", "answer", "exception", "failed"}

Junk == [unit |-> NoOne, count |-> 0, exc |-> FALSE, len |-> 0]

\* The head of the answer to request i.
HeadOf(i, exc) ==
  IF transport = "tcp" THEN [unit |-> i, count |-> 0, exc |-> exc, len |-> FrameCells]
  ELSE [unit |-> Match[i].unit, count |-> Match[i].count, exc |-> exc, len |-> FrameCells]

\* The answer to request i, and the frames the device may answer with.
Frame(i, exc) ==
  [k \in 1..FrameCells |-> [of |-> i, part |-> k, head |-> IF k = 1 THEN HeadOf(i, exc) ELSE Junk]]

Answers(i) == {Frame(i, exc) : exc \in {b \in BOOLEAN : b => i \in Refusable}}

\* Bytes that are no header, read as one, announce no usable length, or some
\* length and nobody's id; on RTU, where an id is a byte or two, also ours.
Looks ==
  {Junk} \cup {[Junk EXCEPT !.len = n] : n \in Lens} \cup
  (IF transport = "tcp" THEN {} ELSE {HeadOf(cur.id, exc) : exc \in BOOLEAN})

\* The reader that starts with the cells s.
Start(s) ==
  IF s[1].part = 1 THEN {s} ELSE {[s EXCEPT ![1].head = h] : h \in Looks}

\* Requests a trace of which is left.
Lingering ==
  owed \cup ({c.of : c \in ToSet(line)} \ {NoOne})

-----------------------------------------------------------------------------
(***************************************************************************)
(* Reading.  b is what the reader holds, at least one cell.                *)
(***************************************************************************)

\* Mutant: the byte count of an answer is not compared.
AddressedAnyCount(h) == h.unit = HeadOf(cur.id, FALSE).unit

\* Mutant: an exception is nobody's frame.
AddressedGoodOnly(h) ==
  /\ h.unit = HeadOf(cur.id, FALSE).unit
  /\ ~h.exc /\ h.count = HeadOf(cur.id, FALSE).count

\* The header check: is this frame addressed to the request on the wire?  An
\* exception carries no byte count.
Addressed(h) ==
  /\ h.unit = HeadOf(cur.id, FALSE).unit
  /\ h.exc \/ h.count = HeadOf(cur.id, FALSE).count

Ours(b) == Addressed(b[1].head)

\* Before its third byte an RTU frame says nothing.
Unsized(b) == transport = "rtu" /\ Len(b) < HeaderCells
Size(b) == IF Ours(b) THEN FrameCells ELSE b[1].head.len

\* The CRC of a frame holds exactly if it is one whole frame.
CrcHolds(b) ==
  \/ transport = "tcp"
  \/ /\ b[1].of # NoOne
     /\ Len(b) = FrameCells
     /\ \A k \in 1..FrameCells : b[k].of = b[1].of /\ b[k].part = k

\* What may be left of line once it was drained: modbusmq_tcp_flush() takes
\* what has arrived, modbusmq_rtu_flush() goes on until the line is silent.
Drained(s) ==
  IF transport = "rtu" THEN {<<>>}
  ELSE Suffixes(s)

Rearm == buf' = <<>> /\ want' = HeaderCells

Ends(code, of) ==
  /\ cur' = None
  /\ last' = [code |-> code, to |-> cur.id, of |-> of]
  /\ Rearm

\* The link is closed and opened again: a TCP stream starts afresh, a serial
\* line goes on under the new descriptor.
Reopen ==
  /\ IF transport = "tcp" THEN line' = <<>> /\ owed' = {}
     ELSE line' \in Suffixes(line) /\ UNCHANGED owed
  /\ resync' = TRUE

\* More of the frame is needed; once it is sized no read goes beyond it.
ReadMore(b, rest) ==
  /\ Unsized(b) \/ Len(b) < Size(b)
  /\ buf' = b
  /\ want' = IF Unsized(b) THEN want ELSE Size(b)
  /\ line' = rest
  /\ UNCHANGED <<cur, owed, resync, last>>

\* Mutant: whatever is waiting behind the stale frame is flushed with it.
StepOverFlushing(b, rest) ==
  /\ ~Unsized(b) /\ ~Ours(b) /\ Len(b) = Size(b)
  /\ CrcHolds(b)
  /\ Rearm
  /\ line' \in Drained(rest)
  /\ UNCHANGED <<cur, owed, resync, last>>

\* modbusmq_frame_drain(): a whole frame that is not ours.
StepOver(b, rest) ==
  /\ ~Unsized(b) /\ ~Ours(b) /\ Len(b) = Size(b)
  /\ CrcHolds(b)
  /\ Rearm
  /\ line' = rest
  /\ UNCHANGED <<cur, owed, resync, last>>

\* The answer is complete and checked.
Accept(b, rest) ==
  /\ Ours(b) /\ ~b[1].head.exc /\ Len(b) = FrameCells
  /\ CrcHolds(b)
  /\ Ends("answer", b[1].of)
  /\ line' = rest
  /\ UNCHANGED <<owed, resync>>

\* An exception is complete.  On TCP the header check stops at it; on RTU it
\* is a finished frame that modbusmq_check() refuses before it looks at the
\* CRC, after which the line is drained.
Refused(b, rest) ==
  /\ Ours(b) /\ b[1].head.exc /\ Len(b) = FrameCells
  /\ Ends("exception", b[1].of)
  /\ IF transport = "tcp" THEN line' = rest /\ UNCHANGED resync
     ELSE line' \in Drained(rest) /\ resync' = TRUE
  /\ UNCHANGED owed

\* RTU: an answer of the right shape whose CRC fails ends the request.
BadAnswer(b, rest) ==
  /\ Ours(b) /\ ~b[1].head.exc /\ Len(b) = FrameCells
  /\ ~CrcHolds(b)
  /\ Ends("failed", NoOne)
  /\ line' \in Drained(rest)
  /\ resync' = TRUE
  /\ UNCHANGED owed

\* RTU: what was read is no frame.  The event loop gives the request up,
\* modbusmq_send() goes on waiting with a fresh reader.
NoFrame(b, rest) ==
  /\ transport = "rtu" /\ ~Unsized(b) /\ ~Ours(b)
  /\ b[1].head.len < Len(b) \/ (Len(b) = Size(b) /\ ~CrcHolds(b))
  /\ IF cur.sync
     THEN UNCHANGED cur /\ last' = [code |-> "failed", to |-> cur.id, of |-> NoOne] /\ Rearm
     ELSE Ends("failed", NoOne)
  /\ line' \in Drained(rest)
  /\ resync' = TRUE
  /\ UNCHANGED owed

\* TCP: modbusmq_tcp_read() fails on a length that cannot be.  The event loop
\* closes the link, modbusmq_send() gives up and leaves everything as it is.
BadLength(b, rest) ==
  /\ transport = "tcp" /\ b[1].head.len = 0
  /\ Ends("failed", NoOne)
  /\ IF cur.sync THEN line' = rest /\ UNCHANGED <<owed, resync>> ELSE Reopen

\* POLLIN: a read returns at most what completes the reader.
Read ==
  /\ cur # None
  /\ \E n \in 1..(want - Len(buf)) :
       /\ n <= Len(line)
       /\ \E b \in IF buf = <<>> THEN Start(SubSeq(line, 1, n)) ELSE {buf \o SubSeq(line, 1, n)} :
          LET rest == SubSeq(line, n + 1, Len(line))
          IN \/ ReadMore(b, rest)
             \/ StepOver(b, rest)
             \/ Accept(b, rest)
             \/ Refused(b, rest)
             \/ BadAnswer(b, rest)
             \/ NoFrame(b, rest)
             \/ BadLength(b, rest)
  /\ UNCHANGED <<transport, calm>>

-----------------------------------------------------------------------------
(***************************************************************************)
(* Sending and giving up.                                                  *)
(***************************************************************************)

\* The request goes out, by the event loop or by modbusmq_send(), and the
\* device takes it up or not.
Send(i, sync) ==
  /\ cur = None
  /\ i \notin Lingering
  /\ ~calm => Cardinality(Lingering) <= MaxLate
  /\ cur' = [id |-> i, sync |-> sync]
  /\ line' \in IF resync THEN Drained(line) ELSE {line}
  /\ resync' = FALSE
  /\ Rearm
  /\ owed' = owed \cup {i} \/ (~calm /\ UNCHANGED owed)
  /\ UNCHANGED <<transport, last, calm>>

Quiet == owed = {} /\ line = <<>>

\* modbusmq_loop_prepare(): the time is up, the line is drained, and once
\* more before the next request.
TimeoutDrains ==
  /\ ~cur.sync
  /\ line' \in Drained(line)
  /\ resync' = TRUE

\* modbusmq_send() drains nothing when its time is up.
TimeoutSync ==
  /\ cur.sync
  /\ UNCHANGED <<line, resync>>

Timeout ==
  /\ cur # None
  /\ calm => Quiet
  /\ TimeoutDrains \/ TimeoutSync
  /\ Ends("failed", NoOne)
  /\ UNCHANGED <<transport, owed, calm>>

\* The link is lost, or closed by the application after a request that failed
\* (the query tool ends) and opened again.
LinkLost ==
  /\ calm => cur = None /\ last.code = "failed"
  /\ IF cur = None THEN UNCHANGED <<cur, last>> /\ Rearm ELSE Ends("failed", NoOne)
  /\ Reopen
  /\ UNCHANGED <<transport, calm>>

-----------------------------------------------------------------------------
(***************************************************************************)
(* The device and the line.                                                *)
(***************************************************************************)
Pending == buf \o line
\* Everything not yet used up is whole frames.
InStep ==
  /\ Len(Pending) % FrameCells = 0
  /\ \A k \in DOMAIN Pending :
       /\ Pending[k].of # NoOne
       /\ Pending[k].part = ((k - 1) % FrameCells) + 1
       /\ Pending[k].part > 1 => Pending[k].of = Pending[k - 1].of

Emit(i) ==
  /\ i \in owed
  /\ owed' = owed \ {i}
  /\ \E f \in Answers(i) : line' = line \o f
  /\ UNCHANGED <<transport, cur, buf, want, resync, last, calm>>

\* Only a part of an RTU frame is received, or its CRC is wrong.  The line is
\* disturbed again only after the library got over the last disturbance.
Garble(i) ==
  /\ transport = "rtu" /\ ~calm
  /\ i \in owed
  /\ owed' = owed \ {i}
  /\ InStep
  /\ \E f \in Answers(i) :
     \E g \in {SubSeq(f, 1, 1), SubSeq(f, 2, 3), [f EXCEPT ![3].of = NoOne]} :
       line' = line \o g
  /\ UNCHANGED <<transport, cur, buf, want, resync, last, calm>>

Noise ==
  /\ transport = "rtu" /\ ~calm
  /\ InStep
  /\ line' = Append(line, [of |-> NoOne, part |-> FrameCells, head |-> Junk])
  /\ UNCHANGED <<transport, cur, buf, want, owed, resync, last, calm>>

CalmDown ==
  /\ ~calm
  /\ calm' = TRUE
  /\ UNCHANGED <<transport, cur, buf, want, line, owed, resync, last>>

Init ==
  /\ transport \in {"tcp", "rtu"}
  /\ cur = None
  /\ buf = <<>>
  /\ want = HeaderCells
  /\ line = <<>>
  /\ owed = {}
  /\ resync = TRUE
  /\ last = [code |-> "none", to |-> NoOne, of |-> NoOne]
  /\ calm = FALSE

Next ==
  \/ Read
  \/ \E i \in Ids, sync \in Syncs : Send(i, sync)
  \/ Timeout
  \/ LinkLost
  \/ \E i \in Ids : Emit(i) \/ Garble(i)
  \/ Noise
  \/ CalmDown

Spec == Init /\ [][Next]_vars

\* The loop keeps turning, the application keeps asking and the device sends
\* what it owes.
FairSpec ==
  /\ Spec
  /\ WF_vars(Read)
  /\ WF_vars(\E i \in Ids, sync \in Syncs : Send(i, sync))
  /\ WF_vars(Timeout)
  /\ \A i \in Ids : WF_vars(Emit(i))

-----------------------------------------------------------------------------
TypeOK ==
  /\ transport \in {"tcp", "rtu"}
  /\ cur \in [id : Ids, sync : BOOLEAN] \cup {None}
  /\ buf \in Seq(Cells) /\ Len(buf) < want
  /\ want \in HeaderCells..(FrameCells + 1)
  /\ line \in Seq(Cells)
  /\ owed \subseteq Ids
  /\ resync \in BOOLEAN
  /\ last \in [code : Codes, to : Ids \cup {NoOne}, of : Ids \cup {NoOne}]
  /\ calm \in BOOLEAN

\* What there is to tell the answers to i and j apart by: the transaction id
\* on TCP; on RTU slave, function and byte count, of which an exception shows
\* no count.
Alike(code, i, j) ==
  IF transport = "tcp" THEN i = j
  ELSE Match[i].unit = Match[j].unit /\ (code = "answer" => Match[i].count = Match[j].count)

\* The last request ended with a whole frame that the device sent in answer to
\* it, or to one it cannot be told from.
Fitting == last.of # NoOne /\ Alike(last.code, last.of, last.to)

\* However late, torn or garbled answers are: on TCP an answer or an exception
\* that is accepted belongs to the request; on RTU an accepted answer is a
\* whole one to a request of the same slave, function and count.  It may be
\* the late answer of an earlier one that looks the same.
AnswerFits ==
  last.code = "answer" \/ (last.code = "exception" /\ transport = "tcp") => Fitting

OwnBytes == Cardinality({k \in DOMAIN Pending : Pending[k].of = cur.id})

\* A late answer costs the request that is waiting nothing: stepping over it
\* throws no byte away of the answer queued behind it.
OwnAnswerKept ==
  [][cur # None /\ cur' = cur /\ InStep => OwnBytes' >= OwnBytes]_vars

\* However far requests and answers got out of step, once the device answers
\* in time and the line is clean no request fails any more, and each ends with
\* an answer or exception that fits: its own on TCP, and on RTU unless another
\* request looks the same; those that do may stay shifted for ever.  On TCP
\* this is said of the event loop, which closes a stream it lost its way in;
\* modbusmq_send() does not.
InStepAgain ==
  []<>(cur # None) /\ <>[](calm /\ (cur.sync => transport = "rtu"))
    => <>[](last.code \in {"answer", "exception"} /\ Fitting)
=============================================================================
