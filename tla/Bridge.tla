------------------------------- MODULE Bridge -------------------------------
(***************************************************************************)
(* The MQTT bridge (programs/modbusmq.c): its main loop between a Modbus   *)
(* device and a broker, either of which may go away and come back.         *)
(* Commands arrive on write topics and on the raw request topic, are       *)
(* queued with the library, and are acknowledged to the broker when the    *)
(* library reports them; readings are published on the way up.             *)
(*                                                                         *)
(* The library is what RequestQueue and Rounds show of it: every accepted  *)
(* request is reported once, by its answer, its failure or the reset, and  *)
(* polls keep coming.  When a reconnect is due, and what goes into frames  *)
(* and payloads, is left open; memory does not run out.                    *)
(***************************************************************************)
EXTENDS PublishRule, FiniteSets, Sequences

CONSTANTS
  MaxCmd,   \* bound: commands published by clients, 1..MaxCmd
  Entries,  \* write entries, numbered in config order
  Topic,    \* the topic each entry listens to
  Ack,      \* write.N.ack
  Polled,   \* inputs read at an interval, one channel each
  Once      \* inputs with interval_ms = once

Raw == 0    \* stands for the raw request topic among the entries
RawTopic == "request/raw"

ASSUME BridgeAssumption ==
  /\ MaxCmd \in Nat
  /\ Entries \subseteq Nat \ {Raw} /\ IsFiniteSet(Entries)
  /\ Ack \in [Entries -> BOOLEAN]
  /\ \A e \in Entries : Topic[e] # RawTopic
  /\ Polled \cap Once = {}

Commands == 1..MaxCmd
Targets == Entries \cup {Raw}
Topics == {Topic[e] : e \in Entries} \cup {RawTopic}
Inputs == Polled \cup Once
Values == {0, 1}

\* Channels publish on change; with no interval set the time does not matter.
OnChange == [onChange |-> TRUE, minChange |-> 0, minPercent |-> 0,
             minInterval |-> 0, maxInterval |-> 0, digit |-> 1, one |-> 1]

VARIABLES
  modbus,   \* GI.modbus_connected
  waiting,  \* requests the library has accepted and not reported
  nextReq,  \* the req_id the next request gets
  pending,  \* GI.pending: writes whose entry wants an ack
  mqtt,     \* GI.mqtt_connected
  alive,    \* the broker still has our session, and our subscriptions
  inbox,    \* commands on their way from the broker
  issued,   \* commands published by clients
  chan,     \* per input: the publish state of its channel
  due,      \* once inputs that are to be read
  device,   \* per input: the value of its register
  held,     \* per input: the retained value at the broker
  fate,     \* history: what became of a command at an entry
  ack,      \* history: what the broker was told about it
  calm      \* environment: device and broker stay up, values stay

link == <<modbus, waiting, nextReq, pending>>
session == <<mqtt, alive, inbox>>
readings == <<chan, due, device, held>>
vars == <<link, session, issued, readings, fate, ack, calm>>

Request == [req : Nat, cmd : Commands, target : Targets]
Told(c, t, s) == [cmd |-> c, target |-> t, status |-> s]

-----------------------------------------------------------------------------
(***************************************************************************)
(* Speaking to the broker.                                                 *)
(***************************************************************************)

\* The messages in ms were handed to mosquitto_publish().  On a session that
\* is gone they are lost, whether or not libmosquitto has noticed.
Spoken(ms) ==
  mqtt' \in IF ms # {} /\ mqtt /\ ~alive THEN BOOLEAN ELSE {mqtt}

Heard == mqtt /\ alive

Answer(old, status) ==
  IF old # "none" THEN "twice" ELSE IF Heard THEN status ELSE "dropped"

\* Acks, nacks and raw replies: mqtt_write_result(), raw_reply_callback().
Tell(ms) ==
  /\ ack' = [c \in Commands |-> [t \in Targets |->
               IF \E m \in ms : m.cmd = c /\ m.target = t
               THEN Answer(ack[c][t], (CHOOSE m \in ms : m.cmd = c /\ m.target = t).status)
               ELSE ack[c][t]]]
  /\ Spoken({m \in ms : m.target # Raw})

\* ... of which an entry without ack wants none.
Wanted(ms) == {m \in ms : m.target = Raw \/ (m.target \in Entries /\ Ack[m.target])}

\* Mutant: any pending write of the same command will do.
AcksForAny(rs, status) ==
  {Told(p.cmd, p.target, status) : p \in {q \in pending : \E r \in rs : r.cmd = q.cmd}} \cup
  {Told(r.cmd, r.target, status) : r \in {q \in rs : q.target = Raw}}

\* The requests in rs are reported: an ack is due for those in pending, which
\* are taken out, and for the raw one.
AcksFor(rs, status) ==
  {Told(p.cmd, p.target, status) : p \in {q \in pending : \E r \in rs : r.req = q.req}} \cup
  {Told(r.cmd, r.target, status) : r \in {q \in rs : q.target = Raw}}

\* Mutant: what fails is not taken out of pending.
TakenIfGood(rs, status) ==
  IF status = "ok" THEN {p \in pending : \A r \in rs : r.req # p.req} ELSE pending

Taken(rs, status) == {p \in pending : \A r \in rs : r.req # p.req}

Fated(rs, status) ==
  [c \in Commands |-> [t \in Targets |->
     IF \E r \in rs : r.cmd = c /\ r.target = t THEN status ELSE fate[c][t]]]

\* modbusmq_message_callback(), modbusmq_error_callback(), raw_reply_callback().
Reported(rs, status) ==
  /\ waiting' = waiting \ rs
  /\ pending' = Taken(rs, status)
  /\ fate' = Fated(rs, status)
  /\ Tell(AcksFor(rs, status))

-----------------------------------------------------------------------------
(***************************************************************************)
(* The Modbus side of the loop.                                            *)
(***************************************************************************)

\* The library reports one request.
Report(r, status) ==
  /\ modbus
  /\ r \in waiting
  /\ Reported({r}, status)
  /\ UNCHANGED <<modbus, nextReq, alive, inbox, issued, readings, calm>>

\* modbusmq_subscription_callback(): the value read is published if it is
\* worth it and the broker is there; the decision is remembered either way.
\* A once input that was read is not due again.
PollAnswered(i) ==
  /\ modbus
  /\ i \in Once => i \in due
  /\ LET v == device[i]
         send == Decide(OnChange, chan[i], v, 0)
     IN /\ chan' = IF send THEN [chan EXCEPT ![i] = Record(v, 0)] ELSE chan
        /\ held' = IF send /\ Heard THEN [held EXCEPT ![i] = v] ELSE held
        /\ Spoken(IF send THEN {i} ELSE {})
  /\ due' = due \ {i}
  /\ UNCHANGED <<link, alive, inbox, issued, device, fate, ack, calm>>

\* Mutant: the queue is emptied without a word.
LinkLostSilent ==
  /\ modbus /\ ~calm
  /\ modbus' = FALSE
  /\ waiting' = {} /\ pending' = {}
  /\ due' = Once
  /\ UNCHANGED <<nextReq, session, issued, chan, device, held, fate, ack, calm>>

\* The loop finds the descriptor gone or the exchange failed: it is closed,
\* modbusmq_reset_queue() reports all that waits, once inputs are due again.
LinkLost ==
  /\ modbus /\ ~calm
  /\ modbus' = FALSE
  /\ Reported(waiting, "error")
  /\ due' = Once
  /\ UNCHANGED <<nextReq, alive, inbox, issued, chan, device, held, calm>>

\* A slave answers after it was given up: its once inputs are read again.
SlaveBack(inputs) ==
  /\ modbus /\ ~calm
  /\ due' = due \cup inputs
  /\ UNCHANGED <<link, session, issued, chan, device, held, fate, ack, calm>>

ModbusReconnect ==
  /\ ~modbus
  /\ modbus' = TRUE
  /\ UNCHANGED <<waiting, nextReq, pending, session, issued, readings, fate, ack, calm>>

-----------------------------------------------------------------------------
(***************************************************************************)
(* The MQTT side of the loop.                                              *)
(***************************************************************************)
Matching(m) == {e \in Entries : Topic[e] = m.topic}

\* The entries in es get a request each for command c, in config order.
Posted(c, es) ==
  {[req |-> nextReq + Cardinality({d \in es : d < e}), cmd |-> c, target |-> e] : e \in es}

\* A client publishes a command on a topic the bridge subscribed to.
Command(topic) ==
  /\ alive
  /\ issued < MaxCmd
  /\ issued' = issued + 1
  /\ inbox' = Append(inbox, [cmd |-> issued + 1, topic |-> topic])
  /\ UNCHANGED <<link, mqtt, alive, readings, fate, ack, calm>>

\* Mutant: a write is queued whether or not the device is there.
PostableAlways(es) == es

\* modbus_write_post() refuses while the device is away.
Postable(es) == IF modbus THEN es ELSE {}

\* mqtt_message_callback(): every entry of the topic that can use the payload
\* (usable) posts a write, the others refuse it.
TakeWrite(m) ==
  /\ m.topic # RawTopic
  /\ \E usable \in SUBSET Matching(m) :
       LET posted == Posted(m.cmd, Postable(usable))
           refused == Matching(m) \ Postable(usable)
       IN /\ waiting' = waiting \cup posted
          /\ nextReq' = nextReq + Cardinality(posted)
          /\ pending' = pending \cup {r \in posted : Ack[r.target]}
          /\ fate' = [fate EXCEPT ![m.cmd] = [t \in Targets |->
                        IF t \in refused THEN "error"
                        ELSE IF t \in Matching(m) THEN "waiting" ELSE @[t]]]
          /\ Tell(Wanted({Told(m.cmd, e, "error") : e \in refused}))

\* modbusmq_raw_request(): refused while another one is out, or malformed;
\* accepted whether or not the device is there.
TakeRaw(m) ==
  /\ m.topic = RawTopic
  /\ \/ /\ \A r \in waiting : r.target # Raw
        /\ waiting' = waiting \cup {[req |-> nextReq, cmd |-> m.cmd, target |-> Raw]}
        /\ nextReq' = nextReq + 1
        /\ fate' = [fate EXCEPT ![m.cmd][Raw] = "waiting"]
        /\ UNCHANGED <<ack, mqtt>>
     \/ /\ fate' = [fate EXCEPT ![m.cmd][Raw] = "error"]
        /\ Tell({Told(m.cmd, Raw, "error")})
        /\ UNCHANGED <<waiting, nextReq>>
  /\ UNCHANGED pending

\* A payload longer than the buffer is dropped without an answer.
IgnoreLong ==
  UNCHANGED <<mqtt, waiting, nextReq, pending, fate, ack>>

\* mosquitto_loop_read(): the next command.
MqttRead ==
  /\ mqtt
  /\ inbox # <<>>
  /\ inbox' = Tail(inbox)
  /\ TakeWrite(Head(inbox)) \/ TakeRaw(Head(inbox)) \/ IgnoreLong
  /\ UNCHANGED <<modbus, alive, issued, readings, calm>>

\* Some of what was on its way may still be in the socket.
SessionLost ==
  /\ alive /\ ~calm
  /\ alive' = FALSE
  /\ inbox' \in {SubSeq(inbox, 1, n) : n \in 0..Len(inbox)}
  /\ UNCHANGED <<link, mqtt, issued, readings, fate, ack, calm>>

\* The loop finds the socket gone, or the read says so.
NoticeSessionLost ==
  /\ mqtt /\ ~alive
  /\ mqtt' = FALSE
  /\ inbox' = <<>>
  /\ UNCHANGED <<link, alive, issued, readings, fate, ack, calm>>

\* Mutant: the channels go on from what they published to the old session.
MqttReconnectUnpublished ==
  /\ ~mqtt
  /\ mqtt' = TRUE /\ alive' = TRUE
  /\ inbox' = <<>>
  /\ UNCHANGED <<link, issued, readings, fate, ack, calm>>

\* mqtt_try_reconnect(): subscribe again, and publish every channel afresh.
MqttReconnect ==
  /\ ~mqtt
  /\ mqtt' = TRUE /\ alive' = TRUE
  /\ inbox' = <<>>
  /\ chan' = [i \in Inputs |-> Unpublished]
  /\ UNCHANGED <<link, issued, due, device, held, fate, ack, calm>>

-----------------------------------------------------------------------------
DeviceChanges(i) ==
  /\ ~calm
  /\ device' = [device EXCEPT ![i] = 1 - @]
  /\ UNCHANGED <<link, session, issued, chan, due, held, fate, ack, calm>>

CalmDown ==
  /\ ~calm
  /\ calm' = TRUE
  /\ UNCHANGED <<link, session, issued, readings, fate, ack>>

\* What the bridge finds at its start; a broker it does not find is retried.
Init ==
  /\ modbus \in BOOLEAN
  /\ waiting = {} /\ nextReq = 1 /\ pending = {}
  /\ mqtt \in BOOLEAN /\ alive = mqtt /\ inbox = <<>>
  /\ issued = 0
  /\ chan = [i \in Inputs |-> Unpublished]
  /\ due = Once
  /\ device = [i \in Inputs |-> 0]
  /\ held = [i \in Inputs |-> NotAvailable]
  /\ fate = [c \in Commands |-> [t \in Targets |-> "none"]]
  /\ ack = fate
  /\ calm = FALSE

Next ==
  \/ \E r \in waiting, status \in {"ok", "error"} : Report(r, status)
  \/ \E i \in Inputs : PollAnswered(i)
  \/ LinkLost
  \/ \E inputs \in SUBSET Once : SlaveBack(inputs)
  \/ ModbusReconnect
  \/ \E topic \in Topics : Command(topic)
  \/ MqttRead
  \/ SessionLost
  \/ NoticeSessionLost
  \/ MqttReconnect
  \/ \E i \in Polled : DeviceChanges(i)
  \/ CalmDown

Spec == Init /\ [][Next]_vars

\* The library reports what it accepted, the loop keeps turning; the device
\* and the broker can be reached again at the latest when it is calm.
FairSpec ==
  /\ Spec
  /\ WF_vars(\E r \in waiting, status \in {"ok", "error"} : Report(r, status))
  /\ WF_vars(calm /\ ModbusReconnect)
  /\ WF_vars(calm /\ MqttReconnect)
  /\ WF_vars(NoticeSessionLost)
  /\ WF_vars(MqttRead)
  /\ \A i \in Inputs : WF_vars(PollAnswered(i))

-----------------------------------------------------------------------------
Results == {"ok", "error"}

\* The broker is told about a command once at most, what really became of it,
\* and only if somebody asked: a req_id finds the write it belongs to.
AckTrue ==
  \A c \in Commands, t \in Targets :
    /\ ack[c][t] # "twice"
    /\ ack[c][t] \in Results => fate[c][t] = ack[c][t]
    /\ t \in Entries => ack[c][t] = "none" \/ Ack[t]

\* GI.pending holds the queued writes that want an ack, and nothing else,
\* whichever way requests left the queue.
PendingMatches ==
  pending = {r \in waiting : r.target \in Entries /\ Ack[r.target]}

\* No write waits for a device that is away: none reaches it late, after the
\* reconnect, behind newer ones the client was told had failed.
NoStaleWrite ==
  ~modbus => \A r \in waiting : r.target = Raw

\* What a channel takes for published is what the broker retains.
BelievedIsHeld ==
  \A i \in Inputs : Heard /\ chan[i].published => held[i] = chan[i].value

\* A command that reached an entry with ack, or a raw request made in calm
\* times, is answered in the end, unless the broker cannot be told.
AckSettles ==
  \A c \in Commands :
    /\ \A e \in Entries : Ack[e] /\ fate[c][e] # "none" ~> ack[c][e] # "none"
    /\ calm /\ fate[c][Raw] # "none" ~> ack[c][Raw] # "none"

\* Whatever was lost before, the broker ends up with the values the device has.
BrokerCatchesUp == calm ~> [](\A i \in Polled : held[i] = device[i])

\* ... of inputs that are read once as well.
OnceCatchesUp == calm ~> [](\A i \in Once : held[i] = device[i])
=============================================================================
