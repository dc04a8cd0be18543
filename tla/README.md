# modbusmq in TLA+

A verification development for modbusmq: the library `libmodbusmq` (`lib/`), the
MQTT bridge `modbusmq`, the virtual device `modbusmq_server` and two command line
tools (`programs/`). Line numbers are those of the sources; `PROJECT.json` maps
every definition to the lines it stands for.

## 1. The system

| component | state | operations | depends on |
|---|---|---|---|
| request queue and event loop (`lib/modbusmq.c`) | list of accepted requests, raw reply slot, `req_id` counter, `head_since_ms`, `last_read_ms`, per-request bytes written and time of writing | `modbusmq_post`, `modbusmq_raw_request`, `loop_prepare`, `loop_write_read`, `reset_queue`, the four callbacks | transports (function table `ctx->ops`), timers |
| parallel and series timers | per timer `next_time`, `interval`, `orig_interval`, order of the list | `subscribe`, `loop_prepare_subscription` | queue |
| rounds mode and slave backoff | `round_*` of the context, `misses/unresponsive/retry_ms/retry_at` per timer, `is_done` of once inputs | `round_post`, `round_start`, deep turn, focus, `slave_update`, `slave_gate`, `once_rearm` | queue |
| Modbus TCP transport | transaction id, receive buffer, expected length | connect, write, read, flush, `frame_drain`, `msg_check` | socket |
| Modbus RTU transport | receive buffer, expected length, time of silence | as TCP, plus CRC, quiet time, broadcast | serial line |
| synchronous send | one message, its own buffer | `modbusmq_send` | transports |
| codec | none | channel bounds and offsets, decode, encode, build of write requests | - |
| publish decision | last value and time per channel | `channel_publish_decide` | - |
| configuration (`lib/modbusmq_config.c`) | modules, inputs, writes, limits | reading lines and overrides, expansion of module templates, inheritance, validation, topics | codec (sizes of formats) |
| MQTT bridge (`programs/modbusmq.c`) | MQTT session, Modbus connection, pending write acknowledgements, raw topic | main loop, MQTT and library callbacks | all of the library, libmosquitto |
| virtual device (`programs/modbusmq_server.c`) | connection slots, registers, emulated values | accept/evict, read, write, `prepare_response`, emulation | sockets |
| query and config tools, log, clock | none that lasts | sequential | library |

How they interact. Everything is single threaded. The application calls
`loop_prepare`, sleeps in `poll()`, then calls `loop_write_read`; results come back
through callbacks called from inside those two (and from `reset_queue`), and a
callback may call into the library again. The device, the link, other masters'
frames and the passage of time are the concurrency.

What is hard: a request has six ways out (answer, exception, rejected frame,
timeout, lost link, end of a broadcast), each with its own code; a callback runs
before its request is unlinked, so the queue is in the middle of a change while the
application may post; one timeout serves both "no answer" and "never sent"; RTU
frames carry no id; the gap between frames is enforced in two places; an
unresponsive slave must neither hold up the bus nor be forgotten; once inputs,
pending acknowledgements and MQTT sessions must survive reconnects of either side.
`PROJECT.json` lists these as hazards, each at its line, with the properties that
guard it or the reason why none does yet.

What makes each component correct:

* queue: each request is reported exactly once; one request on the wire at a
  time; writes before polls, otherwise in order; the raw slot is taken exactly
  while its request is queued; while the link is up a write ends in finite time, and so does
  every request once writes stop overtaking it.
* rounds: a slave is unresponsive after three misses in a row and then probed after
  a bounded, growing delay, never sooner and with one read; rounds never overlap
  and always recur; every working slave is read normally again in the end.
* timers: one poll per timer, no drift, a catch-up in which no other input starves, no
  sleep past the next due time, series timers never due together.
* transports: an answer goes to no request it can be told apart from the one it belongs to (on
  TCP by the transaction id, on RTU by slave, function and length); a partial frame never
  blocks longer than the frame timeout; what is left over is drained.
* publish: no sample is withheld longer than max_interval, none sent sooner than
  min_interval unless the rules say so.
* bridge: each MQTT write gets one acknowledgement; a lost session is resumed
  with its subscriptions and once inputs.
* codec: decode inverts encode; nothing outside the frame is read.
* configuration: the order of the lines does not matter; a template runs once on every
  module, on a slave of its own, and what one topic becomes on two modules differs; what is
  accepted can be carried out.

## 2. The modules

    RequestService  <--implements--  RequestQueue        the queue and its event loop
    Polling         <-- Rounds                           rounds mode over that queue
                    <-- Timers                           parallel and series mode over it
    Wire                                                 one exchange, byte by byte, TCP and RTU
    PublishRule <-- Publish                              when a reading is worth a message
                <-- Bridge                               the bridge's main loop between two links
    Registers   <-- Readings                             values to bytes and back, device and bridge
                <-- Config                               a file becomes what the program runs
    Device                                               the virtual device's select loop

`MC*` modules only hold values for TLC. `*Proofs` modules hold theorems and nothing
else. An operator whose comment begins with "Mutant" is a version of the definition
below it with a plausible bug; no specification uses it, it shows that a property
notices that bug.

The modules meet where the code has a narrow interface, and each states what it takes
from the other side. RequestQueue lets the device and the transport do anything that
`write`, `read` and `msg_check` can report; Wire shows what those reports are worth.
Rounds and Timers take the queue as first in, first out for polls, with every poll ended by
an answer, a timeout or a reset, which is what RequestQueue shows of a bus whose writes leave
room for polls; RequestQueue in turn lets
any set of timers be due, and Timers says which are. Polling is what both share, the
backoff of a slave. Config uses the sizes and the encoder of Registers, so that "can be
sent" means what it means there. Bridge takes the library as a set of accepted requests that
are each reported once. Readings takes an exchange as one step and asks what it says; Device asks when it happens and for whom.

### RequestQueue (`lib/modbusmq.c`: posting, `loop_prepare`, `loop_write_read`, `reset_queue`)

| variable | code |
|---|---|
| `queue` | the list from `msg_wrapper_head`; per element its id, flags, timer, how much of the request is written, and whether its clock runs |
| `raw` | `raw_cb` and `raw_req_id` |
| `next` | the request id counter |
| `events` | what `loop_prepare` asked the caller to poll for |
| `expired`, `gap` | time, as far as it matters: the head's frame timeout has run out; the quiet gap after the last frame still lasts |
| `connected` | the descriptor |
| `answers`, `writes` | history: reports per request; which requests were writes |

Each action is one call into the library from the application: `Post`, `RawRequest`,
`LoopPrepare` (due timers, eviction, gap), `WriteRequest`, `WriteInGap`, `ReadMore`,
`ReadAnswer`, `LinkLost` (`modbusmq_reset_queue`), `Connect`. Callbacks run inside the
action that makes them; with `CallbackPosts` the raw reply callback posts the next raw
request from there, and with `ResetPosts` also while the queue is being reset, which no
program here does (section 5). `CallerPolls` is a caller that polls POLLOUT unasked.
A report is the end of a request and the callbacks that go with it: one for an error, a write or a
raw request, but for a poll that is answered one per input that matches it, none to several
(`lib/modbusmq.c:5030-5051`); `answers` counts ends, not inputs.
`RequestService` is the promise: a request is new, waiting, sent or done, moves forward only,
and one at a time is sent.

### Rounds (`lib/modbusmq.c`: rounds mode, `slave_update`, `slave_gate`)

`health[s]` is the part of the timers all inputs of slave `s` share (`misses`,
`unresponsive`, `retry_ms`, and `retry_at` as ticks left); `done` the once inputs
answered; `queue` the polls of the round in order; `active`, `roundLeft`,
`deepSlave`, `focus` the context's `round_*` fields; `troubled` the slaves that do not
answer at present. A tick is `MODBUSMQ_SLAVE_RETRY_FIRST_MS`. `LoopPrepare` posts what
the round wants, or closes the round and starts the next; `evict` says that the head's
frame timeout ran out first, which the code does in the same call. `connected` is the
descriptor: while it is gone `modbusmq_loop_prepare` returns before it comes to the rounds
(`lib/modbusmq.c:5505`), and time goes on. How long an exchange lasts is left open.

### Polling, Timers (`lib/modbusmq.c`: `subscribe`, `loop_prepare_subscription`, `slave_update`, `slave_gate`)

| variable | code |
|---|---|
| `timers` | the list from `timer_head`; per timer its slave, `is_once`, `timer_interval`, `orig_interval`, and `timer_next_time` less now as `due` |
| `done` | once timers whose `timer_next_time` is `UINT64_MAX` |
| `health` | `misses`, `unresponsive`, `retry_ms`, `retry_at` less now, per slave |
| `queue` | the polls not finished, by the timer that posted them |
| `sleep` | what is left of the `sleep_time` that `loop_prepare` handed back |
| `setup` | the configuration: the mode and the inputs in order |
| `since` | history: ticks since a slave was last probed |

`Subscribe` puts one input after the other into the list, sorted by interval (parallel) or
chained behind the last (series). `LoopPrepare` is one call: evict a head that timed out, let
the due timers post through the backoff gate, move each of them on by one interval, and
compute the sleep as the code does, wrap of the unsigned difference included. A tick passes
only while the loop sleeps or the link is down.

### Config (`lib/modbusmq_config.c`)

`file` is the file as a set of lines and the `-e` overrides; `config` is `modbusmq_config` as
the lines read so far left it; `result` what the program runs. `ReadLine` is one turn of the
loop of `config_parse_stream` on any line not read yet, no more than `Window` places early,
so that one set of lines stands for all files that order it differently; `Finish` is the rest
of that function, in the code's order. A line names its key at one of five levels, and a
value of the wrong form is a flag. A topic is the sequence of its pieces, which is all that
%i, %% and the prefix are about; `Decimal` is what a module's index is printed as, and all that is
assumed of it is that two indices look different.

`OrderKept` says what "in any order" means without naming an order: `ConfigSaid` reads a *set*
of lines key by key, as a table, and a file is accepted exactly when none of its lines is
`Unacceptable` by itself and what they say together settles. It is stated for files that give
each key once (`EachKeyOnce`, where `length` and `nregisters` of a channel are one key) and
are read with every max key before what it counts (`early` is history).

### Wire (`lib/modbusmq_tcp.c`, `lib/modbusmq_rtu.c`, `handle_write_read`, `modbusmq_send`)

The transport is chosen at the start. A frame is three cells, the first two of which
are its header; `line` holds what has arrived or is under way, `buf` what the reader
holds, `want` how much it waits for, `resync` whether the next request drains first.
Reads take any prefix. Bytes read as a header that are none may show any length, and
on RTU may also look like an answer to the current request. The environment answers
late, in order, in pieces, not at all, and on RTU damages answers and adds noise; one
disturbance at a time. `last` is history: what the last request ended with, and whose answer
that was. A length no frame can have makes the event loop close a TCP stream and open it
again; `modbusmq_send` gives up and leaves the stream where it is. On TCP the payload is assumed never to imitate a header with
the current transaction id, and a name is used again only when no trace of its last
use is left, so the 16-bit wrap of the id is not in the model.

### PublishRule, Publish (`modbusmq_channel_publish_decide`)

PublishRule is the decision as operators on integers in one unit: `digit` is what the
last printed digit is worth, `one` what 1.0 is; printing rounds as printf() does.
Publish runs one channel through polls, time and lost sessions and keeps beside the
channel's memory what a subscriber really saw.

### Bridge (`programs/modbusmq.c`)

`modbus`, `mqtt` are `GI.modbus_connected`, `GI.mqtt_connected`; `alive` is what the
broker thinks of the session, which the bridge learns later, from a read, a failed
publish or a missing socket; `pending` is `GI.pending`; `chan` the publish state of a
channel; `due` the once inputs to be read; `held` what the broker retains. `fate` and
`ack` keep what became of a command and what the client was told. Every step is one
branch of the main loop together with the callbacks it runs. `calm` is the environment's
promise that from now on both peers stay up and values stay as they are.

### Registers, Readings (codec of `lib/modbusmq.c`, `modbusmq_prepare_response`)

Registers holds the pure operators: offsets and bounds of channels, byte orders, text
formats, scaling as exact fractions, block writes, coil packing. The size of a byte and
of a digit are constants, so that the ends of every range are within TLC's reach. Readings
puts both ends of the wire together: `held` is `channel->value` and `value_text` of the
virtual device, `LiveValue` is `emu_apply`, `Exchange` is `modbusmq_prepare_response` on
the request a poll, a write entry or a raw request builds. `told` and `reply` are history.

### Device (`programs/modbusmq_server.c`, main loop and MQTT part)

| variable | code |
|---|---|
| `slot` | `modbusmq_connections`: descriptor, `last_rx_ms`, the message being read and its reply |
| `owner` | the kernel's table: whose socket a descriptor is |
| `backlog` | connections not accepted yet |
| `client` | the other end: pieces sent and not read, questions and answers, when it was last heard |
| `broker` | `emu_mosq`: its descriptor and whether the broker closed it |
| `now` | `millitime()` |

`ServerStep` is one turn of the select loop in the code's order: `Readable` and `Writable`
are taken once, then the broker's socket is serviced, one connection is accepted (the
longest silent put out if no slot is free), and every slot is read and written by the
descriptor it holds *by then*. Descriptor numbers are reused at once, as the kernel does.
`Writable` has two values, because the broker's socket is in the write set when the MQTT library
wants to write (`emu_fd_set`); a newcomer with that number has its message written and cleared
by `WriteSlot` as if it were whole. `astray` says that the server lost its place in a stream, where
any bytes may follow (`Gained`), `heir` whose stream that can happen to.

## 3. What is checked

| run | instance | states | shows |
|---|---|---|---|
| `queue` | 4 requests of any kind, 2 timers, raw callback posts, caller polls unasked | 23 824 | `ReportedOnce`, `WritesAheadOfPolls`, `FinishedInOrder`, `RawSlotQueued`, the refinement of RequestService, `EventuallyReported`, `GapHoldsRequest` |
| `rounds` | 3 slaves, 2 fail, fast, deep and once inputs, cap of 3 ticks, link goes and comes | 71 892 | one probe per round, no input twice, probes only when due; while the link keeps coming back rounds recur and deep turns come if all answer; once it stays slaves recover |
| `timers` | parallel with a once input and series, 3 inputs each, one slave fails, link drops, up to 2 ticks late | 38 352 | `OnePollPerTimer`, `NoOversleep`, `SeriesStaggered`, `ProbesSpaced`, `ReadAgain`, `OnceSettles` |
| `wire` | 3 requests, two of them alike, both transports, event loop and `modbusmq_send`, one late answer | 150 753 | `AnswerFits`, `OwnAnswerKept`, `InStepAgain` |
| `publish` | 6 kinds of channel, readings -3..6 and null | 39 093 | the picture a subscriber has is within the keys, the pace and the heartbeat hold |
| `bridge` | 2 commands, 2 entries on one topic, raw topic, 1 polled input | 152 120 | acks true and at most once, pending table exact, no stale write, belief and broker agree, acks settle, broker catches up |
| `readings` | 16 channels on 5 overlapping inputs, every kind of format, bytes of 4 bits, 10 written values, refused reads and writes | 56 448 | `PollReadsHeld`, `WriteReadsBack` |
| `config` | 2856 files in seven families, lines up to 2 places early | 1 898 598 | `OrderKept`, `OneCopyPerModule`, `WritesSendable` |
| `device` | 3 clients for 2 slots, one asks twice, sends runts and may leave, broker's socket writable or not, lost and back, one tick | 257 240 | `AnswersInOrder`, `NoDescriptorLost`, `PutOutIdlest`, `Answered` |

Three more runs each show a statement of the repository's own comments or documentation
that the code does not keep (section 5).

Why the bounds are enough. Queue: the splice rule looks at the head, the last write
and the polls, so four requests hold every order of two writes and two polls around a
head. Rounds: the turn needs three slaves to go wrong (one before, one dead, one
behind); three ticks let the delay go through its first value, a doubling and the cap.
Timers: two intervals and a once input on the failing slave let the gate choose among its
timers; the input of the other slave is due at every tick, so that it is the one to starve;
three series timers make a cycle in which the second and third are chained differently; two
ticks late is more than one interval, hence a burst of catch-up polls. The bound `MaxLate`
stops time until the bus has caught up, so `ReadAgain` says nothing of a bus that is too
slow for its intervals for ever. Config: the limits are scaled down (4 entries, slaves to 4,
blocks of 3 registers), and every family goes up to them and past them; a line may come
before the two in front of it, which exchanges any two keys that stand together in a family
and is where a key and the one it depends on are put; no key is given twice, since the last
one given wins by intent.
Wire: a late answer can be in front of, inside and behind the frame that is read; of the three
requests two look alike on RTU, as two polls of one input do, and the third has the same
slave and function and another length, so that a late answer is either taken or stepped over.
Bridge: one command never mixes with another, two do, and two entries on one topic
give one command two requests, of which one has no ack. Readings: the operators are
uniform in the size of a byte; with four bits every word and long is tried at, before and
beyond both ends of its range, and digits 0 to 2 leave nibbles that are no digit. Device:
two slots and a third client are the least that evict; one client asking twice has a
request behind a runt and behind a request; with two times there are an earlier and a
later client, which is all the comparison of ages sees. `Leavers` bounds who may hang up: the
client that asks, at any time; the other two wait for slots and hold them.
In `rounds` the liveness properties presume that the link comes back whenever it drops
(`RoundsRecur`, `DeepTurnComesIfAllAnswer`) or stays (`Recovers`), in `timers` they are stated outside
an endless row of lost links, in `wire` and `bridge` after `calm`, since no program can answer
while its device is gone. `EventuallyReported` gives up when the link is lost, and for a poll
or raw request also when writes never stop: each new write goes in front of all that wait
behind the head, so a steady stream of them starves the rest (section 5). Four requests are no
endless stream; the second way out is in the formula because of the code, not of the instance.

Fairness. The main loop turns for ever, so weak fairness of its steps
(`LoopPrepare`, `Read`, `NoticeSessionLost`, `MqttRead`; in Device `ServerStep`) and of time (`Tick`,
`TimeoutElapses`, `Timeout`) is what its `poll()` or `select()` with a finite time-out gives. `Report`
in Bridge and `Resolve` in Rounds and Timers are fair because the frame timeout ends every
exchange, and `EventuallyReported` shows of RequestQueue that each poll has its turn unless writes come
for ever: that they do not is assumed of the application wherever a poll is said to come
to an end. `LoopPrepare` in Rounds is strongly fair: a turn of the main loop begins with it and
notices a lost link only later, so every connection sees one. In Timers
`Connect` is fair because the bridge tries again for ever; in Rounds it is not, the properties say
what they need of the link; elsewhere reconnects succeed only once it is calm. Config only states
safety. In Wire the application keeps asking and, once calm, the device answers what it got; nothing
else is assumed of the device.

## 4. What is proved

For every number of requests, timers, slaves, inputs, commands, clients and slots, every
round list, rule set and answer, by TLAPS:

* RequestQueueProofs. `QueueInv` is `TypeOK`, that every piece of the loop's state is
  clean between calls (`Clean(Now)`: only the head on the wire, ids distinct and below
  the counter, the raw slot exactly with its request), and `ReportedOnce`. Reporting
  alone is not inductive, since a request linked twice would be reported twice; clean
  lists are. Theorems: `TypeCorrect`, `HeadStaysProved` and `GapHoldsRequestProved` for any
  callbacks and any caller; `QueueCorrect` and `QueueServesRequests`, the refinement, for
  callbacks that may post raw requests from anywhere but a reset
  (`~(CallbackPosts /\ ResetPosts)`, section 5). Order (`Orderly`): behind the head all
  writes stand before all polls, ids rise within each kind, and whoever waits has all later
  requests of its kind waiting as well. `WritesAheadProved` follows for any callbacks and any
  caller, `FinishedInOrderProved` and `RawSlotQueuedProved` for callbacks as above.
* RoundsProofs. What a miss makes of a bounded backoff is bounded (a lemma about Polling,
  which TimersProofs states as well). `RoundsInv` is the conjunction of `TypeOK` and of three
  invariants, each of which needs the others (a probe is alone because a round reads no input
  twice and the delay is running). Theorems: `TypeCorrect`, `BackoffBoundedProved`,
  `RoundsReadSparingly`, `ProbeWhenDueProved`, `ReadOncePerRoundProved`.
* TimersProofs. `TimersInv` adds to `OnePollPerTimer` that what is left of a delay and the
  time since the last probe make up at least the delay (`BackoffTimed`): without it a probe
  could follow a miss at once. For the series (`Schedule`) the list is `Laid` while the program
  subscribes: due times differ by the sums of the shares between them, and all share the
  cycle that the sums make up. From then on a timer only moves by whole cycles, so no two
  come to be due together (`Staggered`). The sum of the shares is a recursive function; that it
  only grows along the list is shown from the least place where it would not. Theorems: `TypeCorrect`, `OnePollPerTimerProved`,
  `ProbesSpacedProved`, `NoOversleepProved`, `SeriesStaggeredProved`.
* WireProofs. `WireInv` is `TypeOK` and that every cell held or under way is a cell of
  a real frame, or junk that claims to be nobody's. `WantFits` adds that the reader wants a
  header, or what is left of the frame the header sized; so while the frames are in step a
  read takes cells of the first frame only, and if that is not the answer waited for, nothing of the
  answer is thrown away with it. An answer is accepted after its header was addressed to the request
  and, on RTU, its CRC made it one whole frame, so its first cell says what the request shows: on TCP
  the request's own name, on RTU its slave, function and count. Theorems: `TypeCorrect`,
  `OwnAnswerKeptProved`, `AnswerFitsProved`, for any requests, alike or not.
* PublishProofs. The channel remembers the message its subscribers saw last and when
  (`Faithful`); each rule is then a matter of the decision alone. Theorems:
  `PictureCurrentProved`, `HeartbeatKeptProved`, `PaceKeptProved`, for all keys and readings.
* BridgeProofs. `BridgeInv` is `TypeOK`, three of the properties, and `Tracked`: waiting
  requests have numbers of their own below the next one, nobody was told about them, and a
  command is taken from the inbox once. Without the numbering a report could settle another
  command. Theorems: `TypeCorrect`, `AckTrueProved`,
  `PendingMatchesProved`, `NoStaleWriteProved`, `BelievedIsHeldProved`.
* DeviceProofs. `DeviceInv` is `Sound` of the state, and a state is sound if slots, descriptors
  and clients belong to each other one to one (`Wired`), everybody stands where a descriptor or
  the backlog says (`Standing`), and every client is in step with its slot (`Answering`): the
  pieces in the slot and on the wire are, two by two, the requests not answered yet, with runts only
  between requests. A turn of the loop is one step of the specification but many of
  the code; `Sound` is shown to survive each of them (`EmuServiced`, `Accepted`, `ReadSlot`,
  `WriteSlot`), and the whole turn by the least slot after which it would not hold. A read
  or write needs the set of descriptors select() returned to be still good (`Due`), although numbers
  are reused within the turn: a slot whose number is in the write set has a whole request, or a client
  that has said nothing yet, or an heir, of whom only what it sends is known (`Safe`, `Ordered`). Who is put out needs a relation of the state in mid-turn to that at its
  start (`Aging`): each slot's client is the newcomer, or stays and has been read at most once, which
  the slot notes (`Aged` between turns). Theorems: `NoDescriptorLostProved`,
  `AnswersInOrderProved`, `PutOutIdlestProved`.
* RegistersProofs, of Readings: for every size of a byte, every list of channels and every value. `Kept`
  says that a channel holds a value of its kind, a live value is held as its `RawValue`, and
  a reply says what was asked of the values still held. The rest is about the operators: a number
  taken apart and put together again is itself (`Weight` is a power of two because a
  number is a set of bits, counted with the theorem on the subsets of a finite set, which
  needs no induction here); every format permutes its bytes; pieces laid apart
  come back whole (`LaidOver`); packed bits come back bit by bit; text comes back trimmed,
  digits filled up, versions in their stride; and the raw value nearest to a written one is no more
  than half a step off. Theorems: `WriteReadsBackProved`, and `PollReadsHeldProved`, which is under
  `ChannelsApart`: no two channels of one slave and type share a byte (the instance of
  `readings` is such). The code refuses overlapping channels of a write (`config_validate_write_block`) but
  not of an input, where the virtual device lets the later one overwrite the earlier.
* RegistersProofs, of Config: for every list of files, every limit and every order of the lines.
  `ConfigTypeOK` keeps inputs, writes and channels well formed line by line.
  `WritesSendableProved` takes an accepted write back to what the validation saw of it: a block
  whose registers each belong to one channel (`Tiled`) has channels that lie apart and leave no byte out,
  so that the round trip proved for Readings applies to it. `OneCopyPerModuleProved` counts the
  copies: the places that are filled are ranked (`Nth` is shown to list any finite set of
  numbers upwards, once each), their number is the `Total` the limit is held against, and a place
  determines entry and module; the slaves of copies differ, and so does what one topic becomes,
  because indices and what they are printed as do. `OrderKeptProved` needs what holds in the middle of a file
  (`OrderInv`): as long as no line came early, `config` is `ConfigSaid` of the lines read, every
  line read is within the arrays there are, and none is unacceptable. A line then adds to the
  configuration what it adds to the table, since no line before it spoke of the same key; a channel's
  length is the one case where two keys meet, and holds in both orders because of `has_length`.
  The end of the file adds the two module keys that only `-e` gives. Theorems: `ConfigTyped`,
  `WritesSendableProved`, `OneCopyPerModuleProved`, `OrderKeptProved`.

The assumptions are those named in the modules (`QueueAssumption` and the like), which
TLC evaluates for the instances; Device assumes that no client is called like the two other
owners of descriptors, Readings that channels, presets, live values and writes are such as the
configuration lets through (`ChannelsAssumption`, `AsksAssumption`), Config that a line names a
key there is with a value of its kind (`FilesAssumption`), as the scanner in front of it makes
them; a negative slave number is left out, since a negative number stands for `slave = module`.

Every invariant and action property a passing run checks is proved. Only model-checked: the
liveness properties, which are beyond the prover. Induction over a list is out of
the prover's reach as a rule to instantiate; where a proof needs it (the shares of a series, the
slots of a turn, the places of a list of copies) it is replaced by the least counterexample, which
the well-foundedness of `<` gives for sets of numbers.

## 5. Where code and comments part

| run | what happens |
|---|---|
| `deep_turn_starves` | a dead slave that takes the deep turn as a probe makes the rotation start over; healthy slaves behind it are never read |
| `once_never_published` | an input read once while the broker is away is never published |
| `raw_coils` | the values of a raw function 15 are packed into bits, and the bits are then taken for one byte per coil: other coils are set than asked for |

Seen on the way and not made into runs.

* Queue: a caller that polls POLLOUT on its own loses a request to the quiet gap, since
  "nothing done" is read as "done"; `GapHoldsRequest` excepts that case. A raw request posted by
  a reply callback while the queue is reset is linked behind an element about to be freed: it
  is never reported and the raw slot stays taken (with `ResetPosts = TRUE` `RawSlotQueued`
  fails). The callbacks of the programs here post nothing, so only another user of the library
  can meet it. A raw request made while the device is away is accepted, waits without limit and
  is sent after the reconnect, whereas a write is refused at once.
* Starvation: `modbusmq_post_internal` puts a write in front of all that waits behind the head
  (`lib/modbusmq.c:3745-3766`), so writes that come at least as fast as the bus carries them out keep
  polls and raw requests waiting for ever. `EventuallyReported` allows for it, and what Rounds and
  Timers say of polls that come back presumes that writes leave them room.
* Backoff: polls queued before a slave is given up count as failed probes, so the delay may
  grow before the first probe, where `config/CONFIG.md:121` speaks of probes.
* Timers: after an outage a timer posts one poll per turn until it has caught up with the
  time, each as soon as the last is answered. The comment at `lib/modbusmq.c:471` says that a
  probe holds back the slave's other timers until it resolves; what holds them back is
  `retry_at`, so a probe that is out longer than `retry_ms` lets a second one be queued.
  `ProbesSpaced` is about the probes posted, one in a call and no sooner than the
  delay after the last, and says nothing of how many are out.
  `lib/modbusmq.c:4268` puts a once timer "first in line at start"; a polled input subscribed
  later whose interval is shorter than `MODBUSMQ_ONCE_RETRY_MS` still goes before it.
* Configuration: `float_ba` is accepted for a write and never encodes, where the comment at
  `lib/modbusmq_config.c:2861` wants such a write refused at the start (`WritesSendable` excepts it).
  Two templates, or a template and a fixed entry, may be given one topic; nothing compares them,
  nor what different topics become: with twelve modules, channels `t%i1` and `t%i` both publish
  `t11`, of module 1 and of module 11, and pass at `lib/modbusmq_config.c:1416`; likewise a write's
  topic and the `ack_topic` of another copy. `OneCopyPerModule` compares a topic with itself only.
  `nregisters` of 2^30 or more doubles to a negative length, which passes the check at
  `lib/modbusmq_config.c:1984` and is stored (`Doubled`).
  The slave of an input is not checked to be one. An `ack_topic` that is itself a
  subscribed topic answers every ack with another. A channel beyond its input's registers is
  accepted and never read. A line of an input before `input.max` is skipped without a word, one
  of a write is refused; `config/CONFIG.md:1147` says so. `config/CONFIG.md:1149` asks for
  `input.query_mode` before the inputs; the code does not mind.
* Wire: on RTU a late answer of the same slave, function and count is taken for the answer to the
  next request, and pairing stays shifted for as long as requests look alike, which is the
  ordinary case of an input polled again. The comments at `lib/modbusmq.c:4898-4909` and
  `5571-5582` and `config/CONFIG.md:129-141` say that the drains keep a late answer from being taken
  for a new one; they do if it has arrived by then, not if it comes after the next request went
  out. The protocol offers nothing to tell the two apart. `AnswerFits` and `InStepAgain` say what
  is left: the answer of a request that looks the same. In the instance of `wire` two requests do,
  and a property that forbids it (`last.of = last.to`) fails there within a few steps.
  `modbusmq_send` that meets a length no frame can have gives up and leaves the TCP stream as it is
  (`lib/modbusmq.c:5830-5837`); an application that keeps sending on it may stay out of step.
* Bridge: a payload that is too long is dropped without a nack; a text channel compares
  32-bit hashes, so that two texts with one hash count as unchanged.
* Codec: a bit channel in the padding of the last byte of a response passes
  `channel_in_range` and reads 0. `float_ba` reads 0. A field of `version_regs` over 16 bits
  wraps; a text default that does not fit its field leaves the fields before the bad one behind.
* Virtual device: a newcomer that gets the number of the broker's socket closed in the same
  turn is read because the old number was readable, has nothing to say, and is closed as
  gone. If the MQTT library wanted to write, the newcomer is taken to be writable with its message
  finished: the part of a request read in that turn is cleared (`programs/modbusmq_server.c:1625-1652`, whose
  comment "done writing response, now clear the msg for re-use" is not true of it), never
  answered, and the rest of it read as a header. `AnswersInOrder` and `Answered` except that client. A header that declares no possible length is dropped without a reply. Function 15
  is answered like a read of coils. A reply written in part would lose its rest.

## 6. What is not modelled

Memory running out; `mosquitto_publish` failing on a live session; half a request left
on a TCP stream by an eviction (what a device makes of it is not in this code); the peer closing
a TCP stream, which the code takes for "nothing yet" until the timeout; float arithmetic; set-up
of serial ports and sockets; the scanning of the configuration's text, its keys for dates, times
and zones and those that only store a value, and parsing a second file over a first; dates and times
in registers, scaling of float channels, the on and off values of coil writes; topic matching, RTU
mode and partial replies of the virtual device; the query and config tools, which make one call
and print; logging, and the clock beyond the passing of time.

A topic is a sequence of pieces, so a prefix ending in `%` before a topic beginning with `i`,
which together make `%i`, is not in Config.

## 7. Plan

Done, in this order: RequestQueue with RequestService, Rounds, Wire, PublishRule and
Publish, Bridge, Registers and Readings, Device; then Polling with Timers, Config; proofs of
RequestQueue, Rounds, Timers and Wire; then of their order properties, of Publish, Bridge,
Device and Readings; then of Config.

What is left are models: the wrap of the transaction id in Wire, and a partial reply in Device.
