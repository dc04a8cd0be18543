------------------------------- MODULE Config -------------------------------
(***************************************************************************)
(* How a configuration file becomes what a program runs                    *)
(* (lib/modbusmq_config.c).  A file is a set of lines key = value, here    *)
(* read in any order: the parser keeps what each line says and gives up at *)
(* the first it cannot accept.  When all lines are read it settles the     *)
(* rest: module templates are replaced by a copy for each module, formats  *)
(* are read as config.version means them, the publish rules are inherited, *)
(* everything is validated, topics get the prefix and the module index.    *)
(*                                                                         *)
(* Lines that only store a value no other key depends on are left out, as  *)
(* are dates and times.  A topic is the sequence of its pieces.            *)
(***************************************************************************)
EXTENDS Registers, FiniteSets

CONSTANTS
  Files,          \* sequence of [lines, overrides], both sequences of lines
  Unset,          \* what a key with a has_ flag holds as long as it is not given
  Decimal,        \* what a module's index is printed as
  InputWriteMax,  \* MODBUSMQ_INPUT_WRITE_MAX
  SlaveMax,       \* CONFIG_SLAVE_MAX
  BlockMax,       \* registers a block write has at most: 123
  TextBytesMax,   \* MODBUSMQ_TEXT_BYTES_MAX
  IntHalf,        \* an int is one of -IntHalf..IntHalf - 1: 2^31
  Window          \* bound on how far a line may come before one it follows in Files

ASSUME ConfigAssumption ==
  /\ {InputWriteMax, SlaveMax, BlockMax, TextBytesMax, IntHalf, Window} \subseteq Nat \ {0}
  /\ BlockMax < Weight(2) \div 2
  /\ Unset \notin Int
  /\ Decimal \in [0..SlaveMax -> STRING]
  /\ \A m, n \in 0..SlaveMax : m # n => Decimal[m] # Decimal[n]

VARIABLES
  file,     \* the file being parsed, and the -e overrides given with it
  read,     \* the lines read so far
  config,   \* what they left in modbusmq_config
  result,   \* the configuration once it is accepted, <<>> before
  outcome,  \* "reading", "refused" or "accepted"
  early     \* history: a line was read before the max key it depends on

configVars == <<file, read, config, result, outcome, early>>

\* A line names a key of the configuration, of an input or a write n, or of a
\* channel c of these; ok is FALSE for a value of the wrong form.
Levels == {"config", "input", "input_channel", "write", "write_channel"}
Line(at, n, c, key, value) == [at |-> at, n |-> n, c |-> c, key |-> key, value |-> value, ok |-> TRUE]
SameKey(l, m) == l.at = m.at /\ l.n = m.n /\ l.c = m.c /\ l.key = m.key

None == -1        \* CONFIG_MODULE_NONE
Template == -2    \* CONFIG_MODULE_TEMPLATE, and slave = module on a line
Once == -1        \* MODBUSMQ_INTERVAL_ONCE
Index == "%i"
Percent == "%%"
NoTopic == <<>>

RuleKeys == {"on_change", "min_change", "min_change_rel", "min_interval_ms", "max_interval_ms"}
NoRules == [r \in RuleKeys |-> Unset]

\* The keys of a level, and what a value is once strtol() or config_boolean()
\* have read it, or the name it has is looked up.
Keys(at) ==
  CASE at = "config" -> {"module_count", "module_slave_first", "version", "rtu", "frame_delay_ms", "query_mode",
                         "topic_prefix", "ack", "inputs", "writes"} \cup RuleKeys
    [] at = "input" -> {"slave", "type", "address", "interval", "channels"} \cup RuleKeys
    [] at = "input_channel" -> {"format", "length", "nregisters", "topic", "scaled", "timefmt", "decimals"} \cup RuleKeys
    [] at = "write" -> {"slave", "type", "function", "address", "format", "scaled", "on_value", "off_value",
                        "topic", "ack_topic", "ack", "naddress", "channels"}
    [] at = "write_channel" -> {"offset", "format", "add", "mod", "mul"}
Formats == Numbers \cup Texts \cup {"float_ba"}
Topics == Seq(STRING)
Types == {"coil", "discrete_input", "input_register", "holding_register"}
Values(key) ==
  CASE key \in {"rtu", "scaled", "timefmt"} -> BOOLEAN
    [] key = "ack" -> {0, 1}
    [] key = "slave" -> Nat \cup {Template}
    [] key \in {"topic", "ack_topic", "topic_prefix"} -> Topics
    [] key = "format" -> Formats
    [] key = "function" -> {"write_coil", "write_register", "write_registers"}
    [] key = "type" -> Types \cup {""}
    [] key = "query_mode" -> {"parallel", "series", "rounds"}
    [] OTHER -> Int
IsLine(l) ==
  /\ l.at \in Levels /\ l.n \in Nat /\ l.c \in Nat
  /\ l.at = "config" => l.n = 0
  /\ l.at \in {"config", "input", "write"} => l.c = 0
  /\ l.key \in Keys(l.at) /\ l.value \in Values(l.key)

ASSUME FilesAssumption ==
  \A i \in DOMAIN Files :
    /\ DOMAIN Files[i].overrides \subseteq Nat
    /\ \A l \in Range(Files[i].lines) \cup Range(Files[i].overrides) : IsLine(l)

Empty ==
  [module_count |-> 0, module_slave_first |-> 1, version |-> 0, rtu |-> FALSE, frame_delay_ms |-> Unset,
   query_mode |-> "parallel", topic_prefix |-> NoTopic, ack |-> 0, inputs |-> <<>>, writes |-> <<>>,
   rules |-> NoRules]
NewInput ==
  [module |-> None, slave |-> 0, type |-> "", address |-> 0, interval |-> 0, channels |-> <<>>, rules |-> NoRules]
NewChannel ==
  [format |-> "", length |-> 0, has_length |-> FALSE, topic |-> NoTopic, scaled |-> FALSE, timefmt |-> FALSE,
   decimals |-> Unset, rules |-> NoRules]
NewWrite ==
  [module |-> None, slave |-> Unset, type |-> "", function |-> "", address |-> Unset, format |-> "", length |-> 0,
   scaled |-> FALSE, on_value |-> Unset, off_value |-> Unset, topic |-> NoTopic, ack_topic |-> NoTopic,
   ack |-> Unset, naddress |-> Unset, channels |-> <<>>]   \* Unset: its has_ flag is 0
NewWriteChannel ==
  [offset |-> 0, format |-> "", length |-> 0, add |-> 0, mod |-> 0, mul |-> 0]

-----------------------------------------------------------------------------
(***************************************************************************)
(* A line.  Each operator is the set of what the configuration c can be    *)
(* once line l is read: one element, or none when the parser gives up.     *)
(***************************************************************************)

\* The keys whose value has a form; strtol() and the like make something of any other.
Strict == {"format", "function", "interval", "ack", "decimals", "frame_delay_ms"} \cup RuleKeys
Takes(l) == l.ok \/ l.key \notin Strict

\* The line's value is kept as it is.
Stored(e, l) == [e EXCEPT ![l.key] = l.value]
StoredRule(e, l) == [e EXCEPT !.rules[l.key] = l.value]

\* input.max and its like: the array is allocated, and never twice.
Allocated(list, l, max, new) ==
  IF list # <<>> \/ l.value \notin 0..max THEN {} ELSE {[i \in 1..l.value |-> new]}

\* The keys that are not under input.N or write.N.
ReadConfigKey(c, l) ==
  CASE l.key = "inputs" -> {[c EXCEPT !.inputs = s] : s \in Allocated(c.inputs, l, InputWriteMax, NewInput)}
    [] l.key = "writes" -> {[c EXCEPT !.writes = s] : s \in Allocated(c.writes, l, InputWriteMax, NewWrite)}
    [] l.key = "module_count" -> {[c EXCEPT !.module_count = n] : n \in {l.value} \cap 0..SlaveMax}
    [] l.key = "module_slave_first" ->
         {[c EXCEPT !.module_slave_first = n] : n \in {l.value} \cap 1..SlaveMax}
    [] l.key \in RuleKeys -> {StoredRule(c, l)}
    [] OTHER -> {Stored(c, l)}

\* The slave of an input or a write e: one address, or a template for all modules.
WithSlave(e, value) ==
  IF value = Template THEN [e EXCEPT !.module = Template, !.slave = 0]
  ELSE [e EXCEPT !.module = None, !.slave = value]

ReadInputKey(e, l) ==
  CASE l.key = "slave" -> {WithSlave(e, l.value)}
    [] l.key = "channels" ->
         {[e EXCEPT !.channels = s] : s \in Allocated(e.channels, l, 100, NewChannel) \ {<<>>}}
    [] l.key \in RuleKeys -> {StoredRule(e, l)}
    [] OTHER -> {Stored(e, l)}

\* Mutant: the format sets the length although a length was given before.
FormatReadLast(ch, format) == [ch EXCEPT !.format = format, !.length = FormatSize(format)]

\* The format has a length of its own unless one was given: the keys may
\* appear in either order.
FormatRead(ch, format) ==
  [ch EXCEPT !.format = format, !.length = IF ch.has_length THEN @ ELSE FormatSize(format)]

\* A number of registers is doubled in an int: a large one wraps, to a length
\* that may be negative and is no more than the largest.
Doubled(n) == ((2 * n + IntHalf) % (2 * IntHalf)) - IntHalf
Bytes(l) == IF l.key = "nregisters" THEN Doubled(l.value) ELSE l.value
LengthTaken(l) == l.value > 0 /\ Bytes(l) <= TextBytesMax
LengthRead(ch, n) == [ch EXCEPT !.length = n, !.has_length = TRUE]

ReadChannelKey(ch, l) ==
  CASE l.key = "format" -> {FormatRead(ch, l.value)}
    [] l.key \in {"length", "nregisters"} -> IF LengthTaken(l) THEN {LengthRead(ch, Bytes(l))} ELSE {}
    [] l.key \in RuleKeys -> {StoredRule(ch, l)}
    [] OTHER -> {Stored(ch, l)}

\* What is written is as long as its format.
WithFormat(w, format) == [w EXCEPT !.format = format, !.length = FormatSize(format)]

ReadWriteKey(w, l) ==
  CASE l.key = "slave" -> {WithSlave(w, l.value)}
    [] l.key = "type" -> {[w EXCEPT !.type = t] : t \in {l.value} \cap {"coil", "holding_register"}}
    [] l.key = "format" ->
         {WithFormat(w, f) : f \in {l.value} \ Texts}
    [] l.key = "channels" ->
         {[w EXCEPT !.channels = s] : s \in Allocated(w.channels, l, BlockMax, NewWriteChannel) \ {<<>>}}
    [] OTHER -> {Stored(w, l)}

ReadWriteChannelKey(ch, l) ==
  IF l.key = "format" THEN {WithFormat(ch, l.value)}
  ELSE {Stored(ch, l)}

\* What the line says of an input, or of one of its channels.
ReadInput(e, l) ==
  IF l.at = "input" THEN ReadInputKey(e, l)
  ELSE {[e EXCEPT !.channels[l.c] = ch] : ch \in ReadChannelKey(e.channels[l.c], l)}
ReadWrite(w, l) ==
  IF l.at = "write" THEN ReadWriteKey(w, l)
  ELSE {[w EXCEPT !.channels[l.c] = ch] : ch \in ReadWriteChannelKey(w.channels[l.c], l)}

\* The line is about an input or a write, or a channel, that is not there (yet).
OfInput(l) == l.at \in {"input", "input_channel"}
OutOfRange(c, l) ==
  LET list == IF OfInput(l) THEN c.inputs ELSE c.writes
  IN /\ l.at # "config"
     /\ l.n \in DOMAIN list => l.at \in {"input_channel", "write_channel"} /\ l.c \notin DOMAIN list[l.n].channels

\* A line of an input that is not there is skipped, one of a write an error:
\* a block is written whole.
Skip(c, l) == IF OfInput(l) THEN {c} ELSE {}

Read(c, l) ==
  IF OutOfRange(c, l) THEN Skip(c, l)
  ELSE IF ~Takes(l) THEN {}
  ELSE IF l.at = "config" THEN ReadConfigKey(c, l)
  ELSE IF OfInput(l) THEN {[c EXCEPT !.inputs[l.n] = e] : e \in ReadInput(c.inputs[l.n], l)}
  ELSE {[c EXCEPT !.writes[l.n] = w] : w \in ReadWrite(c.writes[l.n], l)}

\* -e key=value: the first override of the line's key stands in its place.
Given(f, l) == {k \in DOMAIN f.overrides : SameKey(f.overrides[k], l)}
FirstGiven(f, l) == f.overrides[Min(Given(f, l))]
Overridden(f, l) == IF Given(f, l) = {} THEN l ELSE FirstGiven(f, l)

\* The two module keys are taken from -e also when the file does not have them.
ModuleLine(key) == Line("config", 0, 0, key, 0)
Beside(f, key) ==
  IF Given(f, ModuleLine(key)) = {} \/ \E l \in Range(f.lines) : SameKey(l, ModuleLine(key)) THEN {}
  ELSE {FirstGiven(f, ModuleLine(key))}
ReadBeside(f, key, c) == IF Beside(f, key) = {} THEN {c} ELSE UNION {Read(c, l) : l \in Beside(f, key)}
WithModuleOverrides(f, c) ==
  UNION {ReadBeside(f, "module_slave_first", d) : d \in ReadBeside(f, "module_count", c)}
-----------------------------------------------------------------------------
(***************************************************************************)
(* All lines are read.  The modules come first: whatever follows works on  *)
(* the inputs and writes that will run.                                    *)
(***************************************************************************)
ModulesFit(c) == c.module_count > 0 => c.module_slave_first + c.module_count - 1 <= SlaveMax

Templates(list) == {k \in DOMAIN list : list[k].module = Template}
Total(c, list) == Len(list) + Cardinality(Templates(list)) * (c.module_count - 1)

\* Mutant: the total is not looked at.
AlwaysExpands(c, list) == Templates(list) # {} => c.module_count > 0
CanExpand(c, list) ==
  Templates(list) # {} => c.module_count > 0 /\ Total(c, list) <= InputWriteMax

Copy(c, e, m) == [e EXCEPT !.module = m, !.slave = c.module_slave_first + m]

\* Module-major: the whole list for module 0, then the templates alone for
\* every other module.
Entry(list, p) == list[((p - 1) % Len(list)) + 1]
Places(c, list) ==
  {p \in 1..Len(list) * c.module_count : p <= Len(list) \/ Entry(list, p).module = Template}
CopyAt(c, list, p) ==
  IF Entry(list, p).module = Template THEN Copy(c, Entry(list, p), (p - 1) \div Len(list)) ELSE Entry(list, p)
Expanded(c, list) ==
  IF Templates(list) = {} THEN list
  ELSE [k \in 1..Cardinality(Places(c, list)) |-> CopyAt(c, list, Nth(Places(c, list), k))]

\* Before config.version 2 the int_ formats were unsigned and stay so.
Unsigned == [int8 |-> "a", int16_ab |-> "ab", int16_ba |-> "ba"]
AsVersion(c, e) ==
  IF c.version < 2 /\ e.format \in DOMAIN Unsigned THEN [e EXCEPT !.format = Unsigned[@]] ELSE e

FrameDelay(c) == IF c.frame_delay_ms # Unset THEN c.frame_delay_ms ELSE IF c.rtu THEN 50 ELSE 0

\* What publish rule r of a channel comes to, each on its own.
Inherited(c, in, ch, r) ==
  IF ch.rules[r] # Unset THEN ch.rules[r]
  ELSE IF in.rules[r] # Unset THEN in.rules[r]
  ELSE c.rules[r]
OrZero(n) == IF n = Unset THEN 0 ELSE n
WithRules(c, in, ch) == [ch EXCEPT !.rules = [r \in RuleKeys |-> OrZero(Inherited(c, in, ch, r))]]

-----------------------------------------------------------------------------
\* Validation of inputs

IntervalGiven(c, in) == c.query_mode = "rounds" \/ in.interval > 0 \/ in.interval = Once

TextValid(ch) ==
  LET size == FormatSize(ch.format)
  IN /\ IF size = 0 THEN ch.has_length ELSE ch.has_length => ch.length = size
     /\ ch.format = "version_regs" => ch.length % 2 = 0
     /\ ~ch.scaled /\ ch.decimals = Unset /\ ~ch.timefmt
     /\ ch.rules["min_change"] = Unset /\ ch.rules["min_change_rel"] = Unset
NumberValid(ch) == ~ch.has_length /\ ~ch.timefmt

\* A channel without a topic is an unused slot.
ChannelValid(in, ch) ==
  \/ ch.topic = NoTopic
  \/ IF IsBit(in.type) THEN ch.format = ""
     ELSE ch.format # "" /\ IF ch.format \in Texts THEN TextValid(ch) ELSE NumberValid(ch)

-----------------------------------------------------------------------------
\* Validation of writes

SpanEnd(channels) == Max({0} \cup {ch.offset + ch.length : ch \in Range(channels)})
Registers(w) == IF w.naddress # Unset THEN w.naddress ELSE SpanEnd(w.channels) \div 2
Covers(ch, r) == ch.offset \div 2 <= r /\ r < (ch.offset + ch.length) \div 2
Claims(w, r) == {k \in DOMAIN w.channels : Covers(w.channels[k], r)}

\* Mutant: a register that belongs to no channel is let through.
TiledWithGaps(w, n) == \A r \in 0..n - 1 : Cardinality(Claims(w, r)) <= 1
\* Every register of the block belongs to exactly one channel.
Tiled(w, n) == \A r \in 0..n - 1 : Cardinality(Claims(w, r)) = 1

\* config_validate_write_block
BlockValid(w) ==
  /\ \A k \in DOMAIN w.channels :
       LET ch == w.channels[k]
       IN /\ ch.format \notin {""} \cup Texts /\ ch.length \in {2, 4}
          /\ ch.offset >= 0 /\ ch.offset % 2 = 0
          /\ (ch.offset + ch.length) \div 2 <= Registers(w)
  /\ Registers(w) \in 1..BlockMax
  /\ Tiled(w, Registers(w))

\* type and function say the same thing: either gives the other.
Derived(w) ==
  [w EXCEPT
    !.function = IF @ # "" THEN @
                 ELSE IF w.type = "coil" THEN "write_coil"
                 ELSE IF w.length = 4 THEN "write_registers" ELSE "write_register",
    !.type = IF @ # "" THEN @ ELSE IF w.function = "write_coil" THEN "coil" ELSE "holding_register"]

\* Function 06 writes one register; one byte has no half of it to be in.
TakesLength(function, length) == length \in {2, 4} /\ (length = 4 => function # "write_register")

SingleValid(w) ==
  /\ w.naddress = Unset /\ (w.type # "" \/ w.function # "")
  /\ (Derived(w).type = "coil") = (Derived(w).function = "write_coil")
  /\ IF Derived(w).type = "coil" THEN w.format = "" /\ ~w.scaled
     ELSE w.format # "" /\ TakesLength(Derived(w).function, w.length)

WriteValid(w) ==
  /\ w.topic # NoTopic /\ w.address # Unset /\ w.slave # Unset
  /\ (w.on_value = Unset) = (w.off_value = Unset)
  /\ IF w.channels = <<>> THEN SingleValid(w)
     ELSE /\ w.format = "" /\ ~w.scaled /\ w.on_value = Unset
          /\ w.type # "coil" /\ w.function \in {"", "write_registers"}
          /\ BlockValid(w)

WriteSettled(w) ==
  IF w.channels = <<>> THEN Derived(w)
  ELSE [w EXCEPT !.function = "write_registers", !.type = "holding_register", !.naddress = Registers(w)]

-----------------------------------------------------------------------------
\* Topics

Prefixed(c, topic) == IF topic = NoTopic THEN topic ELSE c.topic_prefix \o topic

\* %i is the module's index and what tells the modules' topics apart: a
\* template has it, and nothing else has.
TopicValid(topic, module) == topic # NoTopic => (Index \in Range(topic)) = (module >= 0)
Substituted(topic, module) ==
  [k \in DOMAIN topic |-> IF topic[k] = Index THEN Decimal[module]
                          ELSE IF topic[k] = Percent THEN "%" ELSE topic[k]]

\* mqtt.ack and <topic>/ack stand in for what the write does not say.
WithAck(c, w) ==
  LET ack == IF w.ack = Unset THEN c.ack ELSE w.ack
  IN [w EXCEPT !.ack = ack,
               !.ack_topic = IF ack = 1 /\ @ = NoTopic THEN Append(w.topic, "/ack") ELSE @]

-----------------------------------------------------------------------------
\* The end of config_parse_stream

\* What runs, its formats read as config.version means them.
PreparedInput(c, e) == [e EXCEPT !.channels = [k \in DOMAIN @ |-> AsVersion(c, @[k])]]
PreparedWrite(c, e) == AsVersion(c, PreparedInput(c, e))
Prepared(c) ==
  LET inputs == Expanded(c, c.inputs)
      writes == Expanded(c, c.writes)
  IN [c EXCEPT !.frame_delay_ms = FrameDelay(c),
               !.inputs = [k \in DOMAIN inputs |-> PreparedInput(c, inputs[k])],
               !.writes = [k \in DOMAIN writes |-> PreparedWrite(c, writes[k])]]

Valid(c) ==
  /\ \A in \in Range(c.inputs) :
       IntervalGiven(c, in) /\ \A ch \in Range(in.channels) : ChannelValid(in, ch)
  /\ \A w \in Range(c.writes) : WriteValid(w)

\* The rules inherited, the writes settled, the prefix on every topic.
NamedChannel(c, in, ch) == [WithRules(c, in, ch) EXCEPT !.topic = Prefixed(c, @)]
NamedInput(c, in) == [in EXCEPT !.channels = [k \in DOMAIN @ |-> NamedChannel(c, in, @[k])]]
NamedWrite(c, w) == [WriteSettled(w) EXCEPT !.topic = Prefixed(c, @), !.ack_topic = Prefixed(c, @)]
Named(c) == [c EXCEPT !.inputs = [k \in DOMAIN @ |-> NamedInput(c, @[k])],
                      !.writes = [k \in DOMAIN @ |-> NamedWrite(c, @[k])]]

TopicsValid(c) ==
  /\ \A in \in Range(c.inputs) : \A ch \in Range(in.channels) : TopicValid(ch.topic, in.module)
  /\ \A w \in Range(c.writes) : TopicValid(w.topic, w.module) /\ TopicValid(w.ack_topic, w.module)

IndexedChannel(m, ch) == [ch EXCEPT !.topic = Substituted(@, m)]
IndexedInput(in) == [in EXCEPT !.channels = [k \in DOMAIN @ |-> IndexedChannel(in.module, @[k])]]
IndexedWrite(c, w) ==
  WithAck(c, [w EXCEPT !.topic = Substituted(@, w.module), !.ack_topic = Substituted(@, w.module)])
Indexed(c) == [c EXCEPT !.inputs = [k \in DOMAIN @ |-> IndexedInput(@[k])],
                        !.writes = [k \in DOMAIN @ |-> IndexedWrite(c, @[k])]]

\* The configuration the program runs, or none when it is refused.
Settled(c) ==
  IF /\ ModulesFit(c) /\ CanExpand(c, c.inputs) /\ CanExpand(c, c.writes)
     /\ Valid(Prepared(c)) /\ TopicsValid(Named(Prepared(c)))
  THEN {Indexed(Named(Prepared(c)))}
  ELSE {}

-----------------------------------------------------------------------------
ConfigInit ==
  /\ \E i \in DOMAIN Files : file = Files[i]
  /\ read = {} /\ config = Empty /\ result = <<>> /\ outcome = "reading" /\ early = FALSE

\* One line of the file.  The lines come in many orders, each of which is a file.
ReadLine(k) ==
  /\ outcome = "reading" /\ k \in DOMAIN file.lines \ read
  /\ Cardinality({j \in 1..k - 1 : j \notin read}) < Window
  /\ LET line == Overridden(file, file.lines[k])
     IN /\ read' = read \cup {k}
        /\ early' = (early \/ OutOfRange(config, line))
        /\ \/ Read(config, line) = {} /\ outcome' = "refused" /\ UNCHANGED config
           \/ config' \in Read(config, line) /\ UNCHANGED outcome
  /\ UNCHANGED <<file, result>>

\* The end of the file.
Finish ==
  /\ outcome = "reading" /\ read = DOMAIN file.lines
  /\ \/ /\ \A c \in WithModuleOverrides(file, config) : Settled(c) = {}
        /\ outcome' = "refused" /\ UNCHANGED <<config, result>>
     \/ /\ config' \in WithModuleOverrides(file, config)
        /\ result' \in Settled(config') /\ outcome' = "accepted"
  /\ UNCHANGED <<file, read, early>>

ConfigNext == (\E k \in DOMAIN file.lines : ReadLine(k)) \/ Finish
ConfigSpec == ConfigInit /\ [][ConfigNext]_configVars

-----------------------------------------------------------------------------
(***************************************************************************)
(* Properties                                                              *)
(***************************************************************************)

\* What a set of lines says of key of channel c of entry n, each level apart.
Said(lines, at, n, c, key) == {l \in lines : l.at = at /\ l.n = n /\ l.c = c /\ l.key = key}
ValueOf(said, default) == IF said = {} THEN default ELSE (CHOOSE l \in said : TRUE).value
ValueSaid(lines, at, n, c, key, default) == ValueOf(Said(lines, at, n, c, key), default)
RulesSaid(lines, at, n, c) == [r \in RuleKeys |-> ValueSaid(lines, at, n, c, r, Unset)]

ChannelSaid(lines, n, c) ==
  LET value(key) == ValueSaid(lines, "input_channel", n, c, key, NewChannel[key])
      says(key) == Said(lines, "input_channel", n, c, key) # {}
  IN [key \in DOMAIN NewChannel |->
        CASE key = "rules" -> RulesSaid(lines, "input_channel", n, c)
          [] key = "has_length" -> says("length") \/ says("nregisters")
          [] key = "length" -> IF says("length") THEN value("length")
                               ELSE IF says("nregisters")
                               THEN Doubled(ValueSaid(lines, "input_channel", n, c, "nregisters", 0))
                               ELSE FormatSize(value("format"))
          [] OTHER -> value(key)]
InputSaid(lines, n) ==
  LET value(key) == ValueSaid(lines, "input", n, 0, key, NewInput[key])
  IN [key \in DOMAIN NewInput |->
        CASE key = "rules" -> RulesSaid(lines, "input", n, 0)
          [] key \in {"module", "slave"} -> WithSlave(NewInput, value("slave"))[key]
          [] key = "channels" ->
               [c \in 1..ValueSaid(lines, "input", n, 0, "channels", 0) |-> ChannelSaid(lines, n, c)]
          [] OTHER -> value(key)]

WriteChannelSaid(lines, n, c) ==
  LET value(key) == ValueSaid(lines, "write_channel", n, c, key, NewWriteChannel[key])
  IN [key \in DOMAIN NewWriteChannel |-> IF key = "length" THEN FormatSize(value("format")) ELSE value(key)]
WriteSaid(lines, n) ==
  LET value(key) == ValueSaid(lines, "write", n, 0, key, NewWrite[key])
  IN [key \in DOMAIN NewWrite |->
        CASE key = "length" -> FormatSize(value("format"))
          [] key \in {"module", "slave"} -> WithSlave(NewWrite, value("slave"))[key]
          [] key = "channels" ->
               [c \in 1..ValueSaid(lines, "write", n, 0, "channels", 0) |-> WriteChannelSaid(lines, n, c)]
          [] OTHER -> value(key)]

\* What a set of lines says, in whatever order they come: a key is what its
\* line gives it, a number of bytes that no line gives is the format's.
ConfigSaid(lines) ==
  LET value(key, default) == ValueSaid(lines, "config", 0, 0, key, default)
  IN [key \in DOMAIN Empty |->
        CASE key = "rules" -> RulesSaid(lines, "config", 0, 0)
          [] key = "inputs" -> [n \in 1..value("inputs", 0) |-> InputSaid(lines, n)]
          [] key = "writes" -> [n \in 1..value("writes", 0) |-> WriteSaid(lines, n)]
          [] OTHER -> value(key, Empty[key])]

\* A line that nothing else in a file can make acceptable.
Unacceptable(l) ==
  \/ ~Takes(l)
  \/ CASE l.at = "config" -> ReadConfigKey(Empty, l) = {}
       [] l.at = "input" -> ReadInputKey(NewInput, l) = {}
       [] l.at = "input_channel" -> ReadChannelKey(NewChannel, l) = {}
       [] l.at = "write" -> ReadWriteKey(NewWrite, l) = {}
       [] l.at = "write_channel" -> ReadWriteChannelKey(NewWriteChannel, l) = {}

\* No key is given twice, nor the length of a channel in two ways.
Sets(key) == IF key = "nregisters" THEN "length" ELSE key
SameThing(l, m) == l.at = m.at /\ l.n = m.n /\ l.c = m.c /\ Sets(l.key) = Sets(m.key)
EachKeyOnce(f) == \A j, k \in DOMAIN f.lines : j # k => ~SameThing(f.lines[j], f.lines[k])

LinesRead(f, ks) == {Overridden(f, f.lines[k]) : k \in ks}
AllLines(f) == LinesRead(f, DOMAIN f.lines) \cup Beside(f, "module_count") \cup Beside(f, "module_slave_first")

(***************************************************************************)
(* Keys may come in any order, as long as the max keys come before what    *)
(* they count ("the keys may appear in either order", "config.version may  *)
(* appear anywhere in the file"): a file is accepted when none of its      *)
(* lines is unacceptable and what they say together can be settled, and    *)
(* then that is what runs.                                                 *)
(***************************************************************************)
OrderKept ==
  outcome # "reading" /\ ~early /\ EachKeyOnce(file) =>
    LET lines == AllLines(file)
    IN IF outcome = "accepted"
       THEN (\A l \in lines : ~Unacceptable(l)) /\ Settled(ConfigSaid(lines)) = {result}
       ELSE (\E l \in lines : Unacceptable(l)) \/ Settled(ConfigSaid(lines)) = {}

\* No topic of entry e is the same topic of entry f: that of the same channel,
\* or the topic, or the ack_topic, of the same write.
InputsApart(e, f) ==
  \A k \in DOMAIN e.channels : e.channels[k].topic # NoTopic => e.channels[k].topic # f.channels[k].topic
WritesApart(e, f) == e.topic # f.topic /\ (e.ack_topic # NoTopic => e.ack_topic # f.ack_topic)

\* What an entry comes to, if it can be told from the others by its address.
RunsOnce(c, from, to, Differ(_, _)) ==
  /\ Len(to) <= InputWriteMax
  /\ \A i \in DOMAIN from :
       (\A j \in DOMAIN from : j # i => from[j].address # from[i].address) =>
         LET copies == {k \in DOMAIN to : to[k].address = from[i].address}
             modules == {to[k].module : k \in copies}
         IN /\ \A j, k \in copies : j # k =>
                 to[j].module # to[k].module /\ to[j].slave # to[k].slave /\ Differ(to[j], to[k])
            /\ IF from[i].module = Template
               THEN modules = 0..c.module_count - 1 /\ \A k \in copies : to[k].slave \in 1..SlaveMax
               ELSE modules = {None}

(***************************************************************************)
(* An accepted template runs once on every module, each copy on a slave of *)
(* its own that can be addressed; none of its topics is what the same      *)
(* topic became on another module.  (What two different topics became may  *)
(* be the same: see the README.)  An entry of a fixed slave runs once.     *)
(* There are never more than InputWriteMax entries                         *)
(* (config_expand_inputs, config_apply_module_topics).                     *)
(***************************************************************************)
OneCopyPerModule ==
  outcome = "accepted" =>
    /\ RunsOnce(config, config.inputs, result.inputs, InputsApart)
    /\ RunsOnce(config, config.writes, result.writes, WritesApart)

\* What raw number k of a channel stands for.
StandsFor(ch, k) == IF ch.format \in Floats THEN <<k, 1>> ELSE Scaled(ch, k)

\* A block of what the raw numbers 1, 2, 3.. stand for reads back channel by
\* channel, and every byte of it is that of one channel.
BlockReadsBack(w) ==
  LET bytes == EncodeBlock(w, [k \in DOMAIN w.channels |-> StandsFor(w.channels[k], k)])
      Field(ch) == SubSeq(bytes, ch.offset + 1, ch.offset + ch.length)
      Holds(ch, b) == ch.offset < b /\ b <= ch.offset + ch.length
  IN /\ bytes # Refused /\ Len(bytes) = 2 * w.naddress
     /\ \A k \in DOMAIN w.channels : DecodeValue(w.channels[k].format, Field(w.channels[k])) = k
     /\ \A b \in DOMAIN bytes : Cardinality({k \in DOMAIN w.channels : Holds(w.channels[k], b)}) = 1

\* One value fills the one register of function 06, or the two of 16.
FillsRegisters(w) ==
  LET bytes == EncodeScaled([format |-> w.format, add |-> 0, mod |-> 0, mul |-> 0], <<1, 1>>)
  IN Len(bytes) \in IF w.function = "write_register" THEN {2} ELSE {2, 4}

(***************************************************************************)
(* What is accepted can be sent, so that nobody finds out at the first     *)
(* message (the comment above the validation of writes): a value encodes   *)
(* to the registers its function writes, a block to all of its registers,  *)
(* every channel whole.  Format float_ba is the exception: it is accepted, *)
(* and never encodes.                                                      *)
(***************************************************************************)
WritesSendable ==
  outcome = "accepted" =>
    \A w \in Range(result.writes) :
      /\ (w.function = "write_coil") = (w.type = "coil")
      /\ w.channels # <<>> =>
           \/ \E ch \in Range(w.channels) : ch.format = "float_ba"
           \/ w.function = "write_registers" /\ BlockReadsBack(w)
      /\ w.channels = <<>> /\ w.type # "coil" /\ w.format # "float_ba" => FillsRegisters(w)
=============================================================================
