------------------------------ MODULE MCConfig ------------------------------
(***************************************************************************)
(* Files for checking Config, by family.  A family is a product of slots;  *)
(* a slot is a sequence of alternatives, each a sequence of lines.  No key *)
(* is given twice, and the max keys come before what they count.           *)
(***************************************************************************)
EXTENDS Config, TLC

C(key, value) == Line("config", 0, 0, key, value)
I(n, key, value) == Line("input", n, 0, key, value)
IC(c, key, value) == Line("input_channel", 1, c, key, value)
W(key, value) == Line("write", 1, 0, key, value)
WC(c, key, value) == Line("write_channel", 1, c, key, value)
Bad(line) == [line EXCEPT !.ok = FALSE]

\* The alternatives line(v) for v in values, and no line at all.
Maybe(line(_), values) == <<<<>>>> \o [i \in DOMAIN values |-> <<line(values[i])>>]

Product(slots) ==
  LET Times2(some, alternatives) ==
        LET n == Len(alternatives)
        IN [k \in 1..Len(some) * n |-> some[(k - 1) \div n + 1] \o alternatives[((k - 1) % n) + 1]]
  IN FoldLeft(Times2, <<<<>>>>, slots)
With(lines, overrides) == [i \in DOMAIN lines |-> [lines |-> lines[i], overrides |-> overrides]]

\* One template and one fixed input; the modules up to the limits and past them.
ModuleLines == Product(<<
  Maybe(LAMBDA v : C("module_count", v), <<0, 2, 3, 4>>),
  Maybe(LAMBDA v : C("topic_prefix", v), <<<<"p", "%%">>, <<"p", "%i">>>>),
  <<<<C("inputs", 2), I(1, "slave", Template), I(1, "address", 1), I(1, "interval", 5), I(1, "channels", 1)>>>>,
  << <<IC(1, "topic", <<"t", "%i">>)>>, <<IC(1, "topic", <<"t">>)>>, <<>> >>,
  <<<<IC(1, "format", "ab"), I(2, "slave", 1), I(2, "address", 2), I(2, "interval", Once)>>>>,
  Maybe(LAMBDA v : C("module_slave_first", v), <<2, 3>>)>>)
ModuleFiles ==
  With(ModuleLines, <<>>) \o With(ModuleLines, <<C("module_count", 2)>>)
  \o With(ModuleLines, <<C("module_slave_first", 2)>>) \o With(ModuleLines, <<C("module_slave_first", 0)>>)

\* A template write, its ack, and a fixed one.
AckFiles == With(Product(<<
  Maybe(LAMBDA v : C("ack", v), <<1>>),
  << <<C("module_count", 2)>>, <<C("module_count", 4)>>, <<C("topic_prefix", <<"p">>)>> >>,
  <<<<C("writes", 1), W("type", "coil")>>>>,
  << <<W("slave", Template)>>, <<W("slave", 1)>> >>,
  Maybe(LAMBDA v : W("topic", v), << <<"w", "%i">>, <<"w">> >>),
  Maybe(LAMBDA v : W("ack_topic", v), << <<"a", "%i">>, <<"a">> >>),
  << <<W("ack", 0)>>, <<Bad(W("ack", 0))>>, <<>> >>,
  << <<W("address", 1)>> >> >>), <<>>)

\* Formats, lengths and what goes with them, in both orders.
ChannelFiles == With(Product(<<
  << <<C("inputs", 1), I(1, "channels", 1), I(1, "interval", 5)>> >>,
  << <<I(1, "type", "holding_register")>>, <<I(1, "type", "coil")>> >>,
  << <<IC(1, "topic", <<"t">>)>> >>,
  Maybe(LAMBDA v : IC(1, "format", v), <<"ascii_ba", "version_regs", "version_ab", "int16_ab">>),
  << <<>>, <<IC(1, "length", 2)>>, <<IC(1, "length", 3)>>, <<IC(1, "nregisters", 1)>>, <<IC(1, "nregisters", 4)>>,
     <<IC(1, "nregisters", 8)>> >>,
  << <<>>, <<IC(1, "scaled", TRUE)>>, <<IC(1, "decimals", 1)>>, <<IC(1, "timefmt", TRUE)>>,
     <<IC(1, "min_change", 1)>>, <<Bad(IC(1, "min_change", 1))>> >>,
  Maybe(LAMBDA v : C("version", v), <<2>>) >>), <<>>)

\* Two rules at the three levels, of two channels of a template.
RuleLines == Product(<<
  << <<C("inputs", 1), I(1, "channels", 2), I(1, "slave", Template), C("module_count", 2),
       IC(1, "topic", <<"t", "%i">>), IC(1, "format", "ab"), IC(2, "topic", <<"u", "%i">>)>> >>,
  << <<I(1, "interval", 5)>>, <<C("query_mode", "rounds")>>, <<>> >>,
  Maybe(LAMBDA v : I(1, "min_change", v), <<2>>),
  Maybe(LAMBDA v : IC(2, "min_change", v), <<3>>),
  Maybe(LAMBDA v : C("min_change", v), <<1>>),
  Maybe(LAMBDA v : I(1, "on_change", v), <<0>>),
  Maybe(LAMBDA v : IC(1, "on_change", v), <<0>>),
  Maybe(LAMBDA v : C("on_change", v), <<1>>) >>)
RuleFiles == With(RuleLines, <<>>) \o With(RuleLines, <<I(1, "min_change", 4)>>)

\* One value: what is there, and what is missing.
SingleFiles == With(Product(<<
  << <<C("writes", 1), W("topic", <<"w">>), W("address", 1)>> >>,
  Maybe(LAMBDA v : W("type", v), <<"coil", "holding_register", "discrete_input">>),
  Maybe(LAMBDA v : W("function", v), <<"write_coil", "write_register", "write_registers">>),
  Maybe(LAMBDA v : W("format", v), <<"int16_ba", "abcd", "int8", "ascii_ab", "float_ba">>),
  << <<W("slave", 0)>>, <<W("slave", 0), W("naddress", 1)>>, <<W("slave", 0), W("scaled", TRUE)>>,
     <<W("slave", 0), W("on_value", 1)>>, <<W("slave", 0), W("on_value", 1), W("off_value", 0)>>, <<>> >> >>), <<>>)

\* Blocks of two channels: gaps, overlaps, odd offsets, lengths.
Writable == <<C("writes", 1), W("channels", 2), W("topic", <<"w">>), W("address", 1), W("slave", 1)>>
BlockFiles == With(Product(<<
  <<Writable>>,
  << <<>>, <<WC(1, "offset", 2)>> >>,
  << <<WC(1, "format", "ab")>>, <<WC(1, "format", "abcd")>> >>,
  Maybe(LAMBDA v : WC(2, "offset", v), <<1, 2, 4>>),
  Maybe(LAMBDA v : WC(2, "format", v), <<"int16_ab", "float_abcd", "a", "ascii_ab", "float_ba">>),
  Maybe(LAMBDA v : W("naddress", v), <<2, 3>>) >>), <<>>)
EntryFiles == With(Product(<<
  <<Writable \o <<WC(1, "format", "int16_ba"), WC(2, "offset", 2), WC(2, "format", "badc")>> >>,
  << <<>>, <<W("function", "write_registers")>>, <<W("function", "write_register")>>, <<W("type", "coil")>>,
     <<W("format", "ab")>>, <<W("on_value", 1), W("off_value", 0)>>, <<W("scaled", TRUE)>>, <<WC(3, "offset", 6)>> >>,
  << <<>>, <<C("frame_delay_ms", 5)>>, <<C("rtu", TRUE)>> >> >>), <<>>)

MCDecimal == [m \in 0..SlaveMax |-> ToString(m)]
MCFiles == ModuleFiles \o AckFiles \o ChannelFiles \o RuleFiles \o SingleFiles \o BlockFiles \o EntryFiles
=============================================================================
