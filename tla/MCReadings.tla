----------------------------- MODULE MCReadings -----------------------------
(***************************************************************************)
(* Values for checking Readings: bytes of four bits, two digits to a byte  *)
(* with digits 0 to 2, and a device whose inputs overlap, skip their first *)
(* register and use formats of every width and kind.                       *)
(***************************************************************************)
EXTENDS Readings

Input(type, address, shift, n) ==
  [slave |-> 1, type |-> type, address |-> address, address_offset |-> shift, naddress |-> n]
Number(in, format, offset, add, mod, mul) ==
  [in |-> in, format |-> format, offset |-> offset, length |-> FormatSize(format),
   add |-> add, mod |-> mod, mul |-> mul]
Text(in, format, offset, length) ==
  [in |-> in, format |-> format, offset |-> offset, length |-> length,
   add |-> 0, mod |-> 0, mul |-> 0]
Bit(in, offset, add, mul) ==
  [in |-> in, format |-> "bit", offset |-> offset, length |-> 0,
   add |-> add, mod |-> 0, mul |-> mul]

A == Input("input_register", 10, 1, 5)
B == Input("input_register", 14, 0, 5)
C == Input("holding_register", 0, 0, 7)
D == Input("coil", 3, 1, 6)
E == Input("holding_register", 0, 1, 6)

MCChannels == <<
  Number(A, "ab", 2, 1, -3, 0),          \* first word after the skipped one
  Number(A, "badc", 6, 0, 0, -1),
  Number(A, "int16_ba", 4, 0, 0, 2),
  Number(A, "a", 0, 0, 0, 0),            \* in the skipped register
  Number(A, "int8", 10, 0, 0, 0),
  Number(A, "ab", 11, 0, 0, 0),          \* across the end
  Number(A, "ab", 20, 0, 0, 0),          \* behind the end
  Text(B, "ascii_ba", 5, 3),
  Number(B, "int8", 8, 0, 2, 0),
  Text(C, "bcd_ba", 0, 2),
  Text(C, "version_regs", 6, 4),
  Number(C, "float_cdab", 10, 0, 0, 0),
  Number(E, "uint32_badc", 2, 0, 0, 0),
  Bit(D, 0, 0, 0), Bit(D, 1, -1, -1), Bit(D, 6, 0, 0)>>

\* Words at the ends of their ranges, na_value, texts that fill their field or
\* do not suit it.
MCPresets == {
  <<254, -32768, -128, 7, -8, 15, 3, <<2, 5, 9>>, -1, <<2, 1>>, <<1, 20>>, 4660, 65535, 1, 0, 1>>,
  <<0, 32767, -1, 7, 7, 8, 3, <<15, 2, 3>>, 0, <<1, 0, 2, 1>>, <<255>>, 65535, 1, 1, 1, 0>>}

\* Halves are rounded away from zero; the ends of the ranges and a step beyond;
\* a text that fits and one that does not.
MCLives ==
  {<<1, <<n, 6>>>> : n \in {-3, -1, 1, 7, 511, 512}}
  \cup {<<3, <<n, 1>>>> : n \in {-257, -256, -3, 253, 254}}
  \cup {<<2, <<32768, 1>>>>, <<9, <<-15, 1>>>>, <<15, <<1, 1>>>>,
        <<8, <<2, 9, 2, 5, 2>>>>, <<10, <<1, 2, 2, 2, 1>>>>}

Cell(format, offset, add, mod, mul) ==
  [format |-> format, offset |-> offset, add |-> add, mod |-> mod, mul |-> mul]
Single == [naddress |-> 1, channels |-> <<Cell("int16_ba", 0, 3, -2, 0)>>]
Block == [naddress |-> 4, channels |-> <<Cell("badc", 2, 0, -3, -1), Cell("ab", 0, -1, 0, 0),
                                         Cell("ba", 6, 0, 2, 3)>>]
Writes ==
  UNION {WritesOf(1, Single, <<v>>) : v \in {<<n, 4>> : n \in {-250, -249, 3, 5, 256, 270}}}
  \cup UNION {WritesOf(1, Block, <<<<-7, 2>>, v, <<100, 1>>>>) : v \in {<<-129, 1>>, <<-5, 1>>, <<254, 1>>, <<255, 1>>}}

\* Reads of nothing and of too much; writes of no and of too many registers,
\* with a wrong byte count, cut short, and one that is taken: from any client.
BadReads == {[PollOf(C) EXCEPT !.count = n] : n \in {0, 8}}
Written(count, nbyte, bytes) ==
  [kind |-> "write", slave |-> 1, write |-> Null, values |-> <<>>,
   count |-> count, nbyte |-> nbyte, bytes |-> bytes]
OddWrites == {Written(0, 0, <<>>), Written(5, 10, Zeros(10)), Written(2, 2, <<0, 0>>),
              Written(2, 4, <<0, 0>>), Written(1, 2, <<0, 1>>)}

MCAsks == {PollOf(A), PollOf(B), PollOf(C), PollOf(D), PollOf(E)} \cup BadReads \cup OddWrites \cup Writes

\* Instance of the run on raw coils.
MCCoils == {CoilsOf(1, <<1, 0, 1, 1, 0>>)}

\* The channels above lie as PollReadsHeldProved wants them.
ASSUME MCApart == ChannelsApart
=============================================================================
