----------------------------- MODULE Registers -----------------------------
(***************************************************************************)
(* What the bytes of a frame mean (lib/modbusmq.c): how the bridge reads a *)
(* channel out of a response, how it turns a value it is to write into     *)
(* registers, and how modbusmq_server turns a configured or a live value   *)
(* into the bytes a device would send.  Operators only, for Readings.       *)
(*                                                                         *)
(* Values in engineering units are fractions <<numerator, denominator>>    *)
(* with a positive denominator: the rounding of float and double           *)
(* arithmetic is left out.  A float in a register is its bit pattern, and  *)
(* float channels are not scaled here.  Dates and times are left out.      *)
(***************************************************************************)
EXTENDS Integers, SequencesExt

CONSTANTS
  Bits,      \* bits of a byte, an even number: 8
  Ten,       \* decimal digits, as far as a nibble can hold them: 10
  Space,     \* the first printable character: 0x20
  Question,  \* what stands for a character that is not printable: 0x3F
  LastChar,  \* the last printable character: 0x7E
  NaValue    \* modbusmq.na_value as a set: empty without the key

ASSUME RegistersAssumption ==
  /\ Bits \in Nat \ {0} /\ Bits % 2 = 0
  /\ Ten \in 1..2^(Bits \div 2)
  /\ Space \in Nat /\ LastChar \in Nat /\ Question \in Space..LastChar
  /\ Space > 0 /\ LastChar < 2^Bits
  /\ NaValue \subseteq Int

Byte == 2^Bits
Nibble == 2^(Bits \div 2)
Zeros(n) == [i \in 1..n |-> 0]

\* What counts one in the byte with k bytes below it.
Weight(k) == 2^(Bits * k)

-----------------------------------------------------------------------------
\* Formats

OneByte == {"a", "int8"}
TwoBytes == {"ab", "ba", "int16_ab", "int16_ba"}
Floats == {"float_abcd", "float_badc", "float_dcba", "float_cdab"}
FourBytes == {"abcd", "badc", "uint32_abcd", "uint32_badc"} \cup Floats
Numbers == OneByte \cup TwoBytes \cup FourBytes
Texts == {"ascii_ab", "ascii_ba", "bcd_ab", "bcd_ba",
          "version_ab", "version_abcd", "version_regs"}
Signed == {"int8", "int16_ab", "int16_ba", "abcd", "badc"}

FormatSize(f) == CASE f \in OneByte -> 1
                   [] f \in TwoBytes \cup {"float_ba", "version_ab"} -> 2
                   [] f \in FourBytes \cup {"version_abcd"} -> 4
                   [] OTHER -> 0

\* Where the most significant byte lies, the next one, and so on.
ByteOrder(f) ==
  CASE f \in OneByte -> <<1>>
    [] f \in {"ab", "int16_ab"} -> <<1, 2>>
    [] f \in {"ba", "int16_ba"} -> <<2, 1>>
    [] f \in {"abcd", "uint32_abcd", "float_abcd"} -> <<1, 2, 3, 4>>
    [] f \in {"badc", "uint32_badc", "float_badc"} -> <<2, 1, 4, 3>>
    [] f = "float_dcba" -> <<4, 3, 2, 1>>
    [] f = "float_cdab" -> <<3, 4, 1, 2>>

\* The raw values a format can hold.
Low(f)  == IF f \in Signed THEN -(Weight(FormatSize(f)) \div 2) ELSE 0
High(f) == IF f \in Signed THEN Weight(FormatSize(f)) \div 2 - 1
                           ELSE Weight(FormatSize(f)) - 1

\* The bytes, in the order of the format, as one unsigned number.
Word(f, bytes) ==
  LET b(k) == bytes[ByteOrder(f)[k]]
  IN  CASE FormatSize(f) = 1 -> b(1)
        [] FormatSize(f) = 2 -> b(1) * Byte + b(2)
        [] FormatSize(f) = 4 -> ((b(1) * Byte + b(2)) * Byte + b(3)) * Byte + b(4)

\* Mutant of DecodeValue: a signed word read unsigned.
DecodeValueUnsigned(f, bytes) == Word(f, bytes)

DecodeValue(f, bytes) ==
  LET n == Word(f, bytes)
  IN  IF n > High(f) THEN n - Weight(FormatSize(f)) ELSE n

\* modbusmq_encode_value: what does not fit loses its high bytes.
EncodeValue(f, raw) ==
  LET size == FormatSize(f)
  IN  [at \in 1..size |->
         LET i == CHOOSE k \in 1..size : ByteOrder(f)[k] = at
         IN  (raw \div Weight(size - i)) % Byte]

-----------------------------------------------------------------------------
\* Text

\* Byte i of a text field as the format orders it; "ba" swaps within registers.
TextByte(f, length, i) ==
  LET partner == IF i % 2 = 1 THEN i + 1 ELSE i - 1
  IN  IF f \in {"ascii_ba", "bcd_ba"} /\ partner <= length THEN partner ELSE i

Trimmed(text) ==
  LET kept == {i \in DOMAIN text : text[i] # Space}
  IN  IF kept = {} THEN <<>>
      ELSE SubSeq(text, CHOOSE i \in kept : \A j \in kept : i <= j,
                        CHOOSE i \in kept : \A j \in kept : i >= j)

Printed(c) == IF c \in Space..LastChar THEN c ELSE Question

\* The member of a set of numbers with n members up to it.
Nth(set, n) == CHOOSE k \in set : Cardinality({j \in set : j <= k}) = n

\* A zero is padding and skipped, wherever it is.
DecodeAscii(chars) ==
  LET kept == {k \in DOMAIN chars : chars[k] # 0}
  IN  Trimmed([n \in 1..Cardinality(kept) |-> Printed(chars[Nth(kept, n)])])

\* Undecodable: a field that is published as nothing at all.
Undecodable == <<-1>>
DecodeBcd(bytes) ==
  LET digits == [k \in 1..2 * Len(bytes) |->
                   IF k % 2 = 1 THEN bytes[(k + 1) \div 2] \div Nibble
                                ELSE bytes[k \div 2] % Nibble]
  IN  IF \A k \in DOMAIN digits : digits[k] < Ten THEN digits ELSE Undecodable

Stride(f) == IF f = "version_regs" THEN 2 ELSE 1
DecodeVersion(stride, bytes) ==
  [k \in 1..Len(bytes) \div stride |->
     IF stride = 2 THEN bytes[2 * k - 1] * Byte + bytes[2 * k] ELSE bytes[k]]

\* modbusmq_read_channel_text, from the bytes of the field.
DecodeText(f, bytes) ==
  LET ordered == [i \in DOMAIN bytes |-> bytes[TextByte(f, Len(bytes), i)]]
  IN  CASE f \in {"ascii_ab", "ascii_ba"} -> DecodeAscii(ordered)
        [] f \in {"bcd_ab", "bcd_ba"} -> DecodeBcd(ordered)
        [] OTHER -> DecodeVersion(Stride(f), bytes)

\* Mutant of EncodeText: a short run of digits pushed to the left.
EncodeTextLeft(f, length, text) ==
  IF f \in {"bcd_ab", "bcd_ba"} /\ Len(text) <= 2 * length
  THEN LET digit(k) == IF k <= Len(text) THEN text[k] ELSE 0
       IN  [i \in 1..length |-> LET j == TextByte(f, length, i)
                                IN  digit(2 * j - 1) * Nibble + digit(2 * j)]
  ELSE Zeros(length)

\* modbusmq_encode_text: digits from the right, characters and version fields
\* from the left, zeros elsewhere.  A text that does not suit its field leaves
\* the fields before the bad one behind.
EncodeText(f, length, text) ==
  LET pad == 2 * length - Len(text)
      digit(k) == IF k <= pad THEN 0 ELSE text[k - pad]
      good == {k \in 1..Len(text) : \A m \in 1..k : Stride(f) = 2 \/ text[m] < Byte}
  IN  CASE f \in {"ascii_ab", "ascii_ba"} ->
             [i \in 1..length |-> LET j == TextByte(f, length, i)
                                  IN  IF Len(text) <= length /\ j <= Len(text)
                                      THEN text[j] ELSE 0]
        [] f \in {"bcd_ab", "bcd_ba"} ->
             [i \in 1..length |-> LET j == TextByte(f, length, i)
                                  IN  IF pad >= 0
                                      THEN digit(2 * j - 1) * Nibble + digit(2 * j)
                                      ELSE 0]
        [] f \in {"version_ab", "version_abcd"} ->
             [i \in 1..length |-> IF i \in good THEN text[i] ELSE 0]
        [] f = "version_regs" ->
             [i \in 1..length |-> LET k == (i + 1) \div 2
                                  IN  IF k \notin good THEN 0
                                      ELSE IF i % 2 = 1 THEN (text[k] \div Byte) % Byte
                                                        ELSE text[k] % Byte]

-----------------------------------------------------------------------------
\* Scaling

OrOne(n) == IF n = 0 THEN 1 ELSE n
Times(ch) == OrOne(ch.mul) * (IF ch.mod > 0 THEN ch.mod ELSE 1)
Divided(ch) == IF ch.mod < 0 THEN -ch.mod ELSE 1

Scaled(ch, raw) == <<(raw + ch.add) * Times(ch), Divided(ch)>>

\* Half away from zero; q is positive.
Rounded(p, q) == IF p >= 0 THEN (2 * p + q) \div (2 * q)
                           ELSE -((q - 2 * p) \div (2 * q))

\* Mutant of RawValue: add undone before mul and mod.
RawValueAddFirst(ch, v) ==
  LET p == (v[1] - ch.add * v[2]) * Divided(ch)
      q == v[2] * Times(ch)
  IN  IF q > 0 THEN Rounded(p, q) ELSE Rounded(-p, -q)

\* emu_raw_value, and the first half of modbusmq_encode_scaled: undo mul, then
\* mod, then add.
RawValue(ch, v) ==
  LET p == v[1] * Divided(ch) - ch.add * v[2] * Times(ch)
      q == v[2] * Times(ch)
  IN  IF ch.format \in Floats THEN v[1] \div v[2]
      ELSE IF q > 0 THEN Rounded(p, q) ELSE Rounded(-p, -q)

\* modbusmq_encode_scaled; Refused when it does not fit.  The unsigned words
\* take the signed range too.
Refused == <<>>
WriteLow(f) == IF f \in {"ab", "ba"} THEN -(Weight(2) \div 2) ELSE Low(f)
EncodeScaled(ch, v) ==
  LET raw == RawValue(ch, v)
  IN  IF /\ ch.format \in TwoBytes \cup FourBytes
         /\ ch.format \in Floats \/ raw \in WriteLow(ch.format)..High(ch.format)
      THEN EncodeValue(ch.format, raw)
      ELSE Refused

-----------------------------------------------------------------------------
\* Reading a response

IsBit(type) == type \in {"coil", "discrete_input"}

\* n bytes, zero but for the pieces laid down one after the other.
LaidOver(n, pieces) ==
  LET over(i) == {p \in DOMAIN pieces : i - pieces[p].at \in DOMAIN pieces[p].bytes}
      byte(p, i) == pieces[p].bytes[i - pieces[p].at]
  IN  [i \in 1..n |-> IF over(i) = {} THEN 0 ELSE byte(Max(over(i)), i)]

\* modbusmq_channel_byte_offset; a channel carries the input it belongs to.
BitOffset(ch) == ch.offset - ch.in.address_offset
ByteOffset(ch, size) == ch.offset * size - ch.in.address_offset * 2

\* Mutant of InRange: only the first byte of the channel is looked at.
InRangeAtStart(ch, size, data) ==
  IF IsBit(ch.in.type)
  THEN BitOffset(ch) >= 0 /\ BitOffset(ch) \div Bits < Len(data)
  ELSE ByteOffset(ch, size) >= 0 /\ ByteOffset(ch, size) < Len(data)

\* modbusmq_channel_in_range
InRange(ch, size, data) ==
  IF IsBit(ch.in.type)
  THEN BitOffset(ch) >= 0 /\ BitOffset(ch) \div Bits < Len(data)
  ELSE ByteOffset(ch, size) >= 0 /\ ByteOffset(ch, size) + ch.length <= Len(data)

BitAt(data, bit) == (data[bit \div Bits + 1] \div 2^(bit % Bits)) % 2

\* modbusmq_channel_is_na: on the raw word, which is unsigned here.
IsNa(ch, bytes) ==
  /\ ch.format \in TwoBytes
  /\ Word(ch.format, bytes) \in NaValue

\* modbusmq_read_channel and modbusmq_read_channel_text, of a channel in range.
\* A reading is a text, a fraction, or Null.
Null == <<>>
ReadChannel(ch, size, data) ==
  LET from == ByteOffset(ch, size)
      bytes == SubSeq(data, from + 1, from + ch.length)
  IN  CASE IsBit(ch.in.type) -> Scaled(ch, BitAt(data, BitOffset(ch)))
        [] ~IsBit(ch.in.type) /\ ch.format \in Texts -> DecodeText(ch.format, bytes)
        [] ~IsBit(ch.in.type) /\ ch.format \notin Texts ->
             IF IsNa(ch, bytes) THEN Null
             ELSE IF ch.format = "float_ba" THEN <<0, 1>>
             ELSE Scaled(ch, DecodeValue(ch.format, bytes))

-----------------------------------------------------------------------------
\* Building a write

\* modbusmq_write_encode and modbusmq_write_channel_encode
EncodeChannel(write, c, v) == EncodeScaled(write.channels[c], v)

\* modbusmq_write_encode_block; one value is a block of one.  A block is written
\* whole or not at all.  (Without a payload values are the configured ones.)
EncodeBlock(write, values) ==
  LET parts == [c \in DOMAIN write.channels |-> EncodeChannel(write, c, values[c])]
      fits(c) == /\ write.channels[c].offset % 2 = 0
                 /\ write.channels[c].offset \div 2 >= 0
                 /\ write.channels[c].offset + Len(parts[c]) <= 2 * write.naddress
  IN  IF \/ Len(values) # Len(write.channels)
         \/ \E c \in DOMAIN parts : parts[c] = Refused \/ ~fits(c)
      THEN Refused
      ELSE LaidOver(2 * write.naddress,
                    [c \in DOMAIN parts |-> [at |-> write.channels[c].offset, bytes |-> parts[c]]])

\* The byte whose bits are on, the lowest first.
ByteOf(on) ==
  CHOOSE byte \in 0..Byte - 1 : \A k \in 1..Bits : ((byte \div 2^(k - 1)) % 2 = 1) <=> on[k]

\* Bits into bytes, the lowest first: a coil is one entry of the sequence.
Packed(bits) ==
  LET on(n) == n \in DOMAIN bits /\ bits[n] # 0
  IN  [b \in 1..(Len(bits) + Bits - 1) \div Bits |->
         ByteOf([k \in 1..Bits |-> on((b - 1) * Bits + k)])]

\* modbusmq_frame_write_coil_bits: one byte of its argument per coil.
BuildCoils(n, bits) == Packed(SubSeq(bits, 1, n))

\* modbusmq_raw_request, function 15: its argument is an array of 16 bytes.
RawCoilBytes == 16
RawCoils(values) ==
  BuildCoils(Len(values), LaidOver(RawCoilBytes, <<[at |-> 0, bytes |-> Packed(values)]>>))
=============================================================================
