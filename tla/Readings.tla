------------------------------ MODULE Readings ------------------------------
(***************************************************************************)
(* From a value in the virtual device to the value the bridge reads, and   *)
(* from a value the bridge writes to what the registers then say.          *)
(* modbusmq_server (programs/modbusmq_server.c) holds a value per channel, *)
(* configured or live, and answers a read with the bytes a device would    *)
(* send; modbusmq reads the channels of that input out of them             *)
(* (lib/modbusmq.c).  Who asks, and when an answer comes, is in Device.    *)
(***************************************************************************)
EXTENDS Registers

CONSTANTS
  Channels,    \* the configured channels in order; in: the input of each
  OffsetSize,  \* input.offset_size
  Presets,     \* what the channels may hold at first: channel.value, raw, or
               \* channel.value_text
  Lives,       \* live values that may arrive: <<channel, value or text>>
  Asks,        \* what may be asked for
  MaxCount,    \* most registers in one read: 125
  MaxBits,     \* most bits in one read: 2000
  MaxWrite     \* most registers in one write, sent or taken: 123

ASSUME ReadingsAssumption ==
  /\ OffsetSize \in {1, 2}
  /\ MaxCount \in Nat /\ 2 * MaxCount < Byte
  /\ MaxBits \in Nat /\ MaxBits <= Bits * (Byte - 1)
  /\ MaxWrite \in Nat /\ 2 * MaxWrite < Byte

\* Channels as the configuration takes them: a number is as long as its format.
Inputs == [slave : Int, type : STRING, address : Nat, address_offset : Nat, naddress : Nat]
Channel ==
  {ch \in [in : Inputs, format : Numbers \cup Texts \cup {"float_ba", "bit"}, offset : Nat, length : Nat,
           add : Int, mod : Int, mul : Int] :
     /\ (ch.format = "bit") = IsBit(ch.in.type)
     /\ ch.format \in Numbers => ch.length = FormatSize(ch.format)}

\* Two channels of the same space of a slave, in bits or in bytes from its start.
First(ch) == IF IsBit(ch.in.type) THEN ch.in.address + ch.offset
                                  ELSE 2 * ch.in.address + ch.offset * OffsetSize
Apart(a, b) ==
  a.in.slave = b.in.slave /\ a.in.type = b.in.type =>
    IF IsBit(a.in.type) THEN First(a) # First(b)
    ELSE First(a) + a.length <= First(b) \/ First(b) + b.length <= First(a)

ChannelsApart == \A c, d \in DOMAIN Channels : c # d => Apart(Channels[c], Channels[d])

\* What a channel of this format holds.  Dates aside; characters are not zero.
Held(format) ==
  CASE format \in {"ascii_ab", "ascii_ba"} -> Seq(Nat \ {0})
    [] format \in {"bcd_ab", "bcd_ba"} -> Seq(0..Ten - 1)
    [] format \in {"version_ab", "version_abcd", "version_regs"} -> Seq(Nat)
    [] OTHER -> Int
Fraction == Int \X (Nat \ {0})

ASSUME ChannelsAssumption ==
  /\ Channels \in Seq(Channel)
  /\ \A p \in Presets : /\ DOMAIN p = DOMAIN Channels
                       /\ \A c \in DOMAIN Channels : p[c] \in Held(Channels[c].format)
  /\ \A live \in Lives : /\ live[1] \in DOMAIN Channels
                         /\ LET f == Channels[live[1]].format
                            IN  /\ f \notin Floats
                                /\ live[2] \in IF f \in Texts THEN Held(f) ELSE Fraction

VARIABLES
  held,   \* channel->value, channel->value_text
  told,   \* history: the live value each channel was set to, Null if none
  reply   \* the request answered last and the data of its answer, until a
          \* live value arrives

vars == <<held, told, reply>>

-----------------------------------------------------------------------------
\* What the server answers

Reads(ask, ch) == ch.in.slave = ask.slave /\ ch.in.type = ask.type
BytesAsked(ask) == IF IsBit(ask.type) THEN (ask.count + Bits - 1) \div Bits ELSE 2 * ask.count
Limit(ask) == IF IsBit(ask.type) THEN MaxBits ELSE MaxCount

\* Mutant of Position: counted from the base of the input, not of the request.
PositionFromBase(ask, ch) == ch.offset * OffsetSize

\* Byte of a register channel in the response.
Position(ask, ch) == ch.offset * OffsetSize - (ask.address - ch.in.address) * 2

LaidDown(ch, value) ==
  CASE ch.format \in Texts -> EncodeText(ch.format, ch.length, value)
    [] ch.format = "float_ba" -> <<>>
    [] OTHER -> EncodeValue(ch.format, value)

\* modbusmq_prepare_response: the data of an answer to a read, out of the
\* values the channels hold.
RegisterData(ask, values) ==
  LET asked(ch) == /\ Reads(ask, ch) /\ Position(ask, ch) >= 0
                   /\ Position(ask, ch) + ch.length <= BytesAsked(ask)
  IN  LaidOver(BytesAsked(ask),
        [c \in DOMAIN Channels |->
           [at |-> Position(ask, Channels[c]),
            bytes |-> IF asked(Channels[c]) THEN LaidDown(Channels[c], values[c]) ELSE <<>>]])

BitData(ask, values) ==
  Packed([k \in 1..ask.count |->
            IF \E c \in DOMAIN Channels :
                 /\ Reads(ask, Channels[c])
                 /\ Channels[c].in.address + Channels[c].offset - ask.address = k - 1
                 /\ values[c] # 0
            THEN 1 ELSE 0])

\* A read of nothing or of too much is answered with an exception; so is a
\* function 16 of no or too many registers, or whose byte count does not agree
\* with them, or that ends before its last byte.
Refusal(ask) ==
  IF ask.kind = "write"
  THEN ask.count \notin 1..MaxWrite \/ ask.nbyte # 2 * ask.count \/ Len(ask.bytes) < ask.nbyte
  ELSE ask.count \notin 1..Limit(ask)

Data(ask, values) == IF IsBit(ask.type) THEN BitData(ask, values) ELSE RegisterData(ask, values)

-----------------------------------------------------------------------------
\* What is asked of it: the poll of an input; a write entry with its values, no
\* request coming of values that do not fit; a raw request of function 15.

\* modbusmq_frame_read_*: one builder for each of the functions 1 to 4.
ReadFrame(slave, type, address, count) ==
  [kind |-> "read", slave |-> slave, type |-> type, address |-> address, count |-> count]

PollOf(in) == ReadFrame(in.slave, in.type, in.address + in.address_offset, in.naddress)

\* modbusmq_frame_write_registers: no frame of none or of too many registers.
WriteFrames(slave, write, values, regs) ==
  {[kind |-> "write", slave |-> slave, write |-> write, values |-> values,
    count |-> n, nbyte |-> 2 * n, bytes |-> regs] : n \in {Len(regs) \div 2} \cap 1..MaxWrite}

WritesOf(slave, write, values) ==
  WriteFrames(slave, write, values, EncodeBlock(write, values))

CoilsOf(slave, values) ==
  [kind |-> "coils", slave |-> slave, type |-> "coils", count |-> Len(values),
   values |-> values, bytes |-> RawCoils(values)]

\* A write of numbers the configuration accepts: no two of its channels overlap.
Cells == [format : (TwoBytes \cup FourBytes) \ Floats, offset : Nat, add : Int, mod : Int, mul : Int]
Writable(write) ==
  /\ write.naddress \in Nat /\ write.channels \in Seq(Cells)
  /\ \A j, k \in DOMAIN write.channels :
       LET end(c) == write.channels[c].offset + FormatSize(write.channels[c].format)
       IN  j # k => end(j) <= write.channels[k].offset \/ end(k) <= write.channels[j].offset

ASSUME AsksAssumption ==
  \A ask \in Asks : ask.kind = "write" /\ ask.write # <<>> =>
    /\ Writable(ask.write) /\ ask.values \in Seq(Fraction)
    /\ ask \in WritesOf(ask.slave, ask.write, ask.values)

-----------------------------------------------------------------------------
Init ==
  /\ held \in Presets
  /\ told = [c \in DOMAIN Channels |-> Null]
  /\ reply = Null

\* emu_apply: a live value arrives.
LiveValue(c, v) ==
  /\ held' = [held EXCEPT ![c] = IF Channels[c].format \in Texts THEN v
                                 ELSE RawValue(Channels[c], v)]
  /\ told' = [told EXCEPT ![c] = v]
  /\ reply' = Null

\* A write is echoed and leaves no trace in the device: its data is what it sends.
Exchange(ask) ==
  /\ reply' = IF Refusal(ask) THEN [ask |-> ask, refused |-> TRUE]
              ELSE [ask |-> ask, refused |-> FALSE,
                    data |-> IF ask.kind = "read" THEN Data(ask, held) ELSE ask.bytes]
  /\ UNCHANGED <<held, told>>

Next ==
  \/ \E live \in Lives : LiveValue(live[1], live[2])
  \/ \E ask \in Asks : Exchange(ask)

Spec == Init /\ [][Next]_vars

-----------------------------------------------------------------------------
\* v and the fraction r differ by no more than half a step of the raw value.
Near(ch, r, v) ==
  LET gap == r[1] * v[2] - v[1] * r[2]
  IN  2 * (IF gap < 0 THEN -gap ELSE gap) * Divided(ch)
        <= (IF Times(ch) < 0 THEN -Times(ch) ELSE Times(ch)) * r[2] * v[2]

\* What a text of the configuration reads as, if it suits its field.
TextReads(ch, text, reading) ==
  CASE ch.format \in {"ascii_ab", "ascii_ba"} ->
         Len(text) <= ch.length => reading = Trimmed([i \in DOMAIN text |-> Printed(text[i])])
    [] ch.format \in {"bcd_ab", "bcd_ba"} ->
         Len(text) <= 2 * ch.length => reading = Zeros(2 * ch.length - Len(text)) \o text
    [] OTHER ->
         LET n == ch.length \div Stride(ch.format)
         IN  Len(text) <= n /\ (\A k \in DOMAIN text : text[k] < Weight(Stride(ch.format)))
               => reading = text \o Zeros(n - Len(text))

NumberReads(ch, raw, live, reading) ==
  raw \in Low(ch.format)..High(ch.format) =>
    IF raw % Weight(2) \in NaValue /\ ch.format \in TwoBytes THEN reading = Null
    ELSE reading = Scaled(ch, raw) /\ (live # Null => Near(ch, reading, live))

\* The channel lies whole inside what its own input asks for.
Inside(ch) ==
  IF IsBit(ch.in.type)
  THEN BitOffset(ch) \in 0..ch.in.naddress - 1
  ELSE ch.offset * OffsetSize >= 2 * ch.in.address_offset
       /\ ch.offset * OffsetSize + ch.length <= 2 * (ch.in.address_offset + ch.in.naddress)

ReadsBack(r, c) ==
  LET ch == Channels[c]
      data == r.data
  IN  /\ Inside(ch) => InRange(ch, OffsetSize, data)
      /\ ~IsBit(ch.in.type) /\ InRange(ch, OffsetSize, data) => Inside(ch)
      /\ Inside(ch) =>
           LET reading == ReadChannel(ch, OffsetSize, data)
           IN  CASE IsBit(ch.in.type) -> reading = Scaled(ch, IF held[c] # 0 THEN 1 ELSE 0)
                 [] ch.format \in Texts -> TextReads(ch, held[c], reading)
                 [] ch.format = "float_ba" -> TRUE
                 [] OTHER -> NumberReads(ch, held[c], told[c], reading)

WritesBack(ask) ==
  \A k \in DOMAIN ask.write.channels :
    LET ch == ask.write.channels[k]
        raw == DecodeValue(ch.format, SubSeq(ask.bytes, ch.offset + 1,
                                             ch.offset + FormatSize(ch.format)))
    IN  \/ Near(ch, Scaled(ch, raw), ask.values[k])
        \/ ch.format \in {"ab", "ba"} /\ Near(ch, Scaled(ch, raw - Weight(2)), ask.values[k])

Answered(kind) == reply # Null /\ reply.ask.kind = kind /\ ~reply.refused

\* A poll reads, of every channel inside what was asked and of no other, the
\* value the device held, at its place, in its order of bytes, with its sign and
\* its scale, whichever inputs overlap (no two channels share a byte); a live value
\* comes back within half a step.  (modbusmq_prepare_response against modbusmq_read_channel.)
PollReadsHeld ==
  Answered("read") => \A c \in DOMAIN Channels :
                        PollOf(Channels[c].in) = reply.ask => ReadsBack(reply, c)

\* What a write puts into the registers reads back as the value written, within
\* half a step, in every register of the block, and is no more than a device
\* takes at once.  (modbusmq_encode_scaled against modbusmq_read_channel.)
WriteReadsBack ==
  reply # Null /\ reply.ask.kind = "write" /\ reply.ask.write # Null =>
    WritesBack(reply.ask) /\ ~reply.refused

\* The coils a raw request of function 15 sets are those its values say, the
\* first at the address ("packed coil states, LSB-first").
CoilsAsAsked == Answered("coils") => reply.data = Packed(reply.ask.values)
=============================================================================
