------------------------------ MODULE OscPacket ------------------------------
(***************************************************************************)
(* The OSC packets (protocol/osc/packet): which message a signal becomes,  *)
(* how it is written into a packet and how a datagram is read.             *)
(*                                                                         *)
(* A packet is a sequence of bytes, offsets count from 0.  A message is    *)
(* [address, args], an argument [tag, value] where the value is a sequence *)
(* of bytes for a string and a number otherwise: a float is its raw word.  *)
(***************************************************************************)
EXTENDS Integers, SequencesExt

CONSTANTS
    Paths,       \* paths.h: by name, the bytes of the path
    PacketSize,  \* PACKET_BUFFER_SIZE
    MaxArguments \* MAX_ARGUMENT_COUNT

Alignment == 4
WordSize == 4
Slash == 47
Comma == 44
IntTag == 105
FloatTag == 102
StringTag == 115

Malformed == [ok |-> FALSE]
IntArg(n) == [tag |-> IntTag, value |-> n]
FloatArg(raw) == [tag |-> FloatTag, value |-> raw]

----------------------------------------------------------------------------
(* Writing *)

\* add_decimal()
Decimal[n \in Nat] ==
    IF n < 10 THEN <<48 + n>> ELSE Append(Decimal[n \div 10], 48 + (n % 10))
\* OscIndexedAddress
Indexed(path, index) == Paths[path] \o <<Slash>> \o Decimal[index]

\* add_string(): a terminator, then zeros up to the next word.
StringBytes(bytes) == bytes \o [i \in 1 .. Alignment - (Len(bytes) % Alignment) |-> 0]
\* add_int32(), add_float32(): two's complement, the most significant byte first.
WordBytes(n) == <<(n \div 16777216) % 256, (n \div 65536) % 256, (n \div 256) % 256, n % 256>>
ArgBytes(arg) == IF arg.tag = StringTag THEN StringBytes(arg.value) ELSE WordBytes(arg.value)
Tags(args) == <<Comma>> \o [i \in DOMAIN args |-> args[i].tag]

\* make_packet_impl(): nothing when the message does not fit.
MakePacket(message) ==
    LET bytes == StringBytes(message.address) \o StringBytes(Tags(message.args))
                 \o FlattenSeq([i \in DOMAIN message.args |-> ArgBytes(message.args[i])])
    IN IF Len(bytes) > PacketSize THEN Malformed ELSE [ok |-> TRUE, bytes |-> bytes]

----------------------------------------------------------------------------
(* Messages of signals *)

Truth(n) == IF n = 0 THEN 0 ELSE 1
\* OscIoSignal: touchscreen buttons are switches; an output is not sent.
IoMessage(signal) ==
    CASE signal.source \in {"switch", "touchscreen"} ->
            [address |-> Indexed("switch", signal.index), args |-> <<IntArg(Truth(signal.value))>>]
      [] signal.source = "encoder" -> [address |-> Indexed("encoder", signal.index), args |-> <<IntArg(signal.value)>>]
      [] signal.source = "analog" ->
            [address |-> Indexed("analog", signal.index),
             args |-> <<IF signal.float THEN FloatArg(signal.value) ELSE IntArg(signal.value)>>]
      [] OTHER -> Malformed
\* OscSensorSignal: the fields of a payload in the order of the struct; a zone map of four columns sends four zones.
SensorMessage(signal) ==
    CASE signal.source = "cap1188_touch" ->
            [address |-> Indexed("cap1188_touch", signal.index), args |-> <<IntArg(Truth(signal.fields[1].value))>>]
      [] signal.source = "vl53l5cx_row" ->
            [address |-> Indexed("vl53l5cx_row", signal.index),
             args |-> IF signal.width = 4 THEN SubSeq(signal.fields, 1, 4) ELSE signal.fields]
      [] OTHER -> [address |-> Paths[signal.source], args |-> signal.fields]
IsIo(signal) == signal.source \in {"switch", "touchscreen", "encoder", "analog", "output"}
SignalMessage(signal) == IF IsIo(signal) THEN IoMessage(signal) ELSE SensorMessage(signal)

----------------------------------------------------------------------------
(* Reading *)

\* read_string(): up to the next zero, which is followed by the next word.
ReadString(packet, offset) ==
    LET zeros == {i \in offset + 1 .. Len(packet) : packet[i] = 0}
        zero == CHOOSE i \in zeros : \A j \in zeros : i <= j
        next == zero + ((Alignment - (zero % Alignment)) % Alignment)
    IN IF zeros = {} \/ next > Len(packet) THEN Malformed
       ELSE [ok |-> TRUE, next |-> next, value |-> SubSeq(packet, offset + 1, zero - 1)]

Signed(byte) == IF byte >= 128 THEN byte - 256 ELSE byte
\* read_int32(), read_float32()
ReadWord(packet, offset) ==
    IF Len(packet) - offset < WordSize THEN Malformed
    ELSE [ok |-> TRUE, next |-> offset + WordSize,
          value |-> Signed(packet[offset + 1]) * 16777216 + packet[offset + 2] * 65536
                    + packet[offset + 3] * 256 + packet[offset + 4]]

\* Mutant: the bytes that follow the last argument are ignored.
ParseLoose(packet) ==
    LET address == ReadString(packet, 0)
        tags == IF address.ok THEN ReadString(packet, address.next) ELSE Malformed
        Argument(parsed, tag) ==
            IF ~parsed.ok \/ tag \notin {IntTag, FloatTag, StringTag} THEN Malformed
            ELSE LET read == IF tag = StringTag THEN ReadString(packet, parsed.next) ELSE ReadWord(packet, parsed.next)
                 IN IF ~read.ok THEN Malformed
                    ELSE [parsed EXCEPT !.next = read.next, !.args = Append(@, [tag |-> tag, value |-> read.value])]
    IN IF ~tags.ok \/ tags.value = <<>> \/ Head(tags.value) # Comma \/ Len(tags.value) - 1 > MaxArguments THEN Malformed
       ELSE FoldLeft(Argument, [ok |-> TRUE, next |-> tags.next, address |-> address.value, args |-> <<>>],
                     Tail(tags.value))
\* parse_message(): an address, tags, an argument for every tag and nothing else.
ParseMessage(packet) ==
    LET address == ReadString(packet, 0)
        tags == IF address.ok THEN ReadString(packet, address.next) ELSE Malformed
        Argument(parsed, tag) ==
            IF ~parsed.ok \/ tag \notin {IntTag, FloatTag, StringTag} THEN Malformed
            ELSE LET read == IF tag = StringTag THEN ReadString(packet, parsed.next) ELSE ReadWord(packet, parsed.next)
                 IN IF ~read.ok THEN Malformed
                    ELSE [parsed EXCEPT !.next = read.next, !.args = Append(@, [tag |-> tag, value |-> read.value])]
        parsed == FoldLeft(Argument, [ok |-> TRUE, next |-> tags.next, address |-> address.value, args |-> <<>>],
                           Tail(tags.value))
    IN IF ~tags.ok \/ tags.value = <<>> \/ Head(tags.value) # Comma \/ Len(tags.value) - 1 > MaxArguments THEN Malformed
       ELSE IF parsed.ok /\ parsed.next = Len(packet) THEN parsed ELSE Malformed

\* paths::parse_indexed(): the number that follows the path, or -1.  size_t is wider than any index sent here.
ParseIndexed(address, path) ==
    LET prefix == Paths[path] \o <<Slash>>
        digits == SubSeq(address, Len(prefix) + 1, Len(address))
    IN IF ~IsStrictPrefix(prefix, address) \/ \E i \in DOMAIN digits : digits[i] \notin 48 .. 57 THEN -1
       ELSE FoldLeft(LAMBDA number, digit : 10 * number + digit - 48, 0, digits)

----------------------------------------------------------------------------
(* Properties of the code, stated without the reader *)

\* A datagram that is read as a message is what the writer makes of this message, but for the zeros that pad it.
WellFormed(packet, message) ==
    LET written == MakePacket(message).bytes
    IN /\ Len(packet) = Len(written)
       /\ \A i \in DOMAIN written : written[i] # 0 => packet[i] = written[i]
=============================================================================
