------------------------------ MODULE Packet -------------------------------
(***************************************************************************)
(* What a message looks like on its way: the datagram server.c receives,   *)
(* the packet build_packet makes of it, and what print_packet and          *)
(* process_payload of subscriber.c read out of that.  Bytes are numbers,   *)
(* texts are sequences of them; the sizes are parameters.                  *)
(*                                                                         *)
(* Operators named ...Bug are a plausible slip in the code they stand      *)
(* before; nothing here uses them.                                         *)
(***************************************************************************)
EXTENDS Integers, Sequences, SequencesExt

CONSTANTS IpText,      \* the publishers' address, as inet_ntoa prints it
          HeaderSize,  \* sizeof(header) in build_packet
          TopicLen,    \* MAX_TOPIC_LEN
          IntSize,     \* bytes of the integer in INT and FLOAT
          BufSize,     \* MAX_UDP_PAYLOAD, the server's datagram buffer
          SubBufSize   \* READ_BUF_SIZE of subscriber.c

Byte == 0 .. 255
Space == 32
Zero == 48      \* the digit

(* There is room in header for the address, a port of five digits and the  *)
(* two spaces: INET_ADDRSTRLEN + 1 + 6 + 2 bytes for 15 + 7.  And a buffer *)
(* of the subscriber, 2048 bytes, holds a header and 1500 bytes behind it. *)
ASSUME PacketAssumption ==
    /\ \A n \in {HeaderSize, TopicLen, IntSize, BufSize, SubBufSize} : n \in Nat \ {0}
    /\ TopicLen <= BufSize
    /\ IpText \in Seq(Byte) /\ ~Contains(IpText, Space)
    /\ Len(IpText) + 7 < HeaderSize
    /\ HeaderSize + BufSize <= SubBufSize

(* "%u" of a port, which is an uint16_t.                                   *)
Decimal[n \in 0 .. 65535] == IF n < 10 THEN <<Zero + n>>
                             ELSE Decimal[n \div 10] \o <<Zero + (n % 10)>>

(* The bytes up to, and without, the first b; the bytes behind it.         *)
Position(s, b) == SelectInSeq(s, LAMBDA x : x = b)
Before(s, b) == IF Position(s, b) = 0 THEN s ELSE SubSeq(s, 1, Position(s, b) - 1)
Behind(s, b) == SubSeq(s, Position(s, b) + 1, Len(s))

-----------------------------------------------------------------------------
(* server.c *)

(* recvfrom drops what the buffer has no room for.                         *)
Received(data) == SubSeq(data, 1, IF Len(data) < BufSize THEN Len(data) ELSE BufSize)

(* memory: the buffer from its first byte on, TopicLen bytes at least,     *)
(* whatever recvfrom put there.                                            *)
ExtractTopic(memory) == Before(SubSeq(memory, 1, TopicLen), 0)

Header(port) == IpText \o <<Space>> \o Decimal[port] \o <<Space>>

NoSpaceBug(port, msg) == IF Len(Header(port)) >= HeaderSize THEN msg
                         ELSE Front(Header(port)) \o msg

BuildPacket(port, msg) == IF Len(Header(port)) >= HeaderSize THEN msg
                          ELSE Header(port) \o msg

-----------------------------------------------------------------------------
(* subscriber.c *)

BigEndian(bytes) == FoldLeft(LAMBDA n, b : 256 * n + b, 0, bytes)

Modulus == 256 ^ IntSize

(* "%d" of a uint32_t.                                                     *)
AsSigned(v) == IF v < Modulus \div 2 THEN v ELSE v - Modulus

Flag(b) == IF b = 0 THEN 0 ELSE 1

AbsoluteBug(p) == <<AsSigned(BigEndian(SubSeq(p, 2, IntSize + 1)))>>

(* A value as it is printed: INT the number, SHORT_REAL hundredths, FLOAT  *)
(* its sign, its digits and how many of them follow the point, STRING the  *)
(* characters.                                                             *)
IntValue(p) ==
    LET v == BigEndian(SubSeq(p, 2, IntSize + 1))
    IN  <<AsSigned(IF p[1] = 0 THEN v ELSE (Modulus - v) % Modulus)>>

ShortRealValue(p) == <<BigEndian(SubSeq(p, 1, 2))>>

FloatValue(p) == <<Flag(p[1]), BigEndian(SubSeq(p, 2, IntSize + 1)), p[IntSize + 2]>>

ProcessPayload(payload) ==
    LET p == Tail(payload)
        is(t, size) == payload[1] = t /\ Len(p) >= size
    IN  CASE is(0, IntSize + 1) -> [type |-> "INT", value |-> IntValue(p)]
          [] is(1, 2)           -> [type |-> "SHORT_REAL", value |-> ShortRealValue(p)]
          [] is(2, IntSize + 2) -> [type |-> "FLOAT", value |-> FloatValue(p)]
          [] is(3, 0)           -> [type |-> "STRING", value |-> Before(p, 0)]
          [] OTHER              -> [type |-> "error", value |-> << >>]

(* The line printed, or nothing for a packet that is too short.            *)
PrintPacket(packet) ==
    LET body == Behind(Behind(packet, Space), Space)
    IN  IF ~Contains(packet, Space) \/ ~Contains(Behind(packet, Space), Space)
              \/ Len(body) < TopicLen + 1
        THEN << >>
        ELSE <<[ip |-> Before(packet, Space),
                port |-> Before(Behind(packet, Space), Space),
                topic |-> Before(SubSeq(body, 1, TopicLen), 0),
                content |-> ProcessPayload(SubSeq(body, TopicLen + 1, Len(body)))]>>

ServerBufferBug(packet) == Len(packet) <= BufSize

(* handle_received_data refuses a longer one, which ends the subscriber.   *)
Acceptable(packet) == Len(packet) <= SubBufSize
=============================================================================
