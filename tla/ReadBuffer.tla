---------------------------- MODULE ReadBuffer -----------------------------
(***************************************************************************)
(* client_handle_data (src/src/client_server.c), byte by byte: one client, *)
(* its read_buf, and a peer that writes frames with send_message           *)
(* (src/src/protocol.c).  TCP hands over the bytes in pieces of any size.  *)
(*                                                                         *)
(* A header is two bytes of type, the high one first, and one byte of      *)
(* length (the code: four), so that small buffers have the same corners.   *)
(*                                                                         *)
(* Operators named ...Bug are a plausible slip in the code they stand      *)
(* before; nothing here uses them.                                         *)
(***************************************************************************)
EXTENDS Naturals, Sequences, SequencesExt

CONSTANTS ReadBufSize,  \* READ_BUF_SIZE
          Frames,       \* what peers send: [type, body]
          MaxFrames     \* bound: frames sent on a connection

HdrSize == 3

(* Types are sent as uint16_t and are all below 256: the high byte of the  *)
(* type, which the terminator of the frame before overwrites, is 0 anyway. *)
ASSUME BufferAssumption ==
    /\ ReadBufSize \in Nat /\ ReadBufSize >= HdrSize
    /\ MaxFrames \in Nat
    /\ Frames \subseteq [type : 0 .. 255, body : Seq(Nat)]

VARIABLES sent,      \* frames the peer has sent on this connection
          wire,      \* bytes sent and not yet received
          open,      \* has the peer not closed yet?
          pc,        \* "idle": in poll; "parse": in the loop; "lost": dropped
          read_buf,  \* the first read_buf_len bytes of client_t.read_buf
          off,       \* the local variable of client_handle_data
          handled,   \* frames given to the trie
          nul,       \* where the last terminator was written
          reason     \* why the client was dropped

vars == <<sent, wire, open, pc, read_buf, off, handled, nul, reason>>

read_buf_len == Len(read_buf)

(* send_message: the header, then the payload.                             *)
Encoded(m) == <<0, m.type, Len(m.body)>> \o m.body

(* MSG_SUBSCRIBE and MSG_UNSUBSCRIBE                                       *)
Known == {m \in Frames : m.type \in {1, 2}}

Reasons == {"none", "closed", "full", "bogus", "refused"}

(* The state of client_handle_data and of the stream it reads.             *)
TypeOK == /\ sent \in Seq(Frames) /\ handled \in Seq([type : Nat, body : Seq(Nat)])
          /\ wire \in Seq(Nat) /\ read_buf \in Seq(Nat)
          /\ open \in BOOLEAN
          /\ pc \in {"idle", "parse", "lost"}
          /\ off \in Nat /\ nul \in Nat
          /\ reason \in Reasons

Init == /\ sent = << >> /\ wire = << >> /\ open = TRUE
        /\ pc = "idle" /\ read_buf = << >> /\ off = 0 /\ handled = << >>
        /\ nul = 0 /\ reason = "none"

-----------------------------------------------------------------------------
(* The peer *)

Send(m) ==
    /\ open /\ pc # "lost" /\ Len(sent) < MaxFrames
    /\ sent' = Append(sent, m)
    /\ wire' = wire \o Encoded(m)
    /\ UNCHANGED <<open, pc, read_buf, off, handled, nul, reason>>

Close ==
    /\ open /\ pc # "lost"
    /\ open' = FALSE
    /\ UNCHANGED <<sent, wire, pc, read_buf, off, handled, nul, reason>>

-----------------------------------------------------------------------------
(* client_handle_data *)

Drop(why) == /\ pc' = "lost" /\ reason' = why
             /\ UNCHANGED <<sent, open, off>>

WholeBufferBug ==
    /\ pc = "idle"
    /\ \E r \in 1 .. Len(wire) :
          /\ r <= ReadBufSize
          /\ read_buf' = read_buf \o SubSeq(wire, 1, r)
          /\ wire' = SubSeq(wire, r + 1, Len(wire))
    /\ off' = 0
    /\ pc' = "parse"
    /\ UNCHANGED <<sent, open, handled, nul, reason>>

(* recv into the room that is left.                                        *)
Receive ==
    /\ pc = "idle"
    /\ \E r \in 1 .. Len(wire) :
          /\ r <= ReadBufSize - read_buf_len
          /\ read_buf' = read_buf \o SubSeq(wire, 1, r)
          /\ wire' = SubSeq(wire, r + 1, Len(wire))
    /\ off' = 0
    /\ pc' = "parse"
    /\ UNCHANGED <<sent, open, handled, nul, reason>>

(* recv returns 0 at the end of the stream, and also when the room it was  *)
(* offered is of size 0; both count as a disconnect.                       *)
ReceiveNothing ==
    /\ pc = "idle"
    /\ IF wire = << >> THEN ~open ELSE ReadBufSize - read_buf_len = 0
    /\ Drop(IF wire = << >> THEN "closed" ELSE "full")
    /\ UNCHANGED <<wire, read_buf, handled, nul>>

MoreThanHeaderBug == read_buf_len - off > HdrSize
HasHeader == read_buf_len - off >= HdrSize
type == 256 * read_buf[off + 1] + read_buf[off + 2]
len == read_buf[off + 3]
NoHeaderBug == len > ReadBufSize
OffByOneBug == len >= ReadBufSize - HdrSize
Bogus == len > ReadBufSize - HdrSize
Complete == read_buf_len - off >= HdrSize + len

BogusLength ==
    /\ pc = "parse" /\ HasHeader /\ Bogus
    /\ Drop("bogus")
    /\ UNCHANGED <<wire, read_buf, handled, nul>>

(* payload[len] = '\0' lands on the first byte of the next frame, or one   *)
(* byte behind all that was received.                                      *)
Terminated ==
    LET at == off + HdrSize + len
    IN  [i \in 1 .. read_buf_len |-> IF i = at + 1 THEN 0 ELSE read_buf[i]]

Frame == [type |-> type,
          body |-> SubSeq(read_buf, off + HdrSize + 1, off + HdrSize + len)]

HandleFrame ==
    /\ pc = "parse" /\ HasHeader /\ ~Bogus /\ Complete
    /\ nul' = off + HdrSize + len
    /\ read_buf' = Terminated
    /\ \/ /\ type \in {1, 2}
          /\ handled' = Append(handled, Frame)
       \/ type \notin {1, 2} /\ UNCHANGED handled
    /\ off' = off + HdrSize + len
    /\ UNCHANGED <<sent, wire, open, pc, reason>>

(* The trie refuses, or it obeys and the acknowledgement cannot be sent.   *)
RefuseFrame ==
    /\ pc = "parse" /\ HasHeader /\ ~Bogus /\ Complete /\ type \in {1, 2}
    /\ nul' = off + HdrSize + len
    /\ read_buf' = Terminated
    /\ handled' \in {handled, Append(handled, Frame)}
    /\ Drop("refused")
    /\ UNCHANGED wire

LeftoverLostBug ==
    /\ pc = "parse"
    /\ HasHeader => ~Bogus /\ ~Complete
    /\ read_buf' = << >>
    /\ off' = 0
    /\ pc' = "idle"
    /\ UNCHANGED <<sent, wire, open, handled, nul, reason>>

(* The loop ends; what is left moves to the start of the buffer.           *)
Compact ==
    /\ pc = "parse"
    /\ HasHeader => ~Bogus /\ ~Complete
    /\ read_buf' = SubSeq(read_buf, off + 1, read_buf_len)
    /\ off' = 0
    /\ pc' = "idle"
    /\ UNCHANGED <<sent, wire, open, handled, nul, reason>>

StaleBytesBug ==
    /\ pc = "lost"
    /\ sent' = << >> /\ wire' = << >> /\ open' = TRUE
    /\ pc' = "idle" /\ off' = 0 /\ UNCHANGED read_buf
    /\ handled' = << >> /\ nul' = 0 /\ reason' = "none"

(* handle_new_tcp_connection finds the client inactive: a new connection,  *)
(* with read_buf_len = 0.                                                  *)
Reconnect ==
    /\ pc = "lost"
    /\ sent' = << >> /\ wire' = << >> /\ open' = TRUE
    /\ pc' = "idle" /\ read_buf' = << >> /\ off' = 0
    /\ handled' = << >> /\ nul' = 0 /\ reason' = "none"

Next == \/ \E m \in Frames : Send(m)
        \/ Close
        \/ Receive \/ ReceiveNothing
        \/ BogusLength \/ HandleFrame \/ RefuseFrame \/ Compact
        \/ Reconnect

Spec == Init /\ [][Next]_vars

-----------------------------------------------------------------------------
(* Properties *)

(* Whatever arrives, the loop leaves room: recv is never offered a buffer  *)
(* of size 0, whose return value would be taken for a disconnect.          *)
RoomLeft == /\ pc = "idle" => read_buf_len < ReadBufSize
            /\ reason # "full"

(* The parser looks at, and writes the terminator to, nothing beyond the   *)
(* byte that follows read_buf.                                             *)
InBuffer == /\ read_buf_len <= ReadBufSize /\ nul <= ReadBufSize
            /\ pc = "parse" => off <= read_buf_len

(* What the frames s look like on the wire, and those of them that count.  *)
Encodings(s) == FlattenSeq([n \in DOMAIN s |-> Encoded(s[n])])

Selected(s) == FlattenSeq([n \in DOMAIN s |-> IF s[n] \in Known THEN <<s[n]>> ELSE << >>])

(* The parser is always at the start of a frame: the bytes it has not      *)
(* parsed are the encoding of the frames not handled yet, though it        *)
(* overwrites the byte after each payload and moves the rest around.       *)
InStep ==
    pc # "lost" =>
        \E n \in 0 .. Len(sent) :
            /\ handled = Selected(SubSeq(sent, 1, n))
            /\ SubSeq(read_buf, off + 1, read_buf_len) \o wire
                  = Encodings(SubSeq(sent, n + 1, Len(sent)))

(* No frame that has arrived whole is left for the next recv, which may    *)
(* never come.                                                             *)
NoneWaiting ==
    pc = "idle" /\ wire = << >> => handled = Selected(sent)

(* A peer that sends legal frames is not dropped for a bogus length.       *)
LegalAccepted ==
    (\A i \in 1 .. Len(sent) : Len(sent[i].body) <= ReadBufSize - HdrSize)
        => reason # "bogus"

Channel == INSTANCE FrameChannel

(* The read buffer implements the channel: frames come out whole, in       *)
(* order, each once, and none of an earlier connection (server.c resets    *)
(* read_buf_len when a client returns).                                    *)
Framing == Channel!Spec
=============================================================================
