---------------------------- MODULE Publication ----------------------------
(***************************************************************************)
(* The way of a publication, end to end and in bytes: runs of udp_client.py*)
(* (module Publisher) send datagrams; the server receives each into a      *)
(* buffer, takes the topic, puts a header before it (module Packet) and    *)
(* sends it to a subscriber; the subscriber prints it.  Whom trie_publish  *)
(* chooses is module TopicTrie, the server's other work module Server; here*)
(* there is one subscriber, and Wanted are the topics it is subscribed to. *)
(*                                                                         *)
(* from is not in the bytes: it says which datagram they were.             *)
(***************************************************************************)
EXTENDS Publisher, Packet

CONSTANTS Wanted,    \* topics
          Garbage    \* what the server's stack may hold behind a datagram

ASSUME PublicationAssumption == \A g \in Garbage : g \in Seq(Byte) /\ Len(g) = TopicLen

VARIABLES
    up,        \* does the server run?
    arrived,   \* the datagrams it has dealt with
    down,      \* packets on the connection to the subscriber
    reading,   \* does the subscriber run?
    shown      \* the lines the subscriber printed

server == <<up, arrived, down>>
vars == <<publishers, posted, udpq, server, reading, shown>>

Init == /\ PublisherInit
        /\ up = TRUE /\ arrived = << >>
        /\ down = << >> /\ reading = TRUE /\ shown = << >>

(* memmove has room for the header behind the datagram.                    *)
HasRoom(source, msg) == Len(Header(source)) + Len(msg) <= BufSize

(* Behind a short datagram extract_topic reads on.                         *)
Forward(msg, packet, i) ==
    /\ \E stack \in Garbage :
          down' = IF ExtractTopic(msg \o stack) \in Wanted
                  THEN Append(down, [from |-> i, bytes |-> packet]) ELSE down
    /\ UNCHANGED up

(* The UDP part of a round of run_server.  Without room memmove and memcpy *)
(* write behind buf, over what the compiler put there: all may go well, or *)
(* the server dies of it.                                                  *)
ServeDatagram ==
    /\ up /\ udpq # << >>
    /\ udpq' = Tail(udpq)
    /\ LET i == Head(udpq)
           msg == Received(posted[i].data)
       IN  IF msg = << >> THEN UNCHANGED <<up, down, arrived>>
           ELSE \/ /\ Forward(msg, BuildPacket(posted[i].port, msg), i)
                   /\ arrived' = Append(arrived, i)
                \/ /\ ~HasRoom(posted[i].port, msg)
                   /\ up' = FALSE
                   /\ UNCHANGED <<down, arrived>>
    /\ UNCHANGED <<publishers, posted, reading, shown>>

(* The socket part of the subscriber's loop.                               *)
Display ==
    /\ reading /\ down # << >>
    /\ down' = Tail(down)
    /\ LET packet == Head(down)
       IN  IF Acceptable(packet.bytes)
           THEN /\ shown' = shown \o [n \in DOMAIN PrintPacket(packet.bytes) |->
                                [from |-> packet.from, line |-> PrintPacket(packet.bytes)[n]]]
                /\ UNCHANGED reading
           ELSE reading' = FALSE /\ UNCHANGED shown
    /\ UNCHANGED <<publishers, posted, udpq, up, arrived>>

Next == \/ \E p \in Pubs : Publish(p) /\ UNCHANGED <<server, reading, shown>>
        \/ ServeDatagram
        \/ Display

Spec == Init /\ [][Next]_vars

-----------------------------------------------------------------------------
(* Properties *)

(* What README.md says a message means, in terms of what was posted: a     *)
(* topic of TopicLen bytes, ended by a NUL if it is shorter, "a data-type  *)
(* identifier", "1-byte sign + 4-byte integer", "2-byte fixed-point",      *)
(* "1-byte sign + 4-byte mantissa + 1-byte exponent", "NUL-terminated text"*)
(* Of a message longer than the buffer only that much counts.              *)
UpToNul(s) == LET nuls == {n \in DOMAIN s : s[n] = 0}
              IN  IF nuls = {} THEN s ELSE SubSeq(s, 1, Min(nuls) - 1)

Unsigned(s, n) == SumFunction([k \in 1 .. n |-> s[k] * 256 ^ (n - k)])

Content(t, v) ==
    CASE t = 0 /\ Len(v) > IntSize ->
            [type |-> "INT", value |-> <<(IF v[1] = 0 THEN 1 ELSE -1) * Unsigned(Tail(v), IntSize)>>]
      [] t = 1 /\ Len(v) > 1 ->
            [type |-> "SHORT_REAL", value |-> <<Unsigned(v, 2)>>]
      [] t = 2 /\ Len(v) > IntSize + 1 ->
            [type |-> "FLOAT", value |-> <<IF v[1] = 0 THEN 0 ELSE 1, Unsigned(Tail(v), IntSize), v[IntSize + 2]>>]
      [] t = 3 -> [type |-> "STRING", value |-> UpToNul(v)]
      [] OTHER -> [type |-> "error", value |-> << >>]

DecimalText(n) == LET digits == IF n < 10 THEN 1 ELSE IF n < 100 THEN 2 ELSE
                                IF n < 1000 THEN 3 ELSE IF n < 10000 THEN 4 ELSE 5
                  IN  [k \in 1 .. digits |-> Zero + ((n \div (10 ^ (digits - k))) % 10)]

Meaning(post) ==
    LET d == SubSeq(post.data, 1, Min({BufSize, Len(post.data)}))
        topic == UpToNul(SubSeq(d, 1, TopicLen))
    IN  IF Len(d) <= TopicLen \/ topic \notin Wanted THEN << >>
        ELSE <<[ip |-> IpText, port |-> DecimalText(post.port), topic |-> topic,
                content |-> Content(d[TopicLen + 1], SubSeq(d, TopicLen + 2, Len(d)))]>>

(* The state keeps its type; what the socket holds was posted, in order.   *)
TypeOK ==
    /\ stage \in [Pubs -> {"parse", "bind", "run", "done", "usage", "crashed"}]
    /\ up \in BOOLEAN /\ reading \in BOOLEAN
    /\ \A s \in {udpq, arrived} :
          /\ ToSet(s) \subseteq 1 .. Len(posted)
          /\ \A n \in 1 .. Len(s) - 1 : s[n] < s[n + 1]

Promise == INSTANCE Feed WITH Line <- Meaning

(* README.md, print_packet and process_payload: what a subscriber sees is  *)
(* what was published, field by field, in order and once, with the         *)
(* publisher's port, and of the topics it is subscribed to, also when      *)
(* extract_topic read behind the datagram.  It holds where each INT fits   *)
(* into the int that "%d" prints; ShownAsPosted is about all of them.      *)
ShowsFeed == Promise!Spec

From(s) == [n \in DOMAIN s |-> s[n].from]

(* Of the datagrams s, those that mean something to the subscriber.        *)
Due(s) == FlattenSeq([n \in DOMAIN s |-> IF Meaning(posted[s[n]]) = << >> THEN << >> ELSE <<s[n]>>])

(* Nothing is dropped between the server's UDP socket and the subscriber's *)
(* screen (server.c 217-237, trie_publish, handle_received_data): of what  *)
(* the server dealt with, all that has a meaning and was asked for is shown*)
(* or on its way, in the order of arrival.                                 *)
NothingMissed == Due(From(shown) \o From(down)) = Due(arrived)

(* server.c 217-237, subscriber.c 162: whatever is posted, the subscriber  *)
(* goes on, and so does the server, unless a datagram came that leaves no  *)
(* room for the header.                                                    *)
OnlyLongOnesKill ==
    /\ reading
    /\ up \/ \E i \in 1 .. Len(posted) :
                /\ ~HasRoom(posted[i].port, Received(posted[i].data))
                /\ i \notin ToSet(arrived \o udpq)

(* README.md: an INT is "1-byte sign + 4-byte integer", a STRING is        *)
(* "NUL-terminated text", of which sample_payloads.json has one of 1500    *)
(* characters.  What is shown is all that was posted, with its sign,       *)
(* however large or long it is.                                            *)
ShownAsPosted ==
    \A n \in DOMAIN shown :
        LET d == posted[shown[n].from].data
        IN  shown[n].line.content = Content(d[TopicLen + 1], SubSeq(d, TopicLen + 2, Len(d)))
=============================================================================
