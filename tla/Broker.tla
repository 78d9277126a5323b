------------------------------- MODULE Broker ------------------------------
(***************************************************************************)
(* The server and its subscribers together: the loop of subscriber.c (with *)
(* select, what stdio reads ahead, and the end of stdin) against the loop  *)
(* of server.c, over connections that hold only so much, so that a send    *)
(* blocks when the other side does not read.                               *)
(*                                                                         *)
(* The subscribers are connected, and one pattern is all they subscribe to;*)
(* connecting is module Server, matching module TopicTrie, bytes are       *)
(* ReadBuffer and Packet.                                                  *)
(*                                                                         *)
(* Operators named ...Bug are a plausible slip in the code they stand      *)
(* before; nothing here uses them.                                         *)
(***************************************************************************)
EXTENDS Integers, Sequences, FiniteSets, SequencesExt

CONSTANTS Subs,          \* runs of subscriber.c
          Scripts,       \* what may be typed at whom, see below
          Capacity,      \* frames a connection holds in one direction
          MaxDatagrams,  \* bound: datagrams ever sent
          MaxSent,       \* bound: commands a subscriber sends
          MayStop        \* may "exit" be typed at the server?

(* A script has for each subscriber a sequence of "sub", "unsub", "exit",  *)
(* "short" (a line that has "subscribe" in it and is shorter than          *)
(* "subscribe "), "other" (any other line) and "eof" (stdin is closed; the *)
(* last one).                                                              *)
Lines == {"sub", "unsub", "exit", "short", "other"}

ASSUME BrokerAssumption ==
    /\ IsFiniteSet(Subs)
    /\ Capacity \in Nat \ {0}
    /\ MaxDatagrams \in Nat /\ MaxSent \in Nat
    /\ MayStop \in BOOLEAN
    /\ Scripts \subseteq [Subs -> Seq(Lines \cup {"eof"})]
    /\ \A s \in Scripts, c \in Subs : \A n \in 1 .. Len(s[c]) : s[c][n] = "eof" => n = Len(s[c])

VARIABLES
    (* the server *)
    pc,          \* where run_server is
    clients,     \* the active clients
    subs,        \* subs[c]: entries of c in the trie
    hot,         \* clients poll reported that the scan has yet to reach
    cur,         \* the client being served, as a set; {} between two
    buf,         \* complete frames of it that are still to be handled
    outbox,      \* the sends under way: <<client, frame>>
    exit_flag,
    udpq,        \* datagrams not received yet
    datagrams,   \* how many were sent
    (* the connections *)
    toServer, toSub,
    (* the subscribers *)
    script,      \* script[c]: all that will be typed at c
    typed,       \* typed[c]: how much of it was
    pipe,        \* pipe[c]: lines the kernel holds for stdin
    stdio,       \* stdio[c]: lines fgets has read ahead
    line,        \* line[c]: the array fgets fills
    fds,         \* fds[c]: did the last select report the socket?
    stage,       \* stage[c]: where main is
    sentBy,      \* sentBy[c]: the commands it sent
    seen,        \* seen[c]: what it printed
    (* history *)
    log          \* see module History

server == <<pc, clients, subs, hot, cur, buf, outbox, exit_flag, log>>
input == <<script, typed, pipe, stdio, line>>
subscribers == <<input, fds, stage, sentBy, seen>>
channels == <<toServer, toSub>>
vars == <<server, udpq, datagrams, channels, subscribers>>

Init == /\ pc = "poll" /\ clients = Subs /\ subs = [c \in Subs |-> 0]
        /\ hot = {} /\ cur = {} /\ buf = << >> /\ outbox = << >>
        /\ exit_flag = FALSE /\ log = << >>
        /\ udpq = << >> /\ datagrams = 0
        /\ toServer = [c \in Subs |-> << >>] /\ toSub = [c \in Subs |-> << >>]
        /\ script \in Scripts
        /\ typed = [c \in Subs |-> 0]
        /\ pipe = [c \in Subs |-> << >>] /\ stdio = [c \in Subs |-> << >>]
        /\ line = [c \in Subs |-> "other"]
        /\ fds = [c \in Subs |-> FALSE] /\ stage = [c \in Subs |-> "select"]
        /\ sentBy = [c \in Subs |-> << >>] /\ seen = [c \in Subs |-> << >>]

Up == pc \notin {"stopped", "killed"}

-----------------------------------------------------------------------------
(* The world: publishers, and whoever types.                               *)

SendDatagram ==
    /\ Up /\ datagrams < MaxDatagrams
    /\ datagrams' = datagrams + 1
    /\ udpq' = Append(udpq, [kind |-> "pub", number |-> datagrams'])
    /\ UNCHANGED <<server, channels, subscribers>>

Type(c) ==
    /\ typed[c] < Len(script[c])
    /\ typed' = [typed EXCEPT ![c] = @ + 1]
    /\ pipe' = LET text == script[c][typed[c] + 1]
               IN  IF text = "eof" THEN pipe ELSE [pipe EXCEPT ![c] = Append(@, text)]
    /\ UNCHANGED <<server, udpq, datagrams, channels, script, stdio, line,
                   fds, stage, sentBy, seen>>

Eof(c) == typed[c] > 0 /\ script[c][typed[c]] = "eof"

-----------------------------------------------------------------------------
(* The server *)

Ended(c) == stage[c] = "ended"
Readable(c) == toServer[c] # << >> \/ Ended(c)

ToAllBug(frame) == outbox' = [n \in 1 .. Cardinality(clients) |->
                                 <<SetToSeq(clients)[n], frame>>]

(* trie_publish: one send_message to each active subscriber.               *)
Publish(frame) ==
    LET receivers == SetToSeq({c \in clients : subs[c] > 0})
    IN  outbox' = [n \in DOMAIN receivers |-> <<receivers[n], frame>>]

(* poll, then the UDP part of the round: what happens between the two makes*)
(* no difference to the second.                                            *)
Round(stop) ==
    /\ pc = "poll"
    /\ stop \/ udpq # << >> \/ \E c \in clients : Readable(c)
    /\ exit_flag' = stop
    /\ hot' = {c \in clients : Readable(c)}
    /\ \/ /\ udpq # << >>
          /\ Publish(Head(udpq)) /\ log' = Append(log, Head(udpq))
          /\ udpq' = Tail(udpq)
       \/ udpq = << >> /\ UNCHANGED <<outbox, log, udpq>>
    /\ pc' = "scan"
    /\ UNCHANGED <<clients, subs, cur, buf, datagrams, channels, subscribers>>

Poll == Round(FALSE)

(* "exit" was typed.                                                       *)
PollExit == MayStop /\ Round(TRUE)

DropWhenFullBug(c, frame) ==
    toSub' = IF Len(toSub[c]) < Capacity
             THEN [toSub EXCEPT ![c] = Append(@, frame)] ELSE toSub

(* send() waits for room.                                                  *)
Put(c, frame) == /\ Len(toSub[c]) < Capacity
                 /\ toSub' = [toSub EXCEPT ![c] = Append(@, frame)]

(* -1 from client_handle_data: what is left in the buffer is lost.         *)
Drop(c) == /\ clients' = clients \ {c}
           /\ log' = Append(log, [kind |-> "end", client |-> c])
           /\ buf' = << >> /\ cur' = {}
           /\ UNCHANGED subs

(* One frame of those under way.  What is sent to a peer that left is lost,*)
(* or raises SIGPIPE.                                                      *)
SendNext ==
    LET c == Head(outbox)[1]
    IN  /\ Up /\ outbox # << >>
        /\ \/ ~Ended(c) /\ Put(c, Head(outbox)[2]) /\ UNCHANGED pc
           \/ /\ Ended(c)
              /\ pc' \in {pc, "killed"}
              /\ UNCHANGED toSub
        /\ outbox' = Tail(outbox)
        /\ UNCHANGED <<clients, subs, hot, cur, buf, exit_flag, log, udpq,
                       datagrams, toServer, subscribers>>

(* Or it fails, and if it was an acknowledgement the server drops the      *)
(* client; trie_publish does not look at the result.                       *)
SendFails ==
    LET c == Head(outbox)[1]
    IN  /\ Up /\ outbox # << >> /\ Head(outbox)[2].kind # "pub"
        /\ Ended(c) /\ Drop(c)
        /\ outbox' = Tail(outbox)
        /\ UNCHANGED <<pc, hot, exit_flag, udpq, datagrams, channels, subscribers>>

Scan(c) ==
    /\ pc = "scan" /\ outbox = << >> /\ cur = {} /\ c \in hot
    /\ hot' = hot \ {c}
    /\ \/ /\ toServer[c] # << >>
          /\ \E n \in 1 .. Len(toServer[c]) :
                /\ buf' = SubSeq(toServer[c], 1, n)
                /\ toServer' = [toServer EXCEPT ![c] = SubSeq(@, n + 1, Len(@))]
          /\ cur' = {c}
          /\ UNCHANGED <<clients, log, subs, outbox>>
       \/ toServer[c] = << >> /\ Drop(c) /\ UNCHANGED <<toServer, outbox>>
    /\ UNCHANGED <<pc, exit_flag, udpq, datagrams, toSub, subscribers>>

(* The trie operation, then the acknowledgement.                           *)
Carry(c, op) ==
    /\ subs' = [subs EXCEPT ![c] = @ + (IF op = "sub" THEN 1 ELSE -1)]
    /\ log' = Append(log, [kind |-> op, client |-> c])
    /\ outbox' = <<<<c, Last(log')>>>>
    /\ buf' = Tail(buf)
    /\ cur' = IF buf' = << >> THEN {} ELSE cur
    /\ UNCHANGED clients

NotHeldBug(c, op) == op \in {"sub", "unsub"}

LastEntryBug(c, op) == op = "sub" \/ (op = "unsub" /\ subs[c] > 1)

Possible(c, op) == op = "sub" \/ (op = "unsub" /\ subs[c] > 0)

(* A frame of bogus length, and a subscription that is not there, end the  *)
(* connection.                                                             *)
HandleFrame(c) ==
    LET op == Head(buf)
    IN  /\ pc = "scan" /\ outbox = << >> /\ cur = {c}
        /\ \/ Possible(c, op) /\ Carry(c, op)
           \/ ~Possible(c, op) /\ Drop(c) /\ UNCHANGED outbox
        /\ UNCHANGED <<pc, hot, exit_flag, udpq, datagrams, channels, subscribers>>

EndRound ==
    /\ pc = "scan" /\ outbox = << >> /\ cur = {} /\ hot = {}
    /\ pc' = IF exit_flag THEN "stopped" ELSE "poll"
    /\ UNCHANGED <<clients, subs, hot, cur, buf, outbox, exit_flag, log, udpq,
                   datagrams, channels, subscribers>>

ServerNext == \/ Poll \/ SendNext \/ SendFails \/ EndRound
              \/ \E c \in Subs : Scan(c) \/ HandleFrame(c)

-----------------------------------------------------------------------------
(* A subscriber *)

Closed(c) == c \notin clients \/ ~Up

Goto(c, s) == stage' = [stage EXCEPT ![c] = s]

EofIgnoredBug(c) == pipe[c] # << >>

StdinReady(c) == pipe[c] # << >> \/ Eof(c)

ElseIfBug(c) == ~StdinReady(c) /\ (toSub[c] # << >> \/ Closed(c))

SocketReady(c) == toSub[c] # << >> \/ Closed(c)

PipeFirstBug(c) == IF pipe[c] # << >> THEN pipe[c] ELSE stdio[c]

(* What fgets has at hand.                                                 *)
LinesAt(c) == IF stdio[c] # << >> THEN stdio[c] ELSE pipe[c]

(* fgets: the next line read ahead, or else all the pipe holds is read.  At*)
(* the end of stdin the array is left as it is: in each round it is the    *)
(* same place on the stack, and holds the last line unless something else  *)
(* was put there.                                                          *)
Gets(c) ==
    LET lines == LinesAt(c)
    IN  IF lines = << >>
        THEN /\ line' \in {line, [line EXCEPT ![c] = "other"]}
             /\ Len(sentBy[c]) >= MaxSent => line'[c] = "other"
             /\ UNCHANGED <<stdio, pipe>>
        ELSE /\ line' = [line EXCEPT ![c] = Head(lines)]
             /\ stdio' = [stdio EXCEPT ![c] = Tail(lines)]
             /\ pipe' = IF stdio[c] # << >> THEN pipe ELSE [pipe EXCEPT ![c] = << >>]

(* select, then the stdin part of the round: select sees the pipe, not what*)
(* fgets has read ahead, and its word on the socket is used later.         *)
Select(c) ==
    /\ stage[c] = "select" /\ (StdinReady(c) \/ SocketReady(c))
    /\ fds' = [fds EXCEPT ![c] = SocketReady(c)]
    /\ \/ /\ StdinReady(c) /\ Gets(c)
          /\ Goto(c, CASE line'[c] = "exit" -> "ended"
                       [] line'[c] = "other" -> "sock"
                       [] OTHER -> "send")
       \/ ~StdinReady(c) /\ Goto(c, "sock") /\ UNCHANGED <<line, stdio, pipe>>
    /\ UNCHANGED <<server, udpq, datagrams, channels, script, typed, sentBy, seen>>

(* What a line is sent as.                                                 *)
Frame(l) == IF l = "short" THEN "bogus" ELSE l

(* send_message.  strlen(line) - SUB_LEN of a short line is close to 2^32: *)
(* the frame has that length in its header, and send fails where the       *)
(* memory ends.  After the server closed, a send is lost or the last.      *)
Send(c) ==
    /\ stage[c] = "send"
    /\ \/ /\ ~Closed(c) /\ Len(toServer[c]) < Capacity
          /\ toServer' = [toServer EXCEPT ![c] = Append(@, Frame(line[c]))]
          /\ Goto(c, IF line[c] = "short" THEN "ended" ELSE "sock")
       \/ /\ Closed(c)
          /\ Goto(c, "ended") \/ (line[c] # "short" /\ Goto(c, "sock"))
          /\ UNCHANGED toServer
    /\ sentBy' = [sentBy EXCEPT ![c] = Append(@, Frame(line[c]))]
    /\ UNCHANGED <<server, udpq, datagrams, toSub, input, fds, seen>>

ZeroIgnoredBug(c) == Goto(c, "select")

HangUp(c) == Goto(c, "ended")

(* handle_received_data: a frame, or the end of the connection, which may  *)
(* be a reset that overtakes frames.                                       *)
Receive(c) ==
    /\ stage[c] = "sock"
    /\ \/ /\ fds[c] /\ toSub[c] # << >>
          /\ seen' = [seen EXCEPT ![c] = Append(@, Head(toSub[c]))]
          /\ toSub' = [toSub EXCEPT ![c] = Tail(@)]
          /\ Goto(c, "select")
       \/ fds[c] /\ Closed(c) /\ HangUp(c) /\ UNCHANGED <<toSub, seen>>
       \/ ~fds[c] /\ Goto(c, "select") /\ UNCHANGED <<toSub, seen>>
    /\ UNCHANGED <<server, udpq, datagrams, toServer, input, fds, sentBy>>

SubscriberNext(c) == Select(c) \/ Send(c) \/ Receive(c)

Next == \/ SendDatagram
        \/ ServerNext \/ PollExit
        \/ \E c \in Subs : Type(c) \/ SubscriberNext(c)

Spec == Init /\ [][Next]_vars

(* Each of the processes runs as long as it is not blocked in a call; what *)
(* is typed, at the server too, or published is up to the world.           *)
Fairness == WF_vars(ServerNext) /\ \A c \in Subs : WF_vars(SubscriberNext(c))

FairSpec == Spec /\ Fairness

-----------------------------------------------------------------------------
(* Properties *)

(* The state keeps its type, in particular no client has less than no      *)
(* entry, and no connection holds more than it can.                        *)
TypeOK ==
    /\ pc \in {"poll", "scan", "stopped", "killed"}
    /\ clients \subseteq Subs /\ hot \subseteq Subs
    /\ subs \in [Subs -> Nat]
    /\ line \in [Subs -> Lines]
    /\ stage \in [Subs -> {"select", "send", "sock", "ended"}]
    /\ \A c \in Subs : Len(toServer[c]) <= Capacity /\ Len(toSub[c]) <= Capacity

Promise == INSTANCE History

(* README.md: the server "dispatches published messages", subscribers      *)
(* "print incoming publications".  Whatever blocks, and however the        *)
(* subscribers' commands and the datagrams fall, all of them see one       *)
(* history, each its part, gapless and in order.                           *)
SharesHistory == Promise!Spec

(* The commands among some lines, as they are sent.                        *)
Commands(lines) ==
    FlattenSeq([n \in DOMAIN lines |-> IF lines[n] \in {"sub", "unsub", "short"}
                                       THEN <<Frame(lines[n])>> ELSE << >>])

(* subscriber.c 249-281: what goes to the server is what was typed, in that*)
(* order, each line once, also if several lines arrived together.  As long *)
(* as stdin is open nothing else is sent; what follows the end of stdin    *)
(* comes after all of it.                                                  *)
CommandsAsTyped ==
    \A c \in Subs :
        LET commands == Commands(SubSeq(script[c], 1, typed[c]))
        IN  \/ IsPrefix(sentBy[c], commands)
            \/ Eof(c) /\ IsPrefix(commands, sentBy[c])

(* subscriber.c 253: "EOF on stdin: just ignore further stdin".  The end of*)
(* stdin makes the subscriber send nothing that was not typed.             *)
EofIgnored ==
    \A c \in Subs :
        Eof(c) => IsPrefix(sentBy[c], Commands(SubSeq(script[c], 1, typed[c])))

(* One who types no short line, unsubscribes only from what it subscribed  *)
(* to, and leaves its stdin open.                                          *)
WellBehaved(c) ==
    \A n \in 1 .. Len(script[c]) :
        LET count(l) == Cardinality({k \in 1 .. n : script[c][k] = l})
        IN  /\ script[c][n] \notin {"short", "eof"}
            /\ count("unsub") <= count("sub")

(* client_handle_data, handle_received_data: such a subscriber ends only   *)
(* when it is told to, or the server has ended, whatever the others do.    *)
GoodOnesStay ==
    \A c \in Subs : Ended(c) /\ WellBehaved(c) => line[c] = "exit" \/ ~Up

(* send_all on both sides (protocol.c 8-14): the server waits for room at  *)
(* a subscriber that waits for room at the server.  Nothing ends this.     *)
MutualWait ==
    /\ Up /\ outbox # << >>
    /\ LET c == Head(outbox)[1]
       IN  /\ stage[c] = "send" /\ ~Closed(c)
           /\ Len(toSub[c]) = Capacity /\ Len(toServer[c]) = Capacity

(* README.md: send_all retries "until all data is written or an error      *)
(* occurs".  A send that blocks comes to its end, but for the mutual wait: *)
(* no other cycle of waiting, and no subscriber that goes on without       *)
(* reading, holds the server up.                                           *)
SendsComplete == outbox # << >> ~> outbox = << >> \/ ~Up \/ MutualWait

CaughtUp(c) == seen[c] = Promise!View(c)

(* Every subscriber comes to see all its part of the history, unless it    *)
(* ends, the server does, or the two wait for each other.                  *)
EverythingSeen ==
    \A c \in Subs : []<>(CaughtUp(c) \/ Ended(c) \/ ~Up \/ MutualWait)

(* test.py, server_stop: when the server has stopped a subscriber that is  *)
(* "still up" is an error.                                                 *)
StopsWithServer == ~Up ~> \A c \in Subs : Ended(c)

(* What fgets read ahead is out of select's sight.  Once stdin is closed,  *)
(* which select reports for ever, every line is taken nevertheless.        *)
LinesTaken ==
    \A c \in Subs :
        Eof(c) ~> (pipe[c] = << >> /\ stdio[c] = << >>) \/ Ended(c) \/ MutualWait
=============================================================================
