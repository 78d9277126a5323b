------------------------------ MODULE Server -------------------------------
(***************************************************************************)
(* src/src/server.c: the poll loop, the two lists of clients, and what     *)
(* client_handle_data and send_message do for it, against subscribers that *)
(* connect, send, close and reset at any moment.                           *)
(*                                                                         *)
(* The server is one thread; pc says which part of a round it is in.  Each *)
(* system call it makes is a step of its own, so the peers act in between. *)
(* A client_t is named by its id.  Whole frames stand for bytes (module    *)
(* ReadBuffer has the bytes) and a table for the trie (module TopicTrie).  *)
(*                                                                         *)
(* Operators named ...Bug are a plausible slip in the code they stand      *)
(* before; nothing here uses them.                                         *)
(***************************************************************************)
EXTENDS Integers, Sequences, SequencesExt

CONSTANTS Ids,           \* client ids
          Patterns,      \* subscription patterns
          Topics,        \* topics of UDP messages
          Ops,           \* the commands subscribers send, "sub" and "unsub"
          Match,         \* the pairs <<pattern, topic>> that match
          NumConns,      \* bound: TCP connections ever made
          NumFds,        \* client sockets the process may have open
          MaxCommands,   \* bound: commands ever sent
          MaxDatagrams,  \* bound: UDP messages ever sent
          Input,         \* the lines typed on the server's stdin, in order
          MayFail        \* can malloc and accept fail for want of memory?

Conns == 1 .. NumConns
Fds == 1 .. NumFds
None == 0                \* no connection; the fd -1 of an inactive client

Commands == [op : Ops, pat : Patterns]

ASSUME ServerAssumption ==
    /\ NumConns \in Nat /\ NumFds \in Nat
    /\ MaxCommands \in Nat /\ MaxDatagrams \in Nat
    /\ Ops \subseteq {"sub", "unsub"}
    /\ Match \subseteq Patterns \X Topics
    /\ MayFail \in BOOLEAN

VARIABLES
    pc,            \* where run_server is
    clients,       \* the list of active clients, first to last
    inactive,      \* the list of inactive clients
    client_count,
    fd,            \* fd[c]: client_t.fd, None for -1
    subs,          \* subs[c][p]: entries of c at pattern p in the trie
    pfds,          \* what the last poll returned
    cur,           \* position in clients the scan is at
    idx,           \* entry of pfds the scan looks at
    buf,           \* complete frames client_handle_data has yet to handle
    newfd,         \* the socket handle_new_tcp_connection just accepted
    exit_flag,
    fdtab,         \* fdtab[f]: the connection behind descriptor f
    conn,          \* the connections
    backlog,       \* connections not accepted yet
    udpq,          \* datagrams not received yet
    datagrams,     \* how many were sent
    typed,         \* how many lines were typed
    pipe,          \* lines the kernel holds for stdin
    stdio          \* lines fgets has read ahead

server == <<pc, clients, inactive, client_count, fd, subs, pfds, cur, idx,
            buf, newfd, exit_flag, fdtab, stdio>>
world == <<conn, backlog, udpq, datagrams, typed, pipe>>
vars == <<server, world>>

(* One connection, with what happened on it.                               *)
Connection ==
    [phase   : {"unused", "backlog", "held", "closed"},
     id      : Ids \cup {None},
     idState : {"unsent", "queued", "read"},
     peer    : {"open", "fin", "rst", "dead"},  \* see Send
     garbled : BOOLEAN,        \* out of step with the framing, see IdRead
     inq     : Seq(Commands),  \* sent by the peer, not received yet
     sent    : Seq(Commands),  \* all the peer sent
     skipped : Nat,            \* frames lost to the recv of the id
     applied : Seq(Commands),  \* commands the server carried out
     acked   : Seq(Commands),  \* acknowledgements that reached the peer
     news    : Nat]            \* publications that reached the peer

Unused == [phase |-> "unused", id |-> None, idState |-> "unsent", peer |-> "open",
           garbled |-> FALSE, inq |-> << >>, sent |-> << >>, skipped |-> 0,
           applied |-> << >>, acked |-> << >>, news |-> 0]

NoPfds == [stdin |-> FALSE, udp |-> FALSE, tcp |-> FALSE, client |-> << >>]

Init == /\ pc = "poll"
        /\ clients = << >> /\ inactive = << >> /\ client_count = 0
        /\ fd = [c \in Ids |-> None]
        /\ subs = [c \in Ids |-> [p \in Patterns |-> 0]]
        /\ pfds = NoPfds
        /\ cur = 1 /\ idx = 1 /\ buf = << >> /\ newfd = None
        /\ exit_flag = FALSE
        /\ fdtab = [f \in Fds |-> None]
        /\ conn = [k \in Conns |-> Unused]
        /\ backlog = << >>
        /\ udpq = << >> /\ datagrams = 0
        /\ typed = 0 /\ pipe = << >> /\ stdio = << >>

Up == pc \notin {"cleanup", "exited", "killed", "crashed"}

-----------------------------------------------------------------------------
(* The world outside: subscribers, publishers and whoever types "exit".    *)

Connect(k, c) ==
    /\ Up
    /\ conn[k].phase = "unused" /\ \A j \in 1 .. k - 1 : conn[j].phase # "unused"
    /\ conn' = [conn EXCEPT ![k].phase = "backlog", ![k].id = c]
    /\ backlog' = Append(backlog, k)
    /\ UNCHANGED <<server, udpq, datagrams, typed, pipe>>

CanWrite(k) == conn[k].phase \in {"backlog", "held"} /\ conn[k].peer = "open"

SendId(k) ==
    /\ Up /\ CanWrite(k) /\ conn[k].idState = "unsent"
    /\ conn' = [conn EXCEPT ![k].idState = "queued"]
    /\ UNCHANGED <<server, backlog, udpq, datagrams, typed, pipe>>

SendCommand(k, m) ==
    /\ Up /\ CanWrite(k) /\ conn[k].idState # "unsent"
    /\ Cardinality({x \in Conns \X (1 .. MaxCommands) :
                         x[2] <= Len(conn[x[1]].sent)}) < MaxCommands
    /\ conn' = [conn EXCEPT ![k].inq = Append(@, m), ![k].sent = Append(@, m)]
    /\ UNCHANGED <<server, backlog, udpq, datagrams, typed, pipe>>

(* The subscriber ends: "fin" when it had read everything, else "rst".  It *)
(* has something to read only if something was sent to it.                 *)
Leave(k, how) ==
    /\ Up /\ CanWrite(k)
    /\ how = "rst" => conn[k].acked # << >> \/ conn[k].news > 0
    /\ conn' = [conn EXCEPT ![k].peer = how]
    /\ UNCHANGED <<server, backlog, udpq, datagrams, typed, pipe>>

SendDatagram(t) ==
    /\ Up /\ datagrams < MaxDatagrams
    /\ udpq' = Append(udpq, t) /\ datagrams' = datagrams + 1
    /\ UNCHANGED <<server, conn, backlog, typed, pipe>>

Type ==
    /\ Up /\ typed < Len(Input)
    /\ typed' = typed + 1 /\ pipe' = Append(pipe, Input[typed + 1])
    /\ UNCHANGED <<server, conn, backlog, udpq, datagrams>>

World == \/ \E k \in Conns : \/ \E c \in Ids : Connect(k, c)
                             \/ SendId(k)
                             \/ \E m \in Commands : SendCommand(k, m)
                             \/ \E how \in {"fin", "rst"} : Leave(k, how)
         \/ \E t \in Topics : SendDatagram(t)
         \/ Type

-----------------------------------------------------------------------------
(* System calls on the connections *)

Readable(k) == \/ conn[k].idState = "queued"
               \/ conn[k].inq # << >>
               \/ conn[k].peer # "open"

At(i) == clients[i]
ConnOf(c) == fdtab[fd[c]]

(* What send() does to connection r.  An open peer gets the data, which    *)
(* got stands for.  To a peer that closed ("fin") the data is lost, and    *)
(* the reset it provokes may come back before or after the next send.      *)
(* Once it did ("dead") the next send raises SIGPIPE, which nobody catches.*)
(* A peer that reset before ("rst") makes one send fail, and the next one  *)
(* raise SIGPIPE.                                                          *)
Sent(r, got) == IF r.peer = "open" THEN {got}
                ELSE IF r.peer = "fin" THEN {r, [r EXCEPT !.peer = "dead"]}
                ELSE {[r EXCEPT !.peer = "dead"]}

CanKill(k) == conn[k].peer \in {"fin", "dead"}
CanSurvive(k) == conn[k].peer # "dead"

Closed(k) == [conn EXCEPT ![k].phase = "closed"]

-----------------------------------------------------------------------------
(* run_server: one round of the loop *)

ClientFds == [i \in 1 .. client_count |->
                 [fd |-> fd[At(i)], hot |-> Readable(ConnOf(At(i)))]]

(* poll() blocks until something is ready.                                 *)
Poll ==
    /\ pc = "poll"
    /\ LET now == [stdin |-> pipe # << >>, udp |-> udpq # << >>,
                   tcp |-> backlog # << >>, client |-> ClientFds]
       IN /\ now.stdin \/ now.udp \/ now.tcp \/ \E i \in 1 .. client_count : now.client[i].hot
          /\ pfds' = now
    /\ pc' = "stdin"
    /\ UNCHANGED <<clients, inactive, client_count, fd, subs, cur, idx, buf,
                   newfd, exit_flag, fdtab, stdio, world>>

(* No memory for pfds: the loop is left as if by "exit".                   *)
PollFails ==
    /\ pc = "poll" /\ MayFail
    /\ pc' = "cleanup"
    /\ UNCHANGED <<clients, inactive, client_count, fd, subs, pfds, cur, idx,
                   buf, newfd, exit_flag, fdtab, stdio, world>>

(* fgets takes one line, from what it read ahead if there is any; when it  *)
(* has to read() it gets all the kernel holds, and keeps the rest.         *)
ReadStdin ==
    /\ pc = "stdin"
    /\ pc' = "udp"
    /\ LET lines == IF stdio # << >> THEN stdio ELSE pipe
       IN \/ /\ pfds.stdin
             /\ stdio' = Tail(lines)
             /\ pipe' = IF stdio # << >> THEN pipe ELSE << >>
             /\ exit_flag' = (exit_flag \/ Head(lines) = "exit")
          \/ ~pfds.stdin /\ UNCHANGED <<stdio, pipe, exit_flag>>
    /\ UNCHANGED <<clients, inactive, client_count, fd, subs, pfds, cur, idx,
                   buf, newfd, fdtab, conn, backlog, udpq, datagrams, typed>>

Subscribers(t) ==
    {c \in Ids : \E p \in Patterns : subs[c][p] > 0 /\ <<p, t>> \in Match}

(* trie_publish: one send_message to each subscriber, with c->fd as it is; *)
(* the result is not looked at.  On a descriptor that is not open, -1 for  *)
(* one, send only fails.                                                   *)
Publish(t) ==
    LET reached == {ConnOf(c) : c \in {d \in Subscribers(t) : fd[d] # None}} \ {None}
        more(k) == [conn[k] EXCEPT !.news = @ + 1]
    IN  \/ /\ \A k \in reached : CanSurvive(k)
           /\ \E result \in [reached -> UNION {Sent(conn[k], more(k)) : k \in reached}] :
                 /\ \A k \in reached : result[k] \in Sent(conn[k], more(k))
                 /\ conn' = [k \in Conns |-> IF k \in reached THEN result[k] ELSE conn[k]]
           /\ pc' = "tcp"
        \/ /\ \E k \in reached : CanKill(k)
           /\ \E got \in SUBSET {k \in reached : conn[k].peer = "open"} :
                 conn' = [k \in Conns |-> IF k \in got THEN more(k) ELSE conn[k]]
           /\ pc' = "killed"

ReadUdp ==
    /\ pc = "udp"
    /\ \/ pfds.udp /\ udpq' = Tail(udpq) /\ Publish(Head(udpq))
       \/ ~pfds.udp /\ pc' = "tcp" /\ UNCHANGED <<udpq, conn>>
    /\ UNCHANGED <<clients, inactive, client_count, fd, subs, pfds, cur, idx,
                   buf, newfd, exit_flag, fdtab, stdio, backlog, datagrams, typed, pipe>>

-----------------------------------------------------------------------------
(* handle_new_tcp_connection *)

FreeFds == {f \in Fds : fdtab[f] = None}

(* accept() takes the lowest free descriptor.  It fails if there is none,  *)
(* or no memory.                                                           *)
Accept ==
    /\ pc = "tcp"
    /\ \/ /\ pfds.tcp /\ FreeFds # {}
          /\ newfd' = Min(FreeFds)
          /\ fdtab' = [fdtab EXCEPT ![newfd'] = Head(backlog)]
          /\ conn' = [conn EXCEPT ![Head(backlog)].phase = "held"]
          /\ backlog' = Tail(backlog)
          /\ pc' = "recv_id"
       \/ /\ ~pfds.tcp \/ FreeFds = {} \/ MayFail
          /\ pc' = "scan"
          /\ UNCHANGED <<newfd, fdtab, conn, backlog>>
    /\ UNCHANGED <<clients, inactive, client_count, fd, subs, pfds, cur, idx,
                   buf, exit_flag, stdio, udpq, datagrams, typed, pipe>>

(* recv(newfd, id, 15, 0) when the id has arrived.  Of commands that came  *)
(* with it, it may take some whole, and a part of the one after.  A frame  *)
(* is of 6 bytes or more and an id of one or more, its newline: two frames *)
(* at most are taken whole.                                                *)
MostWhole == 2

IdRead(r) ==
    {[r EXCEPT !.idState = "read", !.inq = SubSeq(@, x.whole + 1, Len(@)),
               !.skipped = x.whole, !.garbled = x.part] :
        x \in {y \in [whole : 0 .. MostWhole, part : BOOLEAN] :
                 /\ y.whole <= Len(r.inq)
                 /\ y.part => y.whole < Len(r.inq)}}

LeakBug(r) ==
    /\ conn' = [conn EXCEPT ![fdtab[newfd]] = [r EXCEPT !.phase = "closed"]]
    /\ UNCHANGED <<fdtab, clients, inactive, client_count, fd>>

CloseNew(r) ==
    /\ conn' = [conn EXCEPT ![fdtab[newfd]] = [r EXCEPT !.phase = "closed"]]
    /\ fdtab' = [fdtab EXCEPT ![newfd] = None]
    /\ UNCHANGED <<clients, inactive, client_count, fd>>

Activate(c, r) ==
    /\ conn' = [conn EXCEPT ![fdtab[newfd]] = r]
    /\ fd' = [fd EXCEPT ![c] = newfd]
    /\ clients' = <<c>> \o clients
    /\ client_count' = client_count + 1
    /\ UNCHANGED fdtab

(* The recv blocks, and with it the server, until the id comes or the peer *)
(* leaves.                                                                 *)
ReceiveId ==
    LET k == fdtab[newfd]
        c == conn[k].id
    IN  /\ pc = "recv_id" /\ Readable(k)
        /\ \/ conn[k].idState = "unsent" /\ CloseNew(conn[k])
           \/ /\ conn[k].idState = "queued"
              /\ \E r \in IdRead(conn[k]) :
                    \/ Contains(clients, c) /\ CloseNew(r)
                    \/ /\ ~Contains(clients, c) /\ Contains(inactive, c)
                       /\ \E i \in 1 .. Len(inactive) :
                             inactive[i] = c /\ inactive' = RemoveAt(inactive, i)
                       /\ Activate(c, r)
                    \/ /\ ~Contains(clients, c) /\ ~Contains(inactive, c)
                       /\ \/ /\ Activate(c, r)
                             /\ UNCHANGED inactive
                          \/ MayFail /\ CloseNew(r)
        /\ newfd' = None
        /\ pc' = "scan"
        /\ UNCHANGED <<subs, pfds, cur, idx, buf, exit_flag, stdio, backlog, udpq,
                       datagrams, typed, pipe>>

-----------------------------------------------------------------------------
(* The scan of the clients, and client_handle_data *)

(* The entry the scan tests.  Beyond the array it is whatever the heap     *)
(* holds there.                                                            *)
Revents == IF idx <= Len(pfds.client) THEN {pfds.client[idx].hot} ELSE BOOLEAN

SkipEntryBug == /\ pc' = "scan" /\ cur' = cur + 1 /\ idx' = idx + 2
                /\ UNCHANGED <<clients, inactive, client_count, fd, fdtab>>

Advance == /\ pc' = "scan" /\ cur' = cur + 1 /\ idx' = idx + 1
           /\ UNCHANGED <<clients, inactive, client_count, fd, fdtab>>

CountTwiceBug(conn1) ==
    LET c == At(cur)
    IN  /\ client_count' = client_count - 2
        /\ clients' = RemoveAt(clients, cur)
        /\ inactive' = <<c>> \o inactive
        /\ fdtab' = [fdtab EXCEPT ![fd[c]] = None]
        /\ fd' = [fd EXCEPT ![c] = None]
        /\ conn' = [conn1 EXCEPT ![ConnOf(c)].phase = "closed"]
        /\ buf' = << >>
        /\ pc' = "scan" /\ idx' = idx + 1 /\ UNCHANGED cur

StaleFdBug(conn1) ==
    LET c == At(cur)
    IN  /\ client_count' = client_count - 1
        /\ clients' = RemoveAt(clients, cur)
        /\ inactive' = <<c>> \o inactive
        /\ fdtab' = [fdtab EXCEPT ![fd[c]] = None]
        /\ fd' = fd
        /\ conn' = [conn1 EXCEPT ![ConnOf(c)].phase = "closed"]
        /\ buf' = << >>
        /\ pc' = "scan" /\ idx' = idx + 1 /\ UNCHANGED cur

SameEntryBug(conn1) ==
    LET c == At(cur)
    IN  /\ client_count' = client_count - 1
        /\ clients' = RemoveAt(clients, cur)
        /\ inactive' = <<c>> \o inactive
        /\ fdtab' = [fdtab EXCEPT ![fd[c]] = None]
        /\ fd' = [fd EXCEPT ![c] = None]
        /\ conn' = [conn1 EXCEPT ![ConnOf(c)].phase = "closed"]
        /\ buf' = << >>
        /\ pc' = "scan" /\ UNCHANGED <<idx, cur>>

(* -1 from client_handle_data: the client becomes inactive.                *)
Deactivate(conn1) ==
    LET c == At(cur)
    IN  /\ client_count' = client_count - 1
        /\ clients' = RemoveAt(clients, cur)
        /\ inactive' = <<c>> \o inactive
        /\ fdtab' = [fdtab EXCEPT ![fd[c]] = None]
        /\ fd' = [fd EXCEPT ![c] = None]
        /\ conn' = [conn1 EXCEPT ![ConnOf(c)].phase = "closed"]
        /\ buf' = << >>
        /\ pc' = "scan" /\ idx' = idx + 1 /\ UNCHANGED cur

ScanClient ==
    /\ pc = "scan" /\ cur <= Len(clients)
    /\ \E hot \in Revents :
          \/ ~hot /\ Advance
          \/ /\ hot /\ pc' = "recv"
             /\ UNCHANGED <<clients, inactive, client_count, fd, fdtab, cur, idx>>
    /\ UNCHANGED <<subs, pfds, buf, newfd, exit_flag, stdio, world>>

ExitIgnoredBug ==
    /\ pc = "scan" /\ cur > Len(clients)
    /\ pc' = "poll"
    /\ pfds' = NoPfds /\ cur' = 1 /\ idx' = 1
    /\ UNCHANGED <<clients, inactive, client_count, fd, subs,
                   buf, newfd, exit_flag, fdtab, stdio, world>>

EndRound ==
    /\ pc = "scan" /\ cur > Len(clients)
    /\ pc' = IF exit_flag THEN "cleanup" ELSE "poll"
    /\ pfds' = NoPfds /\ cur' = 1 /\ idx' = 1
    /\ UNCHANGED <<clients, inactive, client_count, fd, subs,
                   buf, newfd, exit_flag, fdtab, stdio, world>>

(* n frames are received of which the first `lost` are never handled.  In  *)
(* step with the framing none is lost.  Out of step, bytes are taken for   *)
(* the header of a frame of unknown type, and its length decides what is   *)
(* ignored with it: all there is, more being waited for, or up to a point  *)
(* where the framing may be in step again.                                 *)
Taken(r, n, lost, part) ==
    [r EXCEPT !.inq = SubSeq(@, n + 1, Len(@)), !.skipped = @ + lost, !.garbled = part]

Losses(r, n) ==
    {x \in [lost : 0 .. n, part : BOOLEAN] :
        IF r.garbled THEN x.lost > 0 /\ (x.part => x.lost = n)
        ELSE x.lost = 0 /\ ~x.part}

(* The recv of client_handle_data; it blocks when there is nothing to read.*)
(* A client whose length makes no sense is dropped.                        *)
Receive ==
    LET k == ConnOf(At(cur))
        r == conn[k]
    IN  /\ pc = "recv" /\ Readable(k)
        /\ \/ \E n \in 1 .. Len(r.inq) :
                 \/ \E x \in Losses(r, n) :
                       /\ buf' = SubSeq(r.inq, x.lost + 1, n)
                       /\ conn' = [conn EXCEPT ![k] = Taken(r, n, x.lost, x.part)]
                       /\ pc' = "frames"
                       /\ UNCHANGED <<clients, inactive, client_count, fd, fdtab, cur, idx>>
                 \/ r.garbled /\ Deactivate([conn EXCEPT ![k] = Taken(r, n, n, TRUE)])
           \/ r.inq = << >> /\ Deactivate(conn)
        /\ UNCHANGED <<subs, pfds, newfd, exit_flag, stdio, backlog, udpq,
                       datagrams, typed, pipe>>

AllOfItBug(c, m) ==
    \/ m.op = "sub" /\ subs' = [subs EXCEPT ![c][m.pat] = @ + 1]
    \/ m.op = "unsub" /\ subs[c][m.pat] > 0 /\ subs' = [subs EXCEPT ![c][m.pat] = 0]

NotHeldBug(c, m) ==
    \/ m.op = "sub" /\ subs' = [subs EXCEPT ![c][m.pat] = @ + 1]
    \/ m.op = "unsub" /\ subs' = [subs EXCEPT ![c][m.pat] = @ - 1]

(* trie_subscribe and trie_unsubscribe for the client c.                   *)
Carry(c, m) ==
    \/ m.op = "sub" /\ subs' = [subs EXCEPT ![c][m.pat] = @ + 1]
    \/ m.op = "unsub" /\ subs[c][m.pat] > 0 /\ subs' = [subs EXCEPT ![c][m.pat] = @ - 1]

CannotCarry(c, m) == (m.op = "unsub" /\ subs[c][m.pat] = 0) \/ MayFail

(* One frame: the trie operation, then the acknowledgement.                *)
HandleFrame ==
    LET c == At(cur)
        k == ConnOf(c)
        m == Head(buf)
        did == [conn[k] EXCEPT !.applied = Append(@, m)]
        acked == [did EXCEPT !.acked = Append(@, m)]
    IN  /\ pc = "frames" /\ buf # << >>
        /\ \/ /\ Carry(c, m) /\ CanSurvive(k)
              /\ \E r \in Sent(did, acked) :
                    LET conn1 == [conn EXCEPT ![k] = r]
                    IN  \/ /\ conn[k].peer \in {"open", "fin"}
                           /\ conn' = conn1 /\ buf' = Tail(buf)
                           /\ UNCHANGED <<pc, clients, inactive, client_count, fd, fdtab, cur, idx>>
                        \/ conn[k].peer = "rst" /\ Deactivate(conn1)
           \/ /\ Carry(c, m) /\ CanKill(k)
              /\ pc' = "killed" /\ conn' = [conn EXCEPT ![k] = did]
              /\ UNCHANGED <<buf, clients, inactive, client_count, fd, fdtab, cur, idx>>
           \/ CannotCarry(c, m) /\ UNCHANGED subs /\ Deactivate(conn)
        /\ UNCHANGED <<pfds, newfd, exit_flag, stdio, backlog, udpq, datagrams,
                       typed, pipe>>

OneFrameBug ==
    /\ pc = "frames"
    /\ Advance /\ buf' = << >>
    /\ UNCHANGED <<subs, pfds, newfd, exit_flag, stdio, world>>

FramesDone ==
    /\ pc = "frames" /\ buf = << >>
    /\ Advance
    /\ UNCHANGED <<subs, pfds, buf, newfd, exit_flag, stdio, world>>

-----------------------------------------------------------------------------
(* Final cleanup: client_destroy for the active, then the inactive clients.*)
(* client_create never sets `subscriptions`, so the list of references a   *)
(* client has ends in whatever malloc left there: NULL by luck, or garbage *)
(* that cleanup_client_subscriptions follows.                              *)

Destroy ==
    LET c == Head(clients \o inactive)
    IN  /\ pc = "cleanup" /\ clients \o inactive # << >>
        /\ \/ /\ \/ clients # << >> /\ clients' = Tail(clients) /\ UNCHANGED inactive
                 \/ clients = << >> /\ inactive' = Tail(inactive) /\ UNCHANGED clients
              /\ subs' = [subs EXCEPT ![c] = [p \in Patterns |-> 0]]
              /\ fd' = [fd EXCEPT ![c] = None]
              /\ IF fd[c] = None THEN UNCHANGED <<fdtab, conn>>
                 ELSE /\ fdtab' = [fdtab EXCEPT ![fd[c]] = None]
                      /\ conn' = Closed(ConnOf(c))
              /\ UNCHANGED pc
           \/ /\ pc' = "crashed"
              /\ UNCHANGED <<clients, inactive, subs, fd, fdtab, conn>>
        /\ UNCHANGED <<client_count, pfds, cur, idx, buf, newfd, exit_flag,
                       stdio, backlog, udpq, datagrams, typed, pipe>>

Exit ==
    /\ pc = "cleanup" /\ clients \o inactive = << >>
    /\ pc' = "exited"
    /\ UNCHANGED <<clients, inactive, client_count, fd, subs, pfds, cur, idx,
                   buf, newfd, exit_flag, fdtab, stdio, world>>

ServerNext == \/ Poll \/ PollFails
              \/ ReadStdin \/ ReadUdp
              \/ Accept \/ ReceiveId
              \/ ScanClient \/ EndRound
              \/ Receive \/ HandleFrame \/ FramesDone
              \/ Destroy \/ Exit

Next == ServerNext \/ World

Spec == Init /\ [][Next]_vars

(* Subscribers may come and go for ever: a connection that ended without a *)
(* command (so that MaxCommands stays a bound) gives its number to one     *)
(* made later.                                                             *)
Renew(k) ==
    /\ Up /\ conn[k].phase = "closed" /\ conn[k].sent = << >>
    /\ conn' = [conn EXCEPT ![k] = Unused]
    /\ UNCHANGED <<server, backlog, udpq, datagrams, typed, pipe>>

ChurnNext == Next \/ \E k \in Conns : Renew(k)

ChurnSpec == Init /\ [][ChurnNext]_vars

-----------------------------------------------------------------------------
(* Properties *)

Lists == clients \o inactive

(* The server's variables, and the client_count by which it allocates pfds,*)
(* which is never negative.                                                *)
TypeOK ==
    /\ pc \in {"poll", "stdin", "udp", "tcp", "recv_id", "scan", "recv", "frames",
               "cleanup", "exited", "killed", "crashed"}
    /\ ToSet(Lists) \subseteq Ids
    /\ client_count \in Nat
    /\ fd \in [Ids -> Fds \cup {None}]
    /\ subs \in [Ids -> [Patterns -> Nat]]
    /\ cur \in Nat /\ idx \in Nat
    /\ newfd \in Fds \cup {None}
    /\ exit_flag \in BOOLEAN
    /\ fdtab \in [Fds -> Conns \cup {None}]
    /\ \A k \in Conns : /\ DOMAIN conn[k] = DOMAIN Unused
                        /\ conn[k].id \in Ids \cup {None}
                        /\ ToSet(conn[k].inq) \cup ToSet(conn[k].sent) \subseteq Commands

(* handle_new_tcp_connection, the scan and the cleanup move clients        *)
(* between two lists, a counter and the descriptor table.  No id is listed *)
(* twice, client_count (by which pfds is allocated) is the length of the   *)
(* active list, just the active clients have a descriptor, it leads to the *)
(* connection that introduced itself with that id, and no descriptor is    *)
(* leaked.                                                                 *)
Registry ==
    Up =>
        /\ client_count = Len(clients)
        /\ Cardinality(ToSet(Lists)) = Len(Lists)
        /\ \A c \in Ids : fd[c] # None <=> Contains(clients, c)
        /\ \A i \in 1 .. Len(clients) :
              conn[ConnOf(At(i))].phase = "held" /\ conn[ConnOf(At(i))].id = At(i)
        /\ \A f \in Fds : fdtab[f] # None => f = newfd \/ \E c \in Ids : fd[c] = f

(* What the clients of id c asked for, over all their connections.         *)
Asked(c, p) ==
    LET did(op) == {x \in Conns \X (1 .. MaxCommands) :
                       /\ conn[x[1]].id = c /\ x[2] <= Len(conn[x[1]].applied)
                       /\ conn[x[1]].applied[x[2]] = [op |-> op, pat |-> p]}
    IN  Cardinality(did("sub")) - Cardinality(did("unsub"))

(* "client disconnected: keep subscriptions" (server.c): what a client     *)
(* holds is the balance of the commands carried out for its id on all its  *)
(* connections, none lost and none of another client's added.              *)
SubscriptionsKept == Up => \A c \in Ids, p \in Patterns : subs[c][p] = Asked(c, p)

InHand(k) == IF pc = "frames" /\ ConnOf(At(cur)) = k THEN buf ELSE << >>

(* The commands of a connection are carried out in the order sent, each    *)
(* once; the peer gets one acknowledgement for each, in that order; and as *)
(* long as the connection is held, none is missing, save the first ones    *)
(* that the recv of the id swallowed or put out of step with the framing.  *)
CommandsInOrder ==
    \A k \in Conns :
        LET due == SubSeq(conn[k].sent, conn[k].skipped + 1, Len(conn[k].sent))
        IN  /\ IsPrefix(conn[k].applied, due)
            /\ IsPrefix(conn[k].acked, conn[k].applied)
            /\ conn[k].peer = "open" => conn[k].acked = conn[k].applied
            /\ Up /\ conn[k].phase = "held"
                  => due = conn[k].applied \o InHand(k) \o conn[k].inq

(* A datagram reaches each connected subscriber of a matching pattern once *)
(* and no other connection: not one that has the descriptor an inactive    *)
(* client had before, nor one that another client with its id left.        *)
PublishedToSubscribers ==
    [][pc = "udp" /\ pfds.udp /\ pc' = "tcp" =>
          \A k \in Conns :
              conn[k].peer = "open" =>
                 conn'[k].news = conn[k].news +
                     IF conn[k].phase = "held" /\ conn[k].id \in Subscribers(Head(udpq))
                     THEN 1 ELSE 0]_vars

(* The scan walks the clients beside the array that poll filled before the *)
(* accept.  A client accepted in between shifts the two against each       *)
(* other by one entry, and removals shift them no further.                 *)
Beside(shift) ==
    pc \in {"scan", "recv", "frames"} =>
        \A i \in cur .. Len(clients) :
            LET e == idx + (i - cur) - shift
            IN  IF e = 0
                THEN \A j \in DOMAIN pfds.client : pfds.client[j].fd # fd[At(i)]
                ELSE e \in DOMAIN pfds.client /\ pfds.client[e].fd = fd[At(i)]

ShiftedByOne == Beside(0) \/ Beside(1)

(* README.md: send_all returns "-1 on error (send failure)"; a subscriber  *)
(* that left does not take the server with it.                             *)
ServerSurvives == pc # "killed"

Promise == INSTANCE Sessions WITH online <- {c \in Ids : fd[c] # None},
                                  held <- subs, up <- Up

(* The server implements the sessions: reconnecting "reactivates that       *)
(* client (preserving subscriptions)" (README.md).                          *)
KeepsSessions == Promise!Spec

(* The operating system runs the server as long as it can take a step, and *)
(* subscriber.c sends its id as soon as it is connected.                   *)
Fairness == WF_vars(ServerNext) /\ \A k \in Conns : WF_vars(SendId(k))

FairSpec == Spec /\ Fairness
FairChurnSpec == ChurnSpec /\ Fairness

(* The server waits in recv for a client that poll did not report.         *)
Stuck == pc = "recv" /\ ~Readable(ConnOf(At(cur)))

(* Lines wait in the buffer of stdio, where poll does not see them.        *)
ReadAhead == stdio # << >> /\ pipe = << >>

(* README.md: "On exit from stdin, breaks loop".  Once everything is       *)
(* typed, exit last, the loop ends, or the server is stuck, or fgets has   *)
(* read the line ahead together with an earlier one.                       *)
ExitObeyed == typed = Len(Input) ~> (~Up \/ Stuck \/ ReadAhead)

(* What the client of connection k sent waits in the kernel.               *)
Waits(k) == conn[k].phase = "held" /\ conn[k].inq # << >>

(* It is received, unless its connection, or the server, ends or is stuck. *)
Served(k) == conn[k].inq = << >> \/ conn[k].phase = "closed" \/ ~Up \/ Stuck

ScanBegins == pc = "scan" /\ idx = 1
Newcomer == Len(clients) > Len(pfds.client)

(* From some time on, every round accepts a client.                        *)
NeverARest == []<>ScanBegins /\ <>[](ScanBegins => Newcomer)

(* No client is starved, unless newcomers are accepted in each and every   *)
(* round: it is enough that a round without one comes now and then.        *)
CommandsReceived == (\A k \in Conns : Waits(k) ~> Served(k)) \/ NeverARest

(* README.md: poll() waits for "Data from each connected TCP client", and  *)
(* "on TCP client data" client_handle_data is called: no client that sent  *)
(* commands is left unheard for ever, whoever else comes and goes.         *)
NoneStarved == \A k \in Conns : Waits(k) ~> Served(k)
=============================================================================
