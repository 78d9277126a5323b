---------------------------- MODULE ServerProofs ----------------------------
(***************************************************************************)
(* Proofs about module Server, for any number of connections, descriptors, *)
(* commands and datagrams, and with failing allocations.                   *)
(*                                                                         *)
(* ServerInv ties the two lists of clients, the descriptor table, the      *)
(* backlog and the position of the scan together, WalkInv the list of      *)
(* clients and the array of poll.  The other proofs about the server rest  *)
(* on ServerInv: ServerHistoryProofs on what happened on each connection,  *)
(* and ServerSessionProofs on what the server promises its clients.        *)
(***************************************************************************)
EXTENDS Server, SequenceLemmas, FiniteSetTheorems, FunctionTheorems

-----------------------------------------------------------------------------
(* The inductive invariant of the lists, descriptors and connections *)

Types ==
    /\ pc \in {"poll", "stdin", "udp", "tcp", "recv_id", "scan", "recv", "frames",
               "cleanup", "exited", "killed", "crashed"}
    /\ clients \in Seq(Ids) /\ inactive \in Seq(Ids)
    /\ client_count \in Nat
    /\ fd \in [Ids -> Fds \cup {None}]
    /\ subs \in [Ids -> [Patterns -> Nat]]
    /\ cur \in Nat \ {0} /\ idx \in Nat \ {0}
    /\ buf \in Seq(Commands)
    /\ newfd \in Fds \cup {None}
    /\ exit_flag \in BOOLEAN
    /\ fdtab \in [Fds -> Conns \cup {None}]
    /\ conn \in [Conns -> Connection]
    /\ backlog \in Seq(Conns)

(* Each client object is in one list, at one place.                        *)
ListedOnce ==
    /\ \A i, j \in 1 .. Len(clients) : clients[i] = clients[j] => i = j
    /\ \A i, j \in 1 .. Len(inactive) : inactive[i] = inactive[j] => i = j
    /\ \A i \in 1 .. Len(clients), j \in 1 .. Len(inactive) : clients[i] # inactive[j]

(* Just the active clients have a descriptor, another one than the socket  *)
(* just accepted, and it leads to the connection of that client.           *)
ClientFdsOpen ==
    \A c \in Ids :
        /\ fd[c] # None <=> Contains(clients, c)
        /\ fd[c] # None => /\ fd[c] # newfd
                           /\ fdtab[fd[c]] # None
                           /\ conn[fdtab[fd[c]]].id = c

(* The descriptor table holds the connections of the server, each once,    *)
(* and each for a client or for the socket just accepted.                  *)
FdTable ==
    /\ \A f \in Fds : fdtab[f] # None =>
           /\ conn[fdtab[f]].phase = "held"
           /\ f = newfd \/ \E c \in Ids : fd[c] = f
    /\ \A f, g \in Fds : fdtab[f] # None /\ fdtab[f] = fdtab[g] => f = g
    /\ \A k \in Conns : conn[k].phase = "held" => \E f \in Fds : fdtab[f] = k

(* The connections that wait to be accepted wait there once, and poll saw  *)
(* one only if there is one; newfd lives as long as its handler.           *)
Arrivals ==
    /\ \A i \in 1 .. Len(backlog) : conn[backlog[i]].phase = "backlog"
    /\ \A i, j \in 1 .. Len(backlog) : backlog[i] = backlog[j] => i = j
    /\ pc \in {"stdin", "udp", "tcp"} /\ pfds.tcp => backlog # << >>
    /\ newfd # None <=> pc = "recv_id"
    /\ newfd # None => fdtab[newfd] # None

(* The scan is at a client while it serves one, and only then there are    *)
(* frames in hand.                                                         *)
Scanning ==
    /\ client_count = Len(clients)
    /\ pc \in {"recv", "frames"} => cur \in 1 .. Len(clients)
    /\ pc # "frames" => buf = << >>

(* A connection has an id, which is read after accept().                   *)
Introduced ==
    \A k \in Conns :
        /\ conn[k].phase \in {"unused", "backlog"} => conn[k].idState # "read"
        /\ conn[k].phase # "unused" => conn[k].id \in Ids

Registered == /\ ListedOnce /\ ClientFdsOpen /\ FdTable /\ Arrivals
              /\ Scanning /\ Introduced

ServerInv == Types /\ (Up => Registered)

-----------------------------------------------------------------------------
(* Descriptors and records *)

(* None is no descriptor, and no connection.                               *)
LEMMA NoneIsNone == None \notin Fds /\ None \notin Conns
  BY ServerAssumption DEF None, Fds, Conns

(* A connection keeps its place: its phase and the id of its peer.         *)
SamePlace(r, s) == r.phase = s.phase /\ r.id = s.id

(* Whatever send() does, it is done to the record of the connection, or to *)
(* that record with the data received.                                     *)
LEMMA SentIsEither ==
    ASSUME NEW r \in Connection, NEW got \in Connection, NEW s \in Sent(r, got)
    PROVE  \/ s = got /\ r.peer = "open"
           \/ s = r /\ r.peer = "fin"
           \/ s = [r EXCEPT !.peer = "dead"] /\ r.peer # "open"
  BY DEF Sent

(* ... and the place of the connection stays.                              *)
LEMMA SentType ==
    ASSUME NEW r \in Connection, NEW got \in Connection, NEW s \in Sent(r, got),
           SamePlace(got, r), got.idState = r.idState
    PROVE  s \in Connection /\ SamePlace(s, r) /\ s.idState = r.idState
<1>1. [r EXCEPT !.peer = "dead"] \in Connection
  BY DEF Connection
<1>2. SamePlace([r EXCEPT !.peer = "dead"], r)
      /\ [r EXCEPT !.peer = "dead"].idState = r.idState
  BY DEF Connection, SamePlace
<1> QED BY <1>1, <1>2, SentIsEither DEF SamePlace

-----------------------------------------------------------------------------
(* What each step does to the connections *)

(* Every connection keeps its place, and none that waits is read.          *)
KeepsPlaces(old, new) ==
    \A k \in Conns : /\ SamePlace(new[k], old[k])
                     /\ new[k].idState = "read" => old[k].idState = "read"

(* The client being served is active, on an open connection of its own.    *)
LEMMA AtCur ==
    ASSUME ServerInv, pc \in {"recv", "frames"}
    PROVE  /\ cur \in 1 .. Len(clients)
           /\ At(cur) \in Ids /\ fd[At(cur)] \in Fds
           /\ ConnOf(At(cur)) \in Conns
           /\ conn[ConnOf(At(cur))] \in Connection
           /\ conn[ConnOf(At(cur))].phase = "held"
           /\ conn[ConnOf(At(cur))].id = At(cur)
<1>1. Types /\ Registered
  BY DEF ServerInv, Up
<1>2. cur \in 1 .. Len(clients)
  BY <1>1 DEF Registered, Scanning
<1>3. At(cur) \in Ids /\ Contains(clients, At(cur))
  BY <1>1, <1>2 DEF Types, At, Contains
<1>4. fd[At(cur)] \in Fds
  BY <1>1, <1>3 DEF Types, Registered, ClientFdsOpen
<1>5. ConnOf(At(cur)) \in Conns /\ conn[ConnOf(At(cur))].id = At(cur)
  BY <1>1, <1>3, <1>4, NoneIsNone DEF Types, Registered, ClientFdsOpen, ConnOf
<1>6. conn[ConnOf(At(cur))].phase = "held"
  BY <1>1, <1>4, <1>5, NoneIsNone DEF Types, Registered, FdTable, ConnOf
<1> QED BY <1>1, <1>2, <1>3, <1>4, <1>5, <1>6 DEF Types

(* Peers write and leave where they are.                                   *)
LEMMA PeersKeepPlaces ==
    ASSUME Types, NEW k \in Conns,
           \/ SendId(k)
           \/ \E m \in Commands : SendCommand(k, m)
           \/ \E how \in {"fin", "rst"} : Leave(k, how)
    PROVE  conn' \in [Conns -> Connection] /\ KeepsPlaces(conn, conn')
<1>1. conn[k] \in Connection
  BY DEF Types
<1>2. ASSUME NEW r \in Connection, conn' = [conn EXCEPT ![k] = r], SamePlace(r, conn[k]),
             r.idState = "read" => conn[k].idState = "read"
      PROVE  conn' \in [Conns -> Connection] /\ KeepsPlaces(conn, conn')
  BY <1>2 DEF Types, KeepsPlaces, SamePlace
<1>3. CASE SendId(k)
  <2> DEFINE r == [conn[k] EXCEPT !.idState = "queued"]
  <2>1. r \in Connection /\ SamePlace(r, conn[k]) /\ r.idState = "queued"
    BY <1>1 DEF Connection, SamePlace
  <2>2. conn' = [conn EXCEPT ![k] = r]
    BY <1>3 DEF SendId
  <2> QED BY <1>2, <2>1, <2>2
<1>4. ASSUME NEW m \in Commands, SendCommand(k, m)
      PROVE  conn' \in [Conns -> Connection] /\ KeepsPlaces(conn, conn')
  <2>1. Append(conn[k].inq, m) \in Seq(Commands) /\ Append(conn[k].sent, m) \in Seq(Commands)
    BY <1>1 DEF Connection
  <2> DEFINE r == [conn[k] EXCEPT !.inq = Append(@, m), !.sent = Append(@, m)]
  <2>2. r \in Connection /\ SamePlace(r, conn[k]) /\ r.idState = conn[k].idState
    BY <1>1, <2>1 DEF Connection, SamePlace
  <2>3. conn' = [conn EXCEPT ![k] = r]
    BY <1>4 DEF SendCommand
  <2> QED BY <1>2, <2>2, <2>3
<1>5. ASSUME NEW how \in {"fin", "rst"}, Leave(k, how)
      PROVE  conn' \in [Conns -> Connection] /\ KeepsPlaces(conn, conn')
  <2> DEFINE r == [conn[k] EXCEPT !.peer = how]
  <2>1. r \in Connection /\ SamePlace(r, conn[k]) /\ r.idState = conn[k].idState
    BY <1>1 DEF Connection, SamePlace
  <2>2. conn' = [conn EXCEPT ![k] = r]
    BY <1>5 DEF Leave
  <2> QED BY <1>2, <2>1, <2>2
<1> QED BY <1>3, <1>4, <1>5

(* A publication changes no connection but by what its peer receives.      *)
LEMMA PublishKeepsPlaces ==
    ASSUME Types, NEW t, Publish(t)
    PROVE  conn' \in [Conns -> Connection] /\ KeepsPlaces(conn, conn')
<1> DEFINE more(k) == [conn[k] EXCEPT !.news = @ + 1]
           kept(k) == /\ conn'[k] \in Connection /\ SamePlace(conn'[k], conn[k])
                      /\ conn'[k].idState = conn[k].idState
<1>1. ASSUME NEW k \in Conns
      PROVE  /\ conn[k] \in Connection /\ more(k) \in Connection
             /\ SamePlace(more(k), conn[k]) /\ more(k).idState = conn[k].idState
  <2>1. conn[k] \in Connection /\ conn[k].news + 1 \in Nat
    BY DEF Types, Connection
  <2> QED BY <2>1 DEF Connection, SamePlace
<1>2. conn' = [k \in Conns |-> conn'[k]]
  BY DEF Publish
<1>3. ASSUME NEW k \in Conns PROVE kept(k)
  <2>1. conn'[k] \in {conn[k], more(k)} \cup Sent(conn[k], more(k))
    BY DEF Publish
  <2> HIDE DEF more
  <2> QED BY <1>1, <2>1, SentType DEF SamePlace
<1> QED BY <1>2, <1>3 DEF KeepsPlaces

(* Handling a frame changes the record of the client's connection, which   *)
(* stays where it is until the client is made inactive.                    *)
LEMMA HandleFrameEither ==
    ASSUME ServerInv, HandleFrame
    PROVE  LET k == ConnOf(At(cur))
           IN  \E r \in Connection :
                  /\ SamePlace(r, conn[k]) /\ r.idState = conn[k].idState
                  /\ \/ /\ conn' = [conn EXCEPT ![k] = r]
                        /\ buf' \in {buf, Tail(buf)} /\ pc' \in {"frames", "killed"}
                        /\ pc' = pc \/ pc' = "killed"
                        /\ UNCHANGED <<clients, inactive, client_count, fd, fdtab, cur, idx>>
                     \/ Deactivate([conn EXCEPT ![k] = r])
<1> DEFINE k == ConnOf(At(cur))
           m == Head(buf)
           did == [conn[k] EXCEPT !.applied = Append(@, m)]
           acked == [did EXCEPT !.acked = Append(@, m)]
<1>1. pc = "frames" /\ buf # << >> /\ k \in Conns /\ conn[k] \in Connection
  BY AtCur DEF HandleFrame
<1>2. m \in Commands
  BY <1>1, HeadTailProperties DEF ServerInv, Types
<1>3. did \in Connection /\ SamePlace(did, conn[k]) /\ did.idState = conn[k].idState
      /\ did.peer = conn[k].peer
  <2>1. Append(conn[k].applied, m) \in Seq(Commands)
    BY <1>1, <1>2 DEF Connection
  <2> HIDE DEF k, m
  <2> QED BY <1>1, <2>1 DEF Connection, SamePlace
<1>4. acked \in Connection /\ SamePlace(acked, did) /\ acked.idState = did.idState
  <2>1. Append(did.acked, m) \in Seq(Commands)
    BY <1>2, <1>3 DEF Connection
  <2> HIDE DEF k, m, did
  <2> QED BY <1>3, <2>1 DEF Connection, SamePlace
<1>5. \A r \in Sent(did, acked) :
         r \in Connection /\ SamePlace(r, conn[k]) /\ r.idState = conn[k].idState
  <2> HIDE DEF k, did, acked
  <2> QED BY <1>3, <1>4, SentType DEF SamePlace
<1>6. [conn EXCEPT ![k] = conn[k]] = conn
  BY <1>1 DEF ServerInv, Types
<1>7. SamePlace(conn[k], conn[k])
  BY DEF SamePlace
<1>8. \/ \E r \in Sent(did, acked) :
            LET conn1 == [conn EXCEPT ![k] = r]
            IN  \/ /\ conn' = conn1 /\ buf' = Tail(buf)
                   /\ UNCHANGED <<pc, clients, inactive, client_count, fd, fdtab, cur, idx>>
                \/ Deactivate(conn1)
      \/ /\ pc' = "killed" /\ conn' = [conn EXCEPT ![k] = did]
         /\ UNCHANGED <<buf, clients, inactive, client_count, fd, fdtab, cur, idx>>
      \/ Deactivate(conn)
  BY DEF HandleFrame
<1> HIDE DEF k, m, did, acked
<1>9. CASE \E r \in Sent(did, acked) :
            LET conn1 == [conn EXCEPT ![k] = r]
            IN  \/ /\ conn' = conn1 /\ buf' = Tail(buf)
                   /\ UNCHANGED <<pc, clients, inactive, client_count, fd, fdtab, cur, idx>>
                \/ Deactivate(conn1)
  BY <1>1, <1>5, <1>9 DEF k
<1>10. CASE /\ pc' = "killed" /\ conn' = [conn EXCEPT ![k] = did]
            /\ UNCHANGED <<buf, clients, inactive, client_count, fd, fdtab, cur, idx>>
  BY <1>3, <1>10 DEF k
<1>11. CASE Deactivate(conn)
  BY <1>1, <1>6, <1>7, <1>11 DEF k
<1> QED BY <1>8, <1>9, <1>10, <1>11

(* What the recv of client_handle_data leaves of the record.               *)
LEMMA TakenType ==
    ASSUME NEW r \in Connection, NEW n \in 1 .. Len(r.inq), NEW lost \in 0 .. n,
           NEW part \in BOOLEAN
    PROVE  /\ Taken(r, n, lost, part) \in Connection
           /\ SamePlace(Taken(r, n, lost, part), r)
           /\ Taken(r, n, lost, part).idState = r.idState
           /\ SubSeq(r.inq, lost + 1, n) \in Seq(Commands)
<1>1. r.inq \in Seq(Commands) /\ Len(r.inq) \in Nat /\ r.skipped + lost \in Nat
  BY LenProperties DEF Connection
<1>2. /\ SubSeq(r.inq, n + 1, Len(r.inq)) \in Seq(Commands)
      /\ SubSeq(r.inq, lost + 1, n) \in Seq(Commands)
  BY <1>1, PieceOf
<1> QED BY <1>1, <1>2 DEF Taken, Connection, SamePlace

(* So does receiving.                                                      *)
LEMMA ReceiveEither ==
    ASSUME ServerInv, Receive
    PROVE  LET k == ConnOf(At(cur))
           IN  \E r \in Connection :
                  /\ SamePlace(r, conn[k]) /\ r.idState = conn[k].idState
                  /\ \/ /\ conn' = [conn EXCEPT ![k] = r]
                        /\ buf' \in Seq(Commands) /\ pc' = "frames"
                        /\ UNCHANGED <<clients, inactive, client_count, fd, fdtab, cur, idx>>
                     \/ Deactivate([conn EXCEPT ![k] = r])
<1> DEFINE k == ConnOf(At(cur))
           old == conn[k]
<1>1. pc = "recv" /\ k \in Conns /\ old \in Connection
  BY AtCur DEF Receive
<1>2. ASSUME NEW n \in 1 .. Len(old.inq),
             \/ \E x \in Losses(old, n) :
                   /\ buf' = SubSeq(old.inq, x.lost + 1, n)
                   /\ conn' = [conn EXCEPT ![k] = Taken(old, n, x.lost, x.part)]
                   /\ pc' = "frames"
                   /\ UNCHANGED <<clients, inactive, client_count, fd, fdtab, cur, idx>>
             \/ Deactivate([conn EXCEPT ![k] = Taken(old, n, n, TRUE)])
      PROVE  \E r \in Connection :
                  /\ SamePlace(r, old) /\ r.idState = old.idState
                  /\ \/ /\ conn' = [conn EXCEPT ![k] = r]
                        /\ buf' \in Seq(Commands) /\ pc' = "frames"
                        /\ UNCHANGED <<clients, inactive, client_count, fd, fdtab, cur, idx>>
                     \/ Deactivate([conn EXCEPT ![k] = r])
  <2>1. n \in 0 .. n /\ TRUE \in BOOLEAN
    OBVIOUS
  <2>2. \A x \in Losses(old, n) : x.lost \in 0 .. n /\ x.part \in BOOLEAN
    BY DEF Losses
  <2> HIDE DEF k, old
  <2> QED BY <1>1, <1>2, <2>1, <2>2, TakenType
<1>3. CASE Deactivate(conn)
  <2> HIDE DEF k
  <2>1. [conn EXCEPT ![k] = conn[k]] = conn
    BY <1>1 DEF ServerInv, Types
  <2> QED BY <1>1, <1>3, <2>1 DEF k, old, SamePlace
<1>4. \/ Deactivate(conn)
      \/ \E n \in 1 .. Len(old.inq) :
             \/ \E x \in Losses(old, n) :
                   /\ buf' = SubSeq(old.inq, x.lost + 1, n)
                   /\ conn' = [conn EXCEPT ![k] = Taken(old, n, x.lost, x.part)]
                   /\ pc' = "frames"
                   /\ UNCHANGED <<clients, inactive, client_count, fd, fdtab, cur, idx>>
             \/ Deactivate([conn EXCEPT ![k] = Taken(old, n, n, TRUE)])
  BY DEF Receive
<1> QED BY <1>2, <1>3, <1>4

-----------------------------------------------------------------------------
(* The steps preserve ServerInv *)

LEMMA InitServerInv == Init => ServerInv
<1> SUFFICES ASSUME Init PROVE ServerInv
  OBVIOUS
<1>1. Unused \in Connection
  BY DEF Unused, Connection
<1>2. Types
  <2>1. << >> \in Seq(Ids) /\ << >> \in Seq(Commands) /\ << >> \in Seq(Conns)
    OBVIOUS
  <2>2. /\ fd \in [Ids -> Fds \cup {None}] /\ fdtab \in [Fds -> Conns \cup {None}]
        /\ subs \in [Ids -> [Patterns -> Nat]]
    BY DEF Init
  <2>3. conn \in [Conns -> Connection]
    BY <1>1 DEF Init
  <2>4. cur \in Nat \ {0} /\ idx \in Nat \ {0} /\ client_count \in Nat
    BY DEF Init
  <2>5. newfd \in Fds \cup {None} /\ exit_flag \in BOOLEAN /\ pc = "poll"
    BY DEF Init
  <2>6. clients = << >> /\ inactive = << >> /\ buf = << >> /\ backlog = << >>
    BY DEF Init
  <2> QED BY <2>1, <2>2, <2>3, <2>4, <2>5, <2>6 DEF Types
<1>3. ListedOnce /\ Scanning /\ Arrivals
  BY DEF Init, ListedOnce, Scanning, Arrivals
<1>4. \A k \in Conns : /\ conn[k].phase = "unused" /\ conn[k].idState = "unsent"
  BY DEF Init, Unused
<1>5. ClientFdsOpen /\ FdTable /\ Introduced
  BY <1>4 DEF Init, ClientFdsOpen, FdTable, Introduced, Contains
<1> QED BY <1>2, <1>3, <1>5 DEF ServerInv, Registered

(* While the lists and the descriptors stay, and the connections keep their *)
(* places, the clients stay registered.                                    *)
LEMMA PlacesKept ==
    ASSUME ServerInv, Registered, conn' \in [Conns -> Connection],
           KeepsPlaces(conn, conn'),
           UNCHANGED <<clients, inactive, fd, fdtab, newfd, backlog>>
    PROVE  /\ ListedOnce' /\ ClientFdsOpen' /\ FdTable' /\ Introduced'
           /\ \A i \in 1 .. Len(backlog') : conn'[backlog'[i]].phase = "backlog"
           /\ \A i, j \in 1 .. Len(backlog') : backlog'[i] = backlog'[j] => i = j
<1>0. Types
  BY DEF ServerInv
<1>1. \A k \in Conns : /\ conn'[k].phase = conn[k].phase /\ conn'[k].id = conn[k].id
                       /\ conn'[k].idState = "read" => conn[k].idState = "read"
  BY DEF KeepsPlaces, SamePlace
<1>2. ListedOnce'
  BY DEF Registered, ListedOnce
<1>3. ClientFdsOpen'
  <2>1. ASSUME NEW c \in Ids, fd[c] # None, fdtab[fd[c]] # None PROVE fdtab[fd[c]] \in Conns
    BY <1>0, <2>1 DEF Types
  <2> QED BY <1>1, <2>1 DEF Registered, ClientFdsOpen, Contains
<1>4. FdTable'
  <2>1. ASSUME NEW f \in Fds, fdtab[f] # None PROVE fdtab[f] \in Conns
    BY <1>0, <2>1 DEF Types
  <2> QED BY <1>1, <2>1 DEF Registered, FdTable
<1>5. Introduced'
  BY <1>1 DEF Registered, Introduced
<1>6. \A i \in 1 .. Len(backlog') : conn'[backlog'[i]].phase = "backlog"
  <2>1. \A i \in 1 .. Len(backlog) : backlog[i] \in Conns
    BY <1>0 DEF Types
  <2> QED BY <1>1, <2>1 DEF Registered, Arrivals
<1> QED BY <1>2, <1>3, <1>4, <1>5, <1>6 DEF Registered, Arrivals

(* The peers: to connect is to join the end of the backlog.                *)
LEMMA ConnectInv ==
    ASSUME ServerInv, NEW k \in Conns, NEW c \in Ids, Connect(k, c)
    PROVE  ServerInv'
<1>1. Types /\ Registered /\ conn[k] \in Connection /\ conn[k].phase = "unused"
  BY DEF ServerInv, Connect, Types
<1>2. UNCHANGED server
  BY DEF Connect
<1> DEFINE r == [conn[k] EXCEPT !.phase = "backlog", !.id = c]
<1>3. /\ r \in Connection /\ r.phase = "backlog" /\ r.id = c
      /\ r.idState = conn[k].idState
  BY <1>1 DEF Connection
<1>4. conn' = [conn EXCEPT ![k] = r] /\ backlog' = Append(backlog, k)
  BY DEF Connect
<1> HIDE DEF r
<1>5. /\ conn' \in [Conns -> Connection] /\ conn'[k] = r
      /\ \A j \in Conns : j # k => conn'[j] = conn[j]
  BY <1>1, <1>3, <1>4 DEF Types
<1>6. /\ backlog' \in Seq(Conns) /\ Len(backlog') = Len(backlog) + 1
      /\ backlog'[Len(backlog) + 1] = k
      /\ \A i \in 1 .. Len(backlog) : backlog'[i] = backlog[i]
  BY <1>1, <1>4, AppendProperties DEF Types
<1>7. \A i \in 1 .. Len(backlog) : backlog[i] \in Conns /\ backlog[i] # k
  BY <1>1 DEF Types, Registered, Arrivals
<1>8. Types'
  BY <1>1, <1>2, <1>5, <1>6 DEF Types, server
<1>9. ListedOnce' /\ Scanning'
  BY <1>1, <1>2 DEF server, Registered, ListedOnce, Scanning
<1>10. \A f \in Fds : fdtab[f] # k
  BY <1>1, NoneIsNone DEF Registered, FdTable
<1>11. ClientFdsOpen' /\ FdTable'
  <2>1. \A d \in Ids : fd[d] # None => fd[d] \in Fds /\ fdtab[fd[d]] # k
    BY <1>1, <1>10 DEF Types
  <2>2. ClientFdsOpen'
    <3>1. UNCHANGED <<fd, fdtab, newfd, clients>>
      BY <1>2 DEF server
    <3>2. \A d \in Ids : Contains(clients, d)' = Contains(clients, d)
      BY <3>1 DEF Contains
    <3>3. ASSUME NEW d \in Ids, fd[d] # None
          PROVE  /\ fd[d] # newfd /\ fdtab[fd[d]] # None
                 /\ conn'[fdtab[fd[d]]].id = d
      <4>1. /\ fd[d] # newfd /\ fdtab[fd[d]] # None /\ conn[fdtab[fd[d]]].id = d
        BY <1>1, <3>3 DEF Registered, ClientFdsOpen
      <4>2. fdtab[fd[d]] \in Conns /\ fdtab[fd[d]] # k
        BY <1>1, <2>1, <3>3, <4>1 DEF Types
      <4> QED BY <1>5, <4>1, <4>2
    <3>4. \A d \in Ids : fd[d] # None <=> Contains(clients, d)
      BY <1>1 DEF Registered, ClientFdsOpen
    <3> QED BY <3>1, <3>2, <3>3, <3>4 DEF ClientFdsOpen
  <2>3. UNCHANGED <<fd, fdtab, newfd>> /\ \A f \in Fds : fdtab[f] \in Conns \cup {None}
    BY <1>1, <1>2 DEF server, Types
  <2>4. \A f \in Fds : fdtab[f] # None => conn'[fdtab[f]] = conn[fdtab[f]]
    BY <1>5, <1>10, <2>3
  <2>5. \A j \in Conns : conn'[j].phase = "held" => j # k /\ conn[j].phase = "held"
    BY <1>3, <1>5
  <2>6. FdTable'
    BY <1>1, <2>3, <2>4, <2>5 DEF Registered, FdTable
  <2> QED BY <2>2, <2>6
<1>12. Arrivals'
  <2>1. \A i \in 1 .. Len(backlog') : conn'[backlog'[i]].phase = "backlog"
    <3> TAKE i \in 1 .. Len(backlog')
    <3>1. Len(backlog) \in Nat
      BY <1>1 DEF Types
    <3>2. CASE i = Len(backlog) + 1
      BY <1>3, <1>5, <1>6, <3>2
    <3>3. CASE i \in 1 .. Len(backlog)
      BY <1>1, <1>5, <1>6, <1>7, <3>3 DEF Registered, Arrivals
    <3> QED BY <1>6, <3>1, <3>2, <3>3
  <2>2. \A i, j \in 1 .. Len(backlog') : backlog'[i] = backlog'[j] => i = j
    <3> TAKE i, j \in 1 .. Len(backlog')
    <3>1. Len(backlog) \in Nat
      BY <1>1 DEF Types
    <3>2. CASE i \in 1 .. Len(backlog) /\ j \in 1 .. Len(backlog)
      BY <1>1, <1>6, <3>2 DEF Registered, Arrivals
    <3>3. CASE i = Len(backlog) + 1 /\ j \in 1 .. Len(backlog)
      BY <1>6, <1>7, <3>3
    <3>4. CASE j = Len(backlog) + 1 /\ i \in 1 .. Len(backlog)
      BY <1>6, <1>7, <3>4
    <3> QED BY <1>6, <3>1, <3>2, <3>3, <3>4
  <2>3. backlog' # << >>
    BY <1>1, <1>6, EmptySeq DEF Types
  <2> QED BY <1>1, <1>2, <2>1, <2>2, <2>3 DEF Registered, Arrivals, server
<1>13. Introduced'
  BY <1>1, <1>3, <1>5 DEF Registered, Introduced
<1> QED BY <1>8, <1>9, <1>11, <1>12, <1>13 DEF ServerInv, Registered

(* The rest of what peers, publishers and the one at the keyboard do.      *)
LEMMA WorldInv == ASSUME ServerInv, World PROVE ServerInv'
<1>1. Types /\ Registered /\ UNCHANGED server
  BY DEF ServerInv, World, Connect, SendId, SendCommand, Leave, SendDatagram, Type
<1>2. CASE \E k \in Conns : \E c \in Ids : Connect(k, c)
  BY <1>2, ConnectInv
<1>3. ASSUME conn' \in [Conns -> Connection], KeepsPlaces(conn, conn'), UNCHANGED backlog
      PROVE  ServerInv'
  <2>1. Types'
    BY <1>1, <1>3 DEF server, Types
  <2>2. Scanning'
    BY <1>1, <1>3 DEF server, Registered, Scanning
  <2>3. Arrivals'
    BY <1>1, <1>3, PlacesKept DEF server, Registered, Arrivals
  <2> QED BY <1>1, <1>3, <2>1, <2>2, <2>3, PlacesKept DEF server, ServerInv, Registered
<1>4. CASE \E k \in Conns : \/ SendId(k)
                            \/ \E m \in Commands : SendCommand(k, m)
                            \/ \E how \in {"fin", "rst"} : Leave(k, how)
  BY <1>1, <1>3, <1>4, PeersKeepPlaces DEF SendId, SendCommand, Leave
<1>5. CASE (\E t \in Topics : SendDatagram(t)) \/ Type
  BY <1>1, <1>3, <1>5 DEF SendDatagram, Type, Types, KeepsPlaces, SamePlace
<1> QED BY <1>2, <1>4, <1>5 DEF World

(* accept(): the first connection of the backlog gets a descriptor that    *)
(* led nowhere.                                                            *)
LEMMA AcceptInv == ASSUME ServerInv, Accept PROVE ServerInv'
<1>1. Types /\ Registered /\ pc = "tcp" /\ newfd = None
  BY DEF ServerInv, Up, Accept, Registered, Arrivals
<1>2. CASE pc' = "scan" /\ UNCHANGED <<newfd, fdtab, conn, backlog>>
  <2>1. UNCHANGED <<clients, inactive, client_count, fd, subs, pfds, cur, idx, buf, exit_flag>>
    BY DEF Accept
  <2>2. Types'
    BY <1>1, <1>2, <2>1 DEF Types
  <2>3. Scanning' /\ Arrivals'
    BY <1>1, <1>2, <2>1 DEF Registered, Scanning, Arrivals
  <2>4. KeepsPlaces(conn, conn')
    BY <1>2 DEF KeepsPlaces, SamePlace
  <2> QED BY <1>1, <1>2, <2>1, <2>2, <2>3, <2>4, PlacesKept DEF ServerInv, Registered, Types
<1>3. CASE /\ pfds.tcp /\ FreeFds # {}
           /\ newfd' = Min(FreeFds)
           /\ fdtab' = [fdtab EXCEPT ![newfd'] = Head(backlog)]
           /\ conn' = [conn EXCEPT ![Head(backlog)].phase = "held"]
           /\ backlog' = Tail(backlog)
           /\ pc' = "recv_id"
  <2> DEFINE k == Head(backlog)
             r == [conn[k] EXCEPT !.phase = "held"]
  <2>0. UNCHANGED <<clients, inactive, client_count, fd, subs, pfds, cur, idx, buf, exit_flag>>
    BY DEF Accept
  <2>1. newfd' \in Fds /\ fdtab[newfd'] = None
    <3>1. FreeFds \in SUBSET Nat
      BY DEF FreeFds, Fds
    <3> QED BY <1>3, <3>1, MinIn DEF FreeFds
  <2>2. backlog # << >> /\ Len(backlog) \in Nat \ {0}
    BY <1>1, <1>3, EmptySeq DEF Registered, Arrivals, Types
  <2>3. k = backlog[1] /\ k \in Conns
    BY <1>1, <2>2 DEF Types
  <2>4. conn[k].phase = "backlog" /\ conn[k] \in Connection
    BY <1>1, <2>2, <2>3 DEF Types, Registered, Arrivals
  <2>5. /\ backlog' \in Seq(Conns) /\ Len(backlog') = Len(backlog) - 1
        /\ \A i \in 1 .. Len(backlog') : backlog'[i] = backlog[i + 1]
    BY <1>1, <1>3, <2>2, HeadTailProperties DEF Types
  <2>6. r \in Connection /\ r.phase = "held" /\ r.id = conn[k].id
    BY <2>4 DEF Connection
  <2>7. conn' = [conn EXCEPT ![k] = r] /\ fdtab' = [fdtab EXCEPT ![newfd'] = k]
    BY <1>3
  <2> HIDE DEF k, r
  <2>8. /\ conn' \in [Conns -> Connection] /\ conn'[k] = r
        /\ \A j \in Conns : j # k => conn'[j] = conn[j]
    BY <1>1, <2>3, <2>6, <2>7 DEF Types
  <2>9. /\ fdtab' \in [Fds -> Conns \cup {None}] /\ fdtab'[newfd'] = k
        /\ \A f \in Fds : f # newfd' => fdtab'[f] = fdtab[f]
    BY <1>1, <2>1, <2>3, <2>7 DEF Types
  <2>10. Types'
    BY <1>1, <1>3, <2>0, <2>1, <2>5, <2>8, <2>9 DEF Types
  <2>11. ListedOnce' /\ Scanning'
    BY <1>1, <1>3, <2>0 DEF Registered, ListedOnce, Scanning
  <2>12. \A f \in Fds : fdtab[f] # k
    BY <1>1, <2>3, <2>4, NoneIsNone DEF Registered, FdTable
  <2>13. ClientFdsOpen'
    <3>1. ASSUME NEW c \in Ids, fd[c] # None
          PROVE  /\ fd[c] \in Fds /\ fd[c] # newfd' /\ fdtab[fd[c]] # None
                 /\ fdtab[fd[c]] \in Conns /\ fdtab[fd[c]] # k
      BY <1>1, <2>1, <2>12, <3>1 DEF Types, Registered, ClientFdsOpen
    <3> QED BY <1>1, <2>0, <2>8, <2>9, <3>1 DEF Registered, ClientFdsOpen, Contains
  <2>14. FdTable'
    <3>1. \A f \in Fds : fdtab'[f] # None =>
              /\ conn'[fdtab'[f]].phase = "held"
              /\ f = newfd' \/ \E c \in Ids : fd'[c] = f
      <4> TAKE f \in Fds
      <4> HAVE fdtab'[f] # None
      <4>1. CASE f = newfd'
        BY <2>6, <2>8, <2>9, <4>1
      <4>2. CASE f # newfd'
        <5>1. fdtab'[f] = fdtab[f] /\ fdtab[f] \in Conns /\ fdtab[f] # k
          BY <1>1, <2>9, <2>12, <4>2 DEF Types
        <5>2. f # newfd
          BY <1>1, NoneIsNone
        <5> QED BY <1>1, <2>0, <2>8, <5>1, <5>2, NoneIsNone DEF Registered, FdTable
      <4> QED BY <4>1, <4>2
    <3>2. \A f, g \in Fds : fdtab'[f] # None /\ fdtab'[f] = fdtab'[g] => f = g
      BY <1>1, <2>9, <2>12 DEF Registered, FdTable
    <3>3. \A j \in Conns : conn'[j].phase = "held" => \E f \in Fds : fdtab'[f] = j
      <4> TAKE j \in Conns
      <4> HAVE conn'[j].phase = "held"
      <4>1. CASE j = k
        BY <2>1, <2>9, <4>1
      <4>2. CASE j # k
        <5>1. PICK f \in Fds : fdtab[f] = j
          BY <1>1, <2>8, <4>2 DEF Registered, FdTable
        <5>2. f # newfd'
          BY <2>1, <5>1, NoneIsNone
        <5> QED BY <2>9, <5>1, <5>2
      <4> QED BY <4>1, <4>2
    <3> QED BY <3>1, <3>2, <3>3 DEF FdTable
  <2>15. \A i \in 1 .. Len(backlog') : /\ i + 1 \in 1 .. Len(backlog)
                                       /\ backlog[i + 1] \in Conns
                                       /\ backlog[i + 1] # k
    BY <1>1, <2>2, <2>3, <2>5 DEF Types, Registered, Arrivals
  <2>16. Arrivals'
    <3>1. \A i \in 1 .. Len(backlog') : conn'[backlog'[i]].phase = "backlog"
      BY <1>1, <2>5, <2>8, <2>15, SMTT(30) DEF Registered, Arrivals
    <3>2. \A i, j \in 1 .. Len(backlog') : backlog'[i] = backlog'[j] => i = j
      BY <1>1, <2>5, <2>15 DEF Registered, Arrivals
    <3>3. newfd' # None /\ fdtab'[newfd'] # None
      BY <2>1, <2>3, <2>9, NoneIsNone
    <3> QED BY <1>3, <3>1, <3>2, <3>3 DEF Arrivals
  <2>17. Introduced'
    BY <1>1, <2>4, <2>6, <2>8 DEF Registered, Introduced
  <2> QED BY <2>10, <2>11, <2>13, <2>14, <2>16, <2>17 DEF ServerInv, Registered
<1> QED BY <1>2, <1>3 DEF Accept

(* The socket just accepted leads to a connection that introduces itself,  *)
(* and no client has it.                                                   *)
LEMMA AtNew ==
    ASSUME ServerInv, pc = "recv_id"
    PROVE  /\ newfd \in Fds /\ fdtab[newfd] \in Conns
           /\ conn[fdtab[newfd]] \in Connection
           /\ conn[fdtab[newfd]].phase = "held" /\ conn[fdtab[newfd]].id \in Ids
           /\ \A c \in Ids : fd[c] # newfd
<1>1. Types /\ Registered
  BY DEF ServerInv, Up
<1>2. newfd \in Fds /\ newfd # None /\ fdtab[newfd] \in Conns
  BY <1>1 DEF Types, Registered, Arrivals
<1>3. conn[fdtab[newfd]].phase = "held"
  BY <1>1, <1>2, NoneIsNone DEF Registered, FdTable
<1>4. \A c \in Ids : fd[c] # newfd
  BY <1>1, <1>2 DEF Registered, ClientFdsOpen
<1> QED BY <1>1, <1>2, <1>3, <1>4 DEF Types, Registered, Introduced

(* What the recv of the id leaves of the record.                           *)
LEMMA IdReadType ==
    ASSUME NEW r \in Connection, NEW s \in IdRead(r)
    PROVE  s \in Connection /\ SamePlace(s, r)
<1>1. PICK x \in [whole : 0 .. MostWhole, part : BOOLEAN] :
          /\ x.whole <= Len(r.inq)
          /\ s = [r EXCEPT !.idState = "read", !.inq = SubSeq(@, x.whole + 1, Len(@)),
                           !.skipped = x.whole, !.garbled = x.part]
  BY DEF IdRead
<1>2. x.whole \in Nat /\ x.part \in BOOLEAN
  BY DEF MostWhole
<1>3. SubSeq(r.inq, x.whole + 1, Len(r.inq)) \in Seq(Commands)
  <2>1. r.inq \in Seq(Commands) /\ Len(r.inq) \in Nat
    BY LenProperties DEF Connection
  <2> QED BY <1>1, <1>2, <2>1, PieceOf
<1> QED BY <1>1, <1>2, <1>3 DEF Connection, SamePlace

(* A connection that is turned away leaves no trace in the tables.         *)
LEMMA CloseNewInv ==
    ASSUME ServerInv, pc = "recv_id", NEW r \in Connection,
           SamePlace(r, conn[fdtab[newfd]]), CloseNew(r), newfd' = None, pc' = "scan",
           UNCHANGED <<subs, pfds, cur, idx, buf, exit_flag, backlog>>
    PROVE  ServerInv'
<1> DEFINE k == fdtab[newfd]
           s == [r EXCEPT !.phase = "closed"]
<1>1. Types /\ Registered
  BY DEF ServerInv, Up
<1>2. /\ newfd \in Fds /\ k \in Conns /\ conn[k].phase = "held" /\ conn[k].id \in Ids
      /\ \A c \in Ids : fd[c] # newfd
  BY AtNew
<1>3. s \in Connection /\ s.phase = "closed" /\ s.id = conn[k].id
  BY DEF Connection, SamePlace
<1>4. conn' = [conn EXCEPT ![k] = s] /\ fdtab' = [fdtab EXCEPT ![newfd] = None]
      /\ UNCHANGED <<clients, inactive, client_count, fd>>
  BY DEF CloseNew
<1>5. \A f \in Fds : fdtab[f] = k => f = newfd
  BY <1>1, <1>2, NoneIsNone DEF Registered, FdTable
<1> HIDE DEF k, s
<1>6. /\ conn' \in [Conns -> Connection] /\ conn'[k] = s
      /\ \A j \in Conns : j # k => conn'[j] = conn[j]
  BY <1>1, <1>2, <1>3, <1>4 DEF Types
<1>7. /\ fdtab' \in [Fds -> Conns \cup {None}] /\ fdtab'[newfd] = None
      /\ \A f \in Fds : f # newfd => fdtab'[f] = fdtab[f]
  BY <1>1, <1>2, <1>4 DEF Types
<1>8. Types'
  BY <1>1, <1>4, <1>6, <1>7 DEF Types
<1>9. ListedOnce' /\ Scanning'
  BY <1>1, <1>4 DEF Registered, ListedOnce, Scanning
<1>10. ClientFdsOpen'
  <2>1. ASSUME NEW c \in Ids, fd[c] # None
        PROVE  /\ fd[c] \in Fds /\ fd[c] # newfd /\ fdtab[fd[c]] # None
               /\ fdtab[fd[c]] \in Conns /\ fdtab[fd[c]] # k
    BY <1>1, <1>2, <1>5, <2>1 DEF Types, Registered, ClientFdsOpen
  <2> QED BY <1>1, <1>4, <1>6, <1>7, <2>1 DEF Registered, ClientFdsOpen, Contains
<1>11. FdTable'
  <2>1. ASSUME NEW f \in Fds, fdtab'[f] # None
        PROVE  /\ f # newfd /\ fdtab'[f] = fdtab[f] /\ fdtab[f] \in Conns
               /\ fdtab[f] # None /\ fdtab[f] # k
    BY <1>1, <1>5, <1>7, <2>1 DEF Types
  <2>2. \A f \in Fds : fdtab'[f] # None =>
            /\ conn'[fdtab'[f]].phase = "held" /\ \E c \in Ids : fd'[c] = f
    BY <1>1, <1>4, <1>6, <2>1 DEF Registered, FdTable
  <2>3. \A f, g \in Fds : fdtab'[f] # None /\ fdtab'[f] = fdtab'[g] => f = g
    BY <1>1, <2>1 DEF Registered, FdTable
  <2>4. \A j \in Conns : conn'[j].phase = "held" => \E f \in Fds : fdtab'[f] = j
    <3> TAKE j \in Conns
    <3> HAVE conn'[j].phase = "held"
    <3>1. j # k /\ conn[j].phase = "held"
      BY <1>3, <1>6
    <3>2. PICK f \in Fds : fdtab[f] = j
      BY <1>1, <3>1 DEF Registered, FdTable
    <3>3. f # newfd
      BY <3>1, <3>2 DEF k
    <3> QED BY <1>7, <3>2, <3>3
  <2> QED BY <2>2, <2>3, <2>4 DEF FdTable
<1>12. Arrivals'
  <2>1. \A i \in 1 .. Len(backlog) : backlog[i] \in Conns /\ backlog[i] # k
    BY <1>1, <1>2 DEF Types, Registered, Arrivals
  <2>2. \A i \in 1 .. Len(backlog') : conn'[backlog'[i]].phase = "backlog"
    BY <1>1, <1>6, <2>1 DEF Registered, Arrivals
  <2> QED BY <1>1, <2>2 DEF Registered, Arrivals
<1>13. Introduced'
  BY <1>1, <1>2, <1>3, <1>6 DEF Registered, Introduced
<1> QED BY <1>8, <1>9, <1>10, <1>11, <1>12, <1>13 DEF ServerInv, Registered

(* A client becomes active: it was in no list, or leaves the inactive one. *)
LEMMA ActivateInv ==
    ASSUME ServerInv, pc = "recv_id", NEW r \in Connection,
           SamePlace(r, conn[fdtab[newfd]]),
           NEW c, c = conn[fdtab[newfd]].id, Activate(c, r),
           ~Contains(clients, c),
           \/ UNCHANGED inactive /\ ~Contains(inactive, c)
           \/ \E i \in 1 .. Len(inactive) :
                 inactive[i] = c /\ inactive' = RemoveAt(inactive, i),
           newfd' = None, pc' = "scan",
           UNCHANGED <<subs, pfds, cur, idx, buf, exit_flag, backlog>>
    PROVE  ServerInv'
<1> DEFINE k == fdtab[newfd]
<1>1. Types /\ Registered
  BY DEF ServerInv, Up
<1>2. /\ newfd \in Fds /\ k \in Conns /\ conn[k].phase = "held" /\ c \in Ids
      /\ \A d \in Ids : fd[d] # newfd
  BY AtNew
<1>3. /\ conn' = [conn EXCEPT ![k] = r] /\ fd' = [fd EXCEPT ![c] = newfd]
      /\ clients' = <<c>> \o clients /\ client_count' = client_count + 1
      /\ UNCHANGED fdtab
  BY DEF Activate
<1>4. r.phase = "held" /\ r.id = c
  BY <1>2 DEF SamePlace
<1>5. \A f \in Fds : fdtab[f] = k => f = newfd
  BY <1>1, <1>2, NoneIsNone DEF Registered, FdTable
<1> HIDE DEF k
<1>6. /\ conn' \in [Conns -> Connection] /\ conn'[k] = r
      /\ \A j \in Conns : j # k => conn'[j] = conn[j]
  BY <1>1, <1>2, <1>3 DEF Types
<1>7. /\ fd' \in [Ids -> Fds \cup {None}] /\ fd'[c] = newfd
      /\ \A d \in Ids : d # c => fd'[d] = fd[d]
  BY <1>1, <1>2, <1>3 DEF Types
<1>8. /\ clients' \in Seq(Ids) /\ Len(clients') = Len(clients) + 1
      /\ clients'[1] = c /\ \A i \in 1 .. Len(clients) : clients'[i + 1] = clients[i]
  BY <1>1, <1>2, <1>3, ConsProps DEF Types
<1>9. Len(clients) \in Nat /\ Len(inactive) \in Nat
  BY <1>1 DEF Types
<1>10. \A i \in 1 .. Len(clients') :
          \/ i = 1
          \/ i - 1 \in 1 .. Len(clients) /\ clients'[i] = clients[i - 1]
  <2> TAKE i \in 1 .. Len(clients')
  <2> SUFFICES ASSUME i # 1
               PROVE  i - 1 \in 1 .. Len(clients) /\ clients'[i] = clients[i - 1]
    OBVIOUS
  <2>1. i - 1 \in 1 .. Len(clients) /\ (i - 1) + 1 = i
    BY <1>8, <1>9
  <2> QED BY <1>8, <2>1
<1>11. /\ inactive' \in Seq(Ids)
       /\ \A i, j \in 1 .. Len(inactive') : inactive'[i] = inactive'[j] => i = j
       /\ \A i \in 1 .. Len(inactive') :
             /\ inactive'[i] # c
             /\ \E j \in 1 .. Len(inactive) : inactive'[i] = inactive[j]
  <2>1. CASE UNCHANGED inactive /\ ~Contains(inactive, c)
    BY <1>1, <2>1 DEF Types, Registered, ListedOnce, Contains
  <2>2. CASE \E i \in 1 .. Len(inactive) :
                inactive[i] = c /\ inactive' = RemoveAt(inactive, i)
    <3>1. PICK n \in 1 .. Len(inactive) :
             inactive[n] = c /\ inactive' = RemoveAt(inactive, n)
      BY <2>2
    <3>2. /\ inactive' \in Seq(Ids) /\ Len(inactive') = Len(inactive) - 1
          /\ \A j \in 1 .. Len(inactive) - 1 :
                inactive'[j] = IF j < n THEN inactive[j] ELSE inactive[j + 1]
      BY <1>1, <3>1, RemoveAtProps DEF Types
    <3> DEFINE old(j) == IF j < n THEN j ELSE j + 1
    <3>3. ASSUME NEW j \in 1 .. Len(inactive')
          PROVE  old(j) \in 1 .. Len(inactive) /\ old(j) # n /\ inactive'[j] = inactive[old(j)]
      <4>1. /\ j \in 1 .. Len(inactive) - 1
            /\ j \in 1 .. Len(inactive) /\ j + 1 \in 1 .. Len(inactive)
        BY <1>9, <3>2
      <4>2. CASE j < n
        <5>1. inactive'[j] = inactive[j]
          BY <3>2, <4>1, <4>2
        <5> QED BY <4>1, <4>2, <5>1
      <4>3. CASE ~(j < n)
        <5>1. inactive'[j] = inactive[j + 1]
          BY <3>2, <4>1, <4>3
        <5> QED BY <4>1, <4>3, <5>1
      <4> QED BY <4>2, <4>3
    <3>4. ASSUME NEW i \in 1 .. Len(inactive'), NEW j \in 1 .. Len(inactive'),
                 old(i) = old(j)
          PROVE  i = j
      <4>1. i \in Nat /\ j \in Nat
        BY <1>9, <3>2
      <4>2. CASE i < n
        BY <3>4, <4>1, <4>2
      <4>3. CASE ~(i < n)
        BY <3>4, <4>1, <4>3
      <4> QED BY <4>2, <4>3
    <3>5. ASSUME NEW i \in 1 .. Len(inactive'), NEW j \in 1 .. Len(inactive'),
                 inactive'[i] = inactive'[j]
          PROVE  i = j
      <4>1. /\ old(i) \in 1 .. Len(inactive) /\ inactive'[i] = inactive[old(i)]
            /\ old(j) \in 1 .. Len(inactive) /\ inactive'[j] = inactive[old(j)]
        BY <3>3
      <4> HIDE DEF old
      <4>2. old(i) = old(j)
        BY <1>1, <3>5, <4>1 DEF Registered, ListedOnce
      <4> QED BY <3>4, <4>2
    <3> HIDE DEF old
    <3>6. \A i \in 1 .. Len(inactive') : inactive'[i] # c
      BY <1>1, <3>1, <3>3, SMTT(30) DEF Registered, ListedOnce
    <3> QED BY <3>2, <3>3, <3>5, <3>6
  <2> QED BY <2>1, <2>2
<1>12. \A i \in 1 .. Len(clients) : clients[i] \in Ids /\ clients[i] # c
  BY <1>1 DEF Types, Contains
<1>13. ListedOnce'
  <2>1. ASSUME NEW i \in 1 .. Len(clients'), NEW j \in 1 .. Len(clients'),
               clients'[i] = clients'[j]
        PROVE  i = j
    <3>1. CASE i = 1 /\ j = 1
      BY <3>1
    <3>2. CASE i = 1 /\ j # 1
      BY <1>8, <1>10, <1>12, <2>1, <3>2
    <3>3. CASE j = 1 /\ i # 1
      BY <1>8, <1>10, <1>12, <2>1, <3>3
    <3>4. CASE i # 1 /\ j # 1
      <4>1. i - 1 = j - 1
        BY <1>1, <1>10, <2>1, <3>4 DEF Registered, ListedOnce
      <4> QED BY <1>8, <1>9, <4>1
    <3> QED BY <3>1, <3>2, <3>3, <3>4
  <2>2. ASSUME NEW i \in 1 .. Len(clients'), NEW j \in 1 .. Len(inactive')
        PROVE  clients'[i] # inactive'[j]
    <3>1. PICK n \in 1 .. Len(inactive) : inactive'[j] = inactive[n]
      BY <1>11
    <3>2. CASE i = 1
      BY <1>8, <1>11, <3>2
    <3>3. CASE i # 1
      BY <1>1, <1>10, <3>1, <3>3 DEF Registered, ListedOnce
    <3> QED BY <3>2, <3>3
  <2> QED BY <1>11, <2>1, <2>2 DEF ListedOnce
<1>14. \A d \in Ids : Contains(clients', d) <=> d = c \/ Contains(clients, d)
  <2>1. 1 \in 1 .. Len(clients') /\ \A i \in 1 .. Len(clients) : i + 1 \in 1 .. Len(clients')
    BY <1>8, <1>9
  <2> QED BY <1>8, <1>10, <2>1, SMTT(30) DEF Contains
<1>15. fd[c] = None
  BY <1>1, <1>2 DEF Registered, ClientFdsOpen
<1>16. ClientFdsOpen'
  <2>1. ASSUME NEW d \in Ids, d # c, fd[d] # None
        PROVE  /\ fd[d] \in Fds /\ fd[d] # newfd /\ fdtab[fd[d]] # None
               /\ fdtab[fd[d]] \in Conns /\ fdtab[fd[d]] # k
    BY <1>1, <1>2, <1>5, <2>1 DEF Types, Registered, ClientFdsOpen
  <2>2. \A d \in Ids : d # c =>
           /\ fd'[d] # None <=> Contains(clients', d)
           /\ fd'[d] # None => /\ fd'[d] # newfd'
                               /\ fdtab'[fd'[d]] # None
                               /\ conn'[fdtab'[fd'[d]]].id = d
    BY <1>1, <1>3, <1>6, <1>7, <1>14, <2>1 DEF Registered, ClientFdsOpen
  <2>3. /\ fd'[c] # None /\ Contains(clients', c) /\ fd'[c] # newfd'
        /\ fdtab'[fd'[c]] = k /\ k # None /\ conn'[k].id = c
    BY <1>2, <1>3, <1>4, <1>6, <1>7, <1>14, NoneIsNone DEF k
  <2> QED BY <2>2, <2>3 DEF ClientFdsOpen
<1>17. FdTable'
  <2>1. ASSUME NEW f \in Fds, fdtab[f] # None
        PROVE  fdtab[f] \in Conns /\ conn[fdtab[f]].phase = "held"
               /\ (f = newfd \/ \E d \in Ids : d # c /\ fd[d] = f)
    BY <1>1, <1>15, <2>1, NoneIsNone DEF Types, Registered, FdTable
  <2>2. \A f \in Fds : fdtab[f] # None => conn'[fdtab[f]].phase = "held"
    BY <1>4, <1>6, <2>1
  <2>3. \A f \in Fds : fdtab[f] # None => \E d \in Ids : fd'[d] = f
    BY <1>2, <1>7, <2>1
  <2>4. \A j \in Conns : conn'[j].phase = "held" => conn[j].phase = "held"
    BY <1>2, <1>6
  <2> QED BY <1>1, <1>3, <2>2, <2>3, <2>4 DEF Registered, FdTable
<1>18. Arrivals'
  <2>1. \A i \in 1 .. Len(backlog) : backlog[i] \in Conns /\ backlog[i] # k
    BY <1>1, <1>2 DEF Types, Registered, Arrivals
  <2>2. \A i \in 1 .. Len(backlog') : conn'[backlog'[i]].phase = "backlog"
    BY <1>1, <1>6, <2>1 DEF Registered, Arrivals
  <2> QED BY <1>1, <2>2 DEF Registered, Arrivals
<1>19. Introduced'
  BY <1>1, <1>2, <1>4, <1>6 DEF Registered, Introduced
<1>20. Scanning' /\ client_count' \in Nat
  BY <1>1, <1>3, <1>8 DEF Types, Registered, Scanning
<1>21. Types'
  BY <1>1, <1>3, <1>6, <1>7, <1>8, <1>11, <1>20 DEF Types
<1> QED BY <1>13, <1>16, <1>17, <1>18, <1>19, <1>20, <1>21 DEF ServerInv, Registered

LEMMA ReceiveIdInv == ASSUME ServerInv, ReceiveId PROVE ServerInv'
<1> DEFINE k == fdtab[newfd]
           c == conn[k].id
<1>1. /\ pc = "recv_id" /\ newfd' = None /\ pc' = "scan"
      /\ UNCHANGED <<subs, pfds, cur, idx, buf, exit_flag, backlog>>
  BY DEF ReceiveId
<1>2. conn[k] \in Connection
  BY <1>1, AtNew
<1>3. \A r \in IdRead(conn[k]) : r \in Connection /\ SamePlace(r, conn[k])
  BY <1>2, IdReadType
<1>4. CASE CloseNew(conn[k])
  BY <1>1, <1>2, <1>4, CloseNewInv DEF SamePlace
<1>5. ASSUME NEW r \in IdRead(conn[k]), CloseNew(r) PROVE ServerInv'
  BY <1>1, <1>3, <1>5, CloseNewInv
<1>6. ASSUME NEW r \in IdRead(conn[k]), Activate(c, r), ~Contains(clients, c),
             \/ UNCHANGED inactive /\ ~Contains(inactive, c)
             \/ \E i \in 1 .. Len(inactive) :
                   inactive[i] = c /\ inactive' = RemoveAt(inactive, i)
      PROVE  ServerInv'
  BY <1>1, <1>3, <1>6, ActivateInv
<1> HIDE DEF c
<1>7. \/ CloseNew(conn[k])
      \/ \E r \in IdRead(conn[k]) :
            \/ CloseNew(r)
            \/ /\ ~Contains(clients, c) /\ Contains(inactive, c)
               /\ \E i \in 1 .. Len(inactive) :
                     inactive[i] = c /\ inactive' = RemoveAt(inactive, i)
               /\ Activate(c, r)
            \/ /\ ~Contains(clients, c) /\ ~Contains(inactive, c)
               /\ Activate(c, r) /\ UNCHANGED inactive
  BY DEF ReceiveId, c
<1> QED BY <1>4, <1>5, <1>6, <1>7

(* What the disconnection of a client does, in terms of the old state.     *)
LEMMA DeactivateEffect ==
    ASSUME ServerInv, pc \in {"recv", "frames"}, NEW r \in Connection,
           SamePlace(r, conn[ConnOf(At(cur))]),
           Deactivate([conn EXCEPT ![ConnOf(At(cur))] = r])
    PROVE  LET c == At(cur)
               k == ConnOf(c)
           IN  /\ conn' \in [Conns -> Connection]
               /\ conn'[k] = [r EXCEPT !.phase = "closed"]
               /\ conn'[k].phase = "closed" /\ conn'[k].id = c
               /\ \A j \in Conns : j # k => conn'[j] = conn[j]
               /\ fd' \in [Ids -> Fds \cup {None}] /\ fd'[c] = None
               /\ \A d \in Ids : d # c => fd'[d] = fd[d]
               /\ fdtab' \in [Fds -> Conns \cup {None}] /\ fdtab'[fd[c]] = None
               /\ \A f \in Fds : f # fd[c] => fdtab'[f] = fdtab[f]
               /\ client_count' = client_count - 1 /\ client_count' \in Nat
               /\ clients' \in Seq(Ids) /\ Len(clients') = Len(clients) - 1
               /\ \A i \in 1 .. Len(clients') :
                     clients'[i] = IF i < cur THEN clients[i] ELSE clients[i + 1]
               /\ inactive' \in Seq(Ids) /\ Len(inactive') = Len(inactive) + 1
               /\ inactive'[1] = c
               /\ \A i \in 1 .. Len(inactive) : inactive'[i + 1] = inactive[i]
               /\ buf' = << >> /\ pc' = "scan" /\ cur' = cur /\ idx' = idx + 1
<1> DEFINE c == At(cur)
           k == ConnOf(c)
           s == [r EXCEPT !.phase = "closed"]
<1>1. Types /\ Registered
  BY DEF ServerInv, Up
<1>2. /\ cur \in 1 .. Len(clients) /\ c \in Ids /\ fd[c] \in Fds /\ k \in Conns
      /\ conn[k].id = c
  BY AtCur
<1>3. s \in Connection /\ s.phase = "closed" /\ s.id = c
  <2> HIDE DEF c, k
  <2> QED BY <1>2 DEF Connection, SamePlace, c, k
<1>4. /\ conn' = [[conn EXCEPT ![k] = r] EXCEPT ![k].phase = "closed"]
      /\ fd' = [fd EXCEPT ![c] = None] /\ fdtab' = [fdtab EXCEPT ![fd[c]] = None]
      /\ client_count' = client_count - 1
      /\ clients' = RemoveAt(clients, cur) /\ inactive' = <<c>> \o inactive
      /\ buf' = << >> /\ pc' = "scan" /\ cur' = cur /\ idx' = idx + 1
  BY DEF Deactivate
<1> HIDE DEF c, k
<1>5. conn' = [conn EXCEPT ![k] = s]
  BY <1>1, <1>2, <1>4 DEF Types
<1> HIDE DEF s
<1>6. /\ conn' \in [Conns -> Connection] /\ conn'[k] = s
      /\ \A j \in Conns : j # k => conn'[j] = conn[j]
  BY <1>1, <1>2, <1>3, <1>5 DEF Types
<1>7. /\ fd' \in [Ids -> Fds \cup {None}] /\ fd'[c] = None
      /\ \A d \in Ids : d # c => fd'[d] = fd[d]
  BY <1>1, <1>2, <1>4 DEF Types
<1>8. /\ fdtab' \in [Fds -> Conns \cup {None}] /\ fdtab'[fd[c]] = None
      /\ \A f \in Fds : f # fd[c] => fdtab'[f] = fdtab[f]
  BY <1>1, <1>2, <1>4 DEF Types
<1>9. /\ clients' \in Seq(Ids) /\ Len(clients') = Len(clients) - 1
      /\ \A i \in 1 .. Len(clients') :
            clients'[i] = IF i < cur THEN clients[i] ELSE clients[i + 1]
  BY <1>1, <1>2, <1>4, RemoveAtProps DEF Types
<1>10. /\ inactive' \in Seq(Ids) /\ Len(inactive') = Len(inactive) + 1
       /\ inactive'[1] = c
       /\ \A i \in 1 .. Len(inactive) : inactive'[i + 1] = inactive[i]
  BY <1>1, <1>2, <1>4, ConsProps, SMTT(30) DEF Types
<1>11. client_count' \in Nat
  BY <1>1, <1>2, <1>4 DEF Types, Registered, Scanning
<1> QED BY <1>3, <1>4, <1>6, <1>7, <1>8, <1>9, <1>10, <1>11 DEF c, k, s

LEMMA DeactivateInv ==
    ASSUME ServerInv, pc \in {"recv", "frames"}, NEW r \in Connection,
           SamePlace(r, conn[ConnOf(At(cur))]),
           Deactivate([conn EXCEPT ![ConnOf(At(cur))] = r]),
           subs' \in [Ids -> [Patterns -> Nat]],
           UNCHANGED <<newfd, exit_flag, backlog>>
    PROVE  ServerInv'
<1> DEFINE c == At(cur)
           k == ConnOf(c)
           old(i) == IF i < cur THEN i ELSE i + 1
<1>1. Types /\ Registered /\ newfd = None
  BY DEF ServerInv, Up, Registered, Arrivals
<1>2. /\ cur \in 1 .. Len(clients) /\ c \in Ids /\ fd[c] \in Fds /\ k \in Conns
      /\ conn[k].phase = "held" /\ conn[k].id = c /\ fdtab[fd[c]] = k /\ clients[cur] = c
  BY AtCur DEF ConnOf, At
<1>3. /\ conn' \in [Conns -> Connection]
      /\ conn'[k].phase = "closed" /\ conn'[k].id = c
      /\ \A j \in Conns : j # k => conn'[j] = conn[j]
  BY DeactivateEffect
<1>fd. /\ fd' \in [Ids -> Fds \cup {None}] /\ fd'[c] = None
       /\ \A d \in Ids : d # c => fd'[d] = fd[d]
  BY DeactivateEffect
<1>tab. /\ fdtab' \in [Fds -> Conns \cup {None}] /\ fdtab'[fd[c]] = None
        /\ \A f \in Fds : f # fd[c] => fdtab'[f] = fdtab[f]
  BY DeactivateEffect
<1>act. /\ client_count' = client_count - 1 /\ client_count' \in Nat
        /\ clients' \in Seq(Ids) /\ Len(clients') = Len(clients) - 1
        /\ \A i \in 1 .. Len(clients') : clients'[i] = clients[old(i)]
  BY DeactivateEffect
<1>ina. /\ inactive' \in Seq(Ids) /\ Len(inactive') = Len(inactive) + 1
        /\ inactive'[1] = c
        /\ \A i \in 1 .. Len(inactive) : inactive'[i + 1] = inactive[i]
  BY DeactivateEffect
<1>pos. buf' = << >> /\ pc' = "scan" /\ cur' = cur /\ idx' = idx + 1
  BY DeactivateEffect
<1>4. Len(clients) \in Nat /\ Len(inactive) \in Nat /\ cur \in Nat /\ idx \in Nat
  BY <1>1 DEF Types
<1>5. /\ \A i \in 1 .. Len(clients') : old(i) \in 1 .. Len(clients) /\ old(i) # cur
      /\ \A i, j \in 1 .. Len(clients') : old(i) = old(j) => i = j
      /\ \A i \in 1 .. Len(clients) :
            i # cur => \E j \in 1 .. Len(clients') : old(j) = i
  <2>1. /\ \A i \in 1 .. Len(clients') : old(i) \in 1 .. Len(clients) /\ old(i) # cur
        /\ \A i, j \in 1 .. Len(clients') : old(i) = old(j) => i = j
    BY <1>2, <1>act, <1>4
  <2>2. ASSUME NEW i \in 1 .. Len(clients), i # cur
        PROVE  \E j \in 1 .. Len(clients') : old(j) = i
    <3>1. CASE i < cur
      <4>1. i \in 1 .. Len(clients') /\ old(i) = i
        BY <1>2, <1>act, <1>4, <3>1
      <4> QED BY <4>1
    <3>2. CASE i > cur
      <4>1. i - 1 \in 1 .. Len(clients') /\ old(i - 1) = i
        BY <1>2, <1>act, <1>4, <3>2
      <4> QED BY <4>1
    <3> QED BY <1>4, <2>2, <3>1, <3>2
  <2> QED BY <2>1, <2>2
<1> HIDE DEF c, k, old
<1>6. \A i \in 1 .. Len(inactive') :
         \/ i = 1
         \/ i - 1 \in 1 .. Len(inactive) /\ inactive'[i] = inactive[i - 1]
  <2> TAKE i \in 1 .. Len(inactive')
  <2> SUFFICES ASSUME i # 1
               PROVE  i - 1 \in 1 .. Len(inactive) /\ inactive'[i] = inactive[i - 1]
    OBVIOUS
  <2>1. i - 1 \in 1 .. Len(inactive) /\ (i - 1) + 1 = i
    BY <1>ina, <1>4
  <2> QED BY <1>ina, <2>1
<1>7. ListedOnce'
  <2>1. ASSUME NEW i \in 1 .. Len(clients'), NEW j \in 1 .. Len(clients'),
               clients'[i] = clients'[j]
        PROVE  i = j
    <3>1. /\ old(i) \in 1 .. Len(clients) /\ old(j) \in 1 .. Len(clients)
          /\ clients[old(i)] = clients[old(j)]
      BY <1>act, <1>5, <2>1
    <3>2. old(i) = old(j)
      BY <1>1, <3>1 DEF Registered, ListedOnce
    <3> QED BY <1>5, <3>2
  <2>2. ASSUME NEW i \in 1 .. Len(inactive'), NEW j \in 1 .. Len(inactive'),
               inactive'[i] = inactive'[j]
        PROVE  i = j
    <3>1. \A n \in 1 .. Len(inactive) : inactive[n] # c
      BY <1>1, <1>2 DEF Registered, ListedOnce
    <3>2. CASE i = 1 \/ j = 1
      <4>1. \A n \in 1 .. Len(inactive') : inactive'[n] = c => n = 1
        BY <1>6, <3>1
      <4> QED BY <1>ina, <2>2, <3>2, <4>1
    <3>3. CASE i # 1 /\ j # 1
      <4>1. i - 1 = j - 1
        BY <1>1, <1>6, <2>2, <3>3 DEF Registered, ListedOnce
      <4> QED BY <1>ina, <1>4, <4>1
    <3> QED BY <3>2, <3>3
  <2>3. ASSUME NEW i \in 1 .. Len(clients'), NEW j \in 1 .. Len(inactive')
        PROVE  clients'[i] # inactive'[j]
    <3>1. clients'[i] = clients[old(i)] /\ old(i) \in 1 .. Len(clients) /\ old(i) # cur
      BY <1>act, <1>ina, <1>5
    <3>2. CASE j = 1
      BY <1>1, <1>2, <1>act, <1>ina, <3>1, <3>2 DEF Registered, ListedOnce
    <3>3. CASE j # 1
      BY <1>1, <1>6, <3>1, <3>3 DEF Registered, ListedOnce
    <3> QED BY <3>2, <3>3
  <2> QED BY <2>1, <2>2, <2>3 DEF ListedOnce
<1>8. \A d \in Ids : Contains(clients', d) <=> d # c /\ Contains(clients, d)
  <2>1. ASSUME NEW d \in Ids, Contains(clients', d) PROVE d # c /\ Contains(clients, d)
    <3>1. PICK i \in 1 .. Len(clients') : clients'[i] = d
      BY <2>1 DEF Contains
    <3>2. old(i) \in 1 .. Len(clients) /\ old(i) # cur /\ clients[old(i)] = d
      BY <1>act, <1>5, <3>1
    <3> QED BY <1>1, <1>2, <3>2 DEF Registered, ListedOnce, Contains
  <2>2. ASSUME NEW d \in Ids, d # c, Contains(clients, d) PROVE Contains(clients', d)
    <3>1. PICK i \in 1 .. Len(clients) : clients[i] = d
      BY <2>2 DEF Contains
    <3>2. PICK j \in 1 .. Len(clients') : old(j) = i
      BY <1>2, <1>5, <2>2, <3>1
    <3> QED BY <1>act, <3>1, <3>2 DEF Contains
  <2> QED BY <2>1, <2>2
<1>9. \A f \in Fds : fdtab[f] = k => f = fd[c]
  BY <1>1, <1>2, NoneIsNone DEF Registered, FdTable
<1>10. ClientFdsOpen'
  <2>1. ASSUME NEW d \in Ids, d # c, fd[d] # None
        PROVE  /\ fd[d] \in Fds /\ fd[d] # fd[c] /\ fdtab[fd[d]] # None
               /\ fdtab[fd[d]] \in Conns /\ fdtab[fd[d]] # k
    <3>1. fd[d] \in Fds /\ fdtab[fd[d]] # None /\ fdtab[fd[d]] \in Conns
          /\ conn[fdtab[fd[d]]].id = d
      BY <1>1, <2>1 DEF Types, Registered, ClientFdsOpen
    <3> QED BY <1>2, <2>1, <3>1
  <2>2. \A d \in Ids : d # c =>
           /\ fd'[d] # None <=> Contains(clients', d)
           /\ fd'[d] # None => /\ fd'[d] # newfd'
                               /\ fdtab'[fd'[d]] # None
                               /\ conn'[fdtab'[fd'[d]]].id = d
    BY <1>1, <1>3, <1>fd, <1>tab, <1>8, <2>1 DEF Registered, ClientFdsOpen
  <2> QED BY <1>3, <1>fd, <1>tab, <1>8, <2>2 DEF ClientFdsOpen
<1>11. FdTable'
  <2>1. ASSUME NEW f \in Fds, fdtab'[f] # None
        PROVE  /\ f # fd[c] /\ fdtab'[f] = fdtab[f] /\ fdtab[f] \in Conns
               /\ fdtab[f] # None /\ fdtab[f] # k
    BY <1>1, <1>3, <1>fd, <1>tab, <1>9, <2>1 DEF Types
  <2>2. ASSUME NEW f \in Fds, fdtab'[f] # None
        PROVE  conn'[fdtab'[f]].phase = "held" /\ \E d \in Ids : fd'[d] = f
    <3>1. conn'[fdtab'[f]].phase = "held"
      BY <1>1, <1>3, <1>fd, <1>tab, <2>1, <2>2 DEF Registered, FdTable
    <3>2. PICK d \in Ids : fd[d] = f
      BY <1>1, <2>1, <2>2, NoneIsNone DEF Registered, FdTable
    <3> QED BY <1>3, <1>fd, <1>tab, <2>1, <2>2, <3>1, <3>2
  <2>3. \A f, g \in Fds : fdtab'[f] # None /\ fdtab'[f] = fdtab'[g] => f = g
    BY <1>1, <2>1 DEF Registered, FdTable
  <2>4. \A j \in Conns : conn'[j].phase = "held" => \E f \in Fds : fdtab'[f] = j
    <3> TAKE j \in Conns
    <3> HAVE conn'[j].phase = "held"
    <3>1. j # k /\ conn[j].phase = "held"
      BY <1>3, <1>fd, <1>tab
    <3>2. PICK f \in Fds : fdtab[f] = j
      BY <1>1, <3>1 DEF Registered, FdTable
    <3> QED BY <1>2, <1>3, <1>fd, <1>tab, <3>1, <3>2
  <2> QED BY <2>2, <2>3, <2>4 DEF FdTable
<1>12. Arrivals'
  <2>1. ASSUME NEW i \in 1 .. Len(backlog) PROVE backlog[i] \in Conns /\ backlog[i] # k
    <3>1. conn[backlog[i]].phase = "backlog"
      BY <1>1 DEF Registered, Arrivals
    <3> QED BY <1>1, <1>2, <3>1 DEF Types
  <2>2. \A i \in 1 .. Len(backlog') : conn'[backlog'[i]].phase = "backlog"
    BY <1>1, <1>3, <2>1 DEF Registered, Arrivals
  <2> QED BY <1>1, <1>pos, <2>2 DEF Registered, Arrivals
<1>13. Introduced'
  BY <1>1, <1>2, <1>3 DEF Registered, Introduced
<1>14. Scanning'
  BY <1>1, <1>act, <1>pos DEF Registered, Scanning
<1>15. idx' \in Nat \ {0}
  BY <1>4, <1>pos
<1>16. << >> \in Seq(Commands)
  OBVIOUS
<1>17. Types'
  BY <1>1, <1>3, <1>fd, <1>tab, <1>act, <1>ina, <1>pos, <1>15, <1>16 DEF Types
<1> QED BY <1>7, <1>10, <1>11, <1>12, <1>13, <1>14, <1>17 DEF ServerInv, Registered

(* Carrying out a command changes what one client holds, by one.           *)
LEMMA CarryType ==
    ASSUME subs \in [Ids -> [Patterns -> Nat]],
           NEW c \in Ids, NEW m \in Commands, Carry(c, m)
    PROVE  subs' \in [Ids -> [Patterns -> Nat]]
<1>1. subs[c] \in [Patterns -> Nat] /\ subs[c][m.pat] \in Nat
  BY DEF Commands
<1>2. ASSUME NEW n \in Nat, subs' = [subs EXCEPT ![c][m.pat] = n]
      PROVE  subs' \in [Ids -> [Patterns -> Nat]]
  <2>1. [subs[c] EXCEPT ![m.pat] = n] \in [Patterns -> Nat]
    BY <1>1
  <2>2. subs' = [subs EXCEPT ![c] = [subs[c] EXCEPT ![m.pat] = n]]
    BY <1>2
  <2> QED BY <2>1, <2>2
<1>3. subs[c][m.pat] + 1 \in Nat /\ (subs[c][m.pat] > 0 => subs[c][m.pat] - 1 \in Nat)
  BY <1>1
<1> QED BY <1>2, <1>3 DEF Carry

(* Receiving and handling frames.                                          *)
LEMMA ServeInv == ASSUME ServerInv, Receive \/ HandleFrame PROVE ServerInv'
<1> DEFINE k == ConnOf(At(cur))
<1>1. Types /\ Registered /\ k \in Conns /\ conn[k] \in Connection
      /\ pc \in {"recv", "frames"} /\ cur \in 1 .. Len(clients)
  BY AtCur DEF ServerInv, Up, Receive, HandleFrame
<1>2. subs' \in [Ids -> [Patterns -> Nat]] /\ UNCHANGED <<newfd, exit_flag, backlog>>
  <2>1. CASE Receive
    BY <1>1, <2>1 DEF Receive, Types
  <2>2. CASE HandleFrame
    <3>1. Head(buf) \in Commands /\ At(cur) \in Ids
      BY <2>2, AtCur, HeadTailProperties DEF HandleFrame, ServerInv, Types
    <3>2. Carry(At(cur), Head(buf)) \/ subs' = subs
      BY <2>2 DEF HandleFrame
    <3>3. UNCHANGED <<newfd, exit_flag, backlog>>
      BY <2>2 DEF HandleFrame
    <3> QED BY <1>1, <3>1, <3>2, <3>3, CarryType DEF Types
  <2> QED BY <2>1, <2>2
<1>3. \E r \in Connection :
         /\ SamePlace(r, conn[k]) /\ r.idState = conn[k].idState
         /\ \/ /\ conn' = [conn EXCEPT ![k] = r]
               /\ buf' \in Seq(Commands) /\ pc' \in {"frames", "killed"}
               /\ UNCHANGED <<clients, inactive, client_count, fd, fdtab, cur, idx>>
            \/ Deactivate([conn EXCEPT ![k] = r])
  <2>1. CASE Receive
    BY <2>1, ReceiveEither
  <2>2. CASE HandleFrame
    <3>1. buf \in Seq(Commands) /\ Tail(buf) \in Seq(Commands)
      BY <2>2, HeadTailProperties DEF HandleFrame, ServerInv, Types
    <3> QED BY <2>2, <3>1, HandleFrameEither
  <2> QED BY <2>1, <2>2
<1>4. PICK r \in Connection :
         /\ SamePlace(r, conn[k]) /\ r.idState = conn[k].idState
         /\ \/ /\ conn' = [conn EXCEPT ![k] = r]
               /\ buf' \in Seq(Commands) /\ pc' \in {"frames", "killed"}
               /\ UNCHANGED <<clients, inactive, client_count, fd, fdtab, cur, idx>>
            \/ Deactivate([conn EXCEPT ![k] = r])
  BY <1>3
<1>5. CASE Deactivate([conn EXCEPT ![k] = r])
  BY <1>1, <1>2, <1>4, <1>5, DeactivateInv
<1>6. CASE /\ conn' = [conn EXCEPT ![k] = r]
           /\ buf' \in Seq(Commands) /\ pc' \in {"frames", "killed"}
           /\ UNCHANGED <<clients, inactive, client_count, fd, fdtab, cur, idx>>
  <2> HIDE DEF k
  <2>1. conn' \in [Conns -> Connection] /\ KeepsPlaces(conn, conn')
    BY <1>1, <1>4, <1>6 DEF Types, KeepsPlaces, SamePlace
  <2>2. Types'
    BY <1>1, <1>2, <1>6, <2>1 DEF Types
  <2>3. Up' => pc' = "frames"
    BY <1>6 DEF Up
  <2>4. Up' => Scanning' /\ Arrivals'
    <3>1. pc' = "frames" => Scanning'
      BY <1>1, <1>6 DEF Registered, Scanning
    <3>2. pc' = "frames" => Arrivals'
      BY <1>1, <1>2, <1>6, <2>1, PlacesKept DEF Registered, Arrivals
    <3> QED BY <2>3, <3>1, <3>2
  <2> QED BY <1>1, <1>2, <1>6, <2>1, <2>2, <2>4, PlacesKept DEF ServerInv, Registered
<1> QED BY <1>4, <1>5, <1>6

(* The steps that only look, or only move on.                              *)
LEMMA OtherStepsInv ==
    ASSUME ServerInv,
           Poll \/ PollFails \/ ReadStdin \/ ReadUdp \/ ScanClient \/ EndRound \/ FramesDone
    PROVE  ServerInv'
<1>1. Types /\ Registered
  BY DEF ServerInv, Up, Poll, PollFails, ReadStdin, ReadUdp, ScanClient, EndRound, FramesDone
<1>2. /\ UNCHANGED <<clients, inactive, client_count, fd, subs, newfd, fdtab, backlog>>
      /\ exit_flag' \in BOOLEAN /\ cur' \in Nat \ {0} /\ idx' \in Nat \ {0}
  <2>1. UNCHANGED <<clients, inactive, client_count, fd, subs, newfd, fdtab, backlog>>
    BY DEF Poll, PollFails, ReadStdin, ReadUdp, ScanClient, EndRound, FramesDone, Advance,
           world
  <2>2. exit_flag' \in BOOLEAN
    <3>1. CASE exit_flag' = exit_flag
      BY <1>1, <3>1 DEF Types
    <3>2. CASE ReadStdin
      BY <3>1, <3>2 DEF ReadStdin
    <3> QED BY <3>1, <3>2 DEF Poll, PollFails, ReadUdp, ScanClient, EndRound, FramesDone
  <2>3. cur' \in {cur, cur + 1, 1} /\ idx' \in {idx, idx + 1, 1}
    BY DEF Poll, PollFails, ReadStdin, ReadUdp, ScanClient, EndRound, FramesDone, Advance
  <2>4. cur \in Nat \ {0} /\ idx \in Nat \ {0}
    BY <1>1 DEF Types
  <2>5. cur' \in Nat \ {0} /\ idx' \in Nat \ {0}
    BY <2>3, <2>4
  <2> QED BY <2>1, <2>2, <2>5
<1>3. conn' \in [Conns -> Connection] /\ KeepsPlaces(conn, conn')
  <2>1. CASE conn' = conn
    BY <1>1, <2>1 DEF Types, KeepsPlaces, SamePlace
  <2>2. CASE ReadUdp
    BY <1>1, <2>1, <2>2, PublishKeepsPlaces DEF ReadUdp
  <2> QED BY <2>1, <2>2 DEF Poll, PollFails, ReadStdin, ScanClient, EndRound, FramesDone, world
<1>4. buf' = buf /\ pc' \in {"poll", "stdin", "udp", "tcp", "scan", "recv", "cleanup", "killed"}
      /\ pc # "recv_id"
  BY DEF Poll, PollFails, ReadStdin, ReadUdp, Publish, ScanClient, EndRound, FramesDone, Advance
<1>5. buf' = << >>
  <2>1. FramesDone => buf = << >>
    BY DEF FramesDone
  <2>2. ~FramesDone => pc # "frames"
    BY DEF Poll, PollFails, ReadStdin, ReadUdp, ScanClient, EndRound
  <2> QED BY <1>1, <1>4, <2>1, <2>2 DEF Registered, Scanning
<1>6. pc' = "recv" => cur' \in 1 .. Len(clients')
  <2>1. pc' = "recv" => ScanClient
    BY DEF Poll, PollFails, ReadStdin, ReadUdp, Publish, ScanClient, EndRound, FramesDone,
           Advance
  <2>2. ScanClient /\ pc' = "recv" => cur' = cur /\ cur <= Len(clients)
    BY DEF ScanClient, Advance
  <2>3. Len(clients) \in Nat
    BY <1>1 DEF Types
  <2> QED BY <1>1, <1>2, <2>1, <2>2, <2>3 DEF Types
<1>7. pc' \in {"stdin", "udp", "tcp"} /\ pfds'.tcp => backlog # << >>
  <2>1. CASE Poll
    BY <2>1 DEF Poll
  <2>2. CASE ~Poll /\ pc' \in {"stdin", "udp", "tcp"}
    <3>1. pc \in {"stdin", "udp"} /\ pfds' = pfds
      BY <2>2 DEF Poll, PollFails, ReadStdin, ReadUdp, ScanClient, EndRound, FramesDone,
                  Advance
    <3> QED BY <1>1, <3>1 DEF Registered, Arrivals
  <2> QED BY <2>1, <2>2
<1>8. Types'
  BY <1>1, <1>2, <1>3, <1>4 DEF Types
<1>9. Scanning'
  BY <1>1, <1>2, <1>4, <1>5, <1>6 DEF Registered, Scanning
<1>10. newfd = None /\ UNCHANGED newfd
  BY <1>1, <1>2, <1>4 DEF Registered, Arrivals
<1>11. Arrivals'
  BY <1>1, <1>2, <1>3, <1>4, <1>7, <1>10, PlacesKept DEF Registered, Arrivals
<1> QED BY <1>1, <1>2, <1>3, <1>8, <1>9, <1>11, PlacesKept DEF ServerInv, Registered

(* After the loop only the types matter.                                   *)
LEMMA CleanupInv == ASSUME ServerInv, Destroy \/ Exit PROVE ServerInv'
<1>1. /\ Types /\ ~Up' /\ pc' \in {"cleanup", "exited", "crashed"}
      /\ UNCHANGED <<client_count, cur, idx, buf, newfd, exit_flag, backlog>>
  BY DEF ServerInv, Up, Destroy, Exit, world
<1>2. CASE UNCHANGED <<clients, inactive, subs, fd, fdtab, conn>>
  BY <1>1, <1>2 DEF ServerInv, Types
<1>3. CASE LET c == Head(clients \o inactive)
           IN  /\ clients \o inactive # << >> /\ UNCHANGED pc
               /\ \/ clients # << >> /\ clients' = Tail(clients) /\ UNCHANGED inactive
                  \/ clients = << >> /\ inactive' = Tail(inactive) /\ UNCHANGED clients
               /\ subs' = [subs EXCEPT ![c] = [p \in Patterns |-> 0]]
               /\ fd' = [fd EXCEPT ![c] = None]
               /\ IF fd[c] = None THEN UNCHANGED <<fdtab, conn>>
                  ELSE /\ fdtab' = [fdtab EXCEPT ![fd[c]] = None]
                       /\ conn' = Closed(ConnOf(c))
  <2> DEFINE c == Head(clients \o inactive)
  <2>1. clients' \in Seq(Ids) /\ inactive' \in Seq(Ids)
    <3>1. clients = << >> => inactive # << >>
      BY <1>1, <1>3, ConcatEmptySeq DEF Types
    <3>2. /\ clients # << >> => Tail(clients) \in Seq(Ids)
          /\ inactive # << >> => Tail(inactive) \in Seq(Ids)
      BY <1>1, HeadTailProperties DEF Types
    <3> QED BY <1>1, <1>3, <3>1, <3>2 DEF Types
  <2>2. subs' \in [Ids -> [Patterns -> Nat]] /\ fd' \in [Ids -> Fds \cup {None}]
    BY <1>1, <1>3 DEF Types
  <2>3. fdtab' \in [Fds -> Conns \cup {None}]
    BY <1>1, <1>3 DEF Types
  <2>4. conn' \in [Conns -> Connection]
    <3>1. CASE conn' = conn
      BY <1>1, <3>1 DEF Types
    <3>2. CASE conn' = Closed(ConnOf(c))
      <4> DEFINE k == ConnOf(c)
                 s == [conn[k] EXCEPT !.phase = "closed"]
      <4>1. conn' = [conn EXCEPT ![k] = s]
        BY <3>2 DEF Closed
      <4>2. k \in Conns => s \in Connection
        <5> HIDE DEF k
        <5>1. k \in Conns => conn[k] \in Connection
          BY <1>1 DEF Types
        <5> QED BY <5>1 DEF Connection
      <4> HIDE DEF k, s
      <4> QED BY <1>1, <4>1, <4>2 DEF Types
    <3> QED BY <1>3, <3>1, <3>2
  <2> QED BY <1>1, <2>1, <2>2, <2>3, <2>4 DEF ServerInv, Types
<1> QED BY <1>2, <1>3 DEF Destroy, Exit, world

LEMMA StutterServerInv == ASSUME ServerInv, UNCHANGED vars PROVE ServerInv'
  BY DEF ServerInv, Types, Up, Registered, ListedOnce, ClientFdsOpen, FdTable, Arrivals,
         Scanning, Introduced, Contains, vars, server, world

LEMMA NextServerInv == ServerInv /\ [Next]_vars => ServerInv'
  BY AcceptInv, ReceiveIdInv, ServeInv, OtherStepsInv, CleanupInv, WorldInv, StutterServerInv
     DEF Next, ServerNext

(* The registry of the server is sound in every reachable state.           *)
THEOREM ServerSafe == Spec => []ServerInv
<1>1. Init => ServerInv
  BY InitServerInv
<1>2. ServerInv /\ [Next]_vars => ServerInv'
  BY NextServerInv
<1> QED BY <1>1, <1>2, PTL DEF Spec

-----------------------------------------------------------------------------
(* What follows: TypeOK and Registry *)

(* A sequence has as many elements as places just when none is twice there.*)
LEMMA NoneTwice ==
    ASSUME NEW S, NEW s \in Seq(S), \A i, j \in 1 .. Len(s) : s[i] = s[j] => i = j
    PROVE  Cardinality(ToSet(s)) = Len(s)
<1>1. Len(s) \in Nat /\ DOMAIN s = 1 .. Len(s) /\ s = [i \in 1 .. Len(s) |-> s[i]]
  BY LenProperties
<1>2. s \in [1 .. Len(s) -> ToSet(s)]
  BY <1>1 DEF ToSet
<1>3. s \in Surjection(1 .. Len(s), ToSet(s))
  BY <1>1, <1>2, Fun_IsSurj DEF ToSet
<1>4. s \in Injection(1 .. Len(s), ToSet(s))
  BY <1>2, Fun_IsInj
<1>5. IsFiniteSet(1 .. Len(s)) /\ Cardinality(1 .. Len(s)) = Len(s)
  <2>1. 1 \in Int /\ Len(s) \in Int
    BY <1>1
  <2>2. /\ IsFiniteSet(1 .. Len(s))
        /\ Cardinality(1 .. Len(s)) = IF 1 > Len(s) THEN 0 ELSE Len(s) - 1 + 1
    BY <2>1, FS_Interval, Zenon
  <2> QED BY <1>1, <2>2
<1>6. Cardinality(ToSet(s)) = Cardinality(1 .. Len(s))
  BY <1>3, <1>4, <1>5, FS_Surjection
<1> QED BY <1>5, <1>6

(* The elements of two lists of ids are ids.                               *)
LEMMA ListsType == ASSUME Types PROVE Lists \in Seq(Ids) /\ ToSet(Lists) \subseteq Ids
<1>1. Lists \in Seq(Ids)
  BY ConcatProperties DEF Types, Lists
<1> QED BY <1>1, LenProperties DEF ToSet

(* No malformed state of the server is reachable, and client_count, by     *)
(* which run_server allocates pfds, never goes below zero.                 *)
THEOREM ServerTypeCorrect == Spec => []TypeOK
<1>1. ServerInv => TypeOK
  <2> SUFFICES ASSUME Types PROVE TypeOK
    BY DEF ServerInv
  <2>1. ASSUME NEW k \in Conns
        PROVE  /\ DOMAIN conn[k] = DOMAIN Unused
               /\ conn[k].id \in Ids \cup {None}
               /\ ToSet(conn[k].inq) \cup ToSet(conn[k].sent) \subseteq Commands
    <3>1. conn[k] \in Connection
      BY DEF Types
    <3>2. DOMAIN conn[k] = DOMAIN Unused
      BY <3>1 DEF Connection, Unused
    <3>3. conn[k].id \in Ids \cup {None} /\ conn[k].inq \in Seq(Commands)
          /\ conn[k].sent \in Seq(Commands)
      BY <3>1 DEF Connection
    <3>4. ToSet(conn[k].inq) \subseteq Commands /\ ToSet(conn[k].sent) \subseteq Commands
      BY <3>3, LenProperties DEF ToSet
    <3> QED BY <3>2, <3>3, <3>4
  <2> QED BY <2>1, ListsType DEF Types, TypeOK
<1> QED BY <1>1, ServerSafe, PTL

(* Whatever order clients connect, return and leave in: no id is listed    *)
(* twice, client_count is the length of the active list, just the active   *)
(* clients have a descriptor, which leads to a connection of theirs, and   *)
(* no descriptor is leaked.                                                *)
THEOREM RegistrySound == Spec => []Registry
<1>1. ServerInv => Registry
  <2> SUFFICES ASSUME Types, Registered PROVE
         /\ client_count = Len(clients)
         /\ Cardinality(ToSet(Lists)) = Len(Lists)
         /\ \A c \in Ids : fd[c] # None <=> Contains(clients, c)
         /\ \A i \in 1 .. Len(clients) :
               conn[ConnOf(At(i))].phase = "held" /\ conn[ConnOf(At(i))].id = At(i)
         /\ \A f \in Fds : fdtab[f] # None => f = newfd \/ \E c \in Ids : fd[c] = f
    BY DEF ServerInv, Registry
  <2>1. Cardinality(ToSet(Lists)) = Len(Lists)
    <3>1. /\ Len(Lists) = Len(clients) + Len(inactive)
          /\ \A i \in 1 .. Len(clients) + Len(inactive) : Lists[i] =
                IF i <= Len(clients) THEN clients[i] ELSE inactive[i - Len(clients)]
          /\ Len(clients) \in Nat /\ Len(inactive) \in Nat
      BY ConcatProperties, LenProperties DEF Types, Lists
    <3>2. ASSUME NEW i \in 1 .. Len(Lists), NEW j \in 1 .. Len(Lists), Lists[i] = Lists[j]
          PROVE  i = j
      <4>1. CASE i <= Len(clients) /\ j <= Len(clients)
        BY <3>1, <3>2, <4>1 DEF Registered, ListedOnce
      <4>2. CASE i > Len(clients) /\ j > Len(clients)
        <5>1. i - Len(clients) = j - Len(clients)
          BY <3>1, <3>2, <4>2 DEF Registered, ListedOnce
        <5> QED BY <3>1, <5>1
      <4>3. CASE i <= Len(clients) /\ j > Len(clients)
        BY <3>1, <3>2, <4>3 DEF Registered, ListedOnce
      <4>4. CASE i > Len(clients) /\ j <= Len(clients)
        BY <3>1, <3>2, <4>4 DEF Registered, ListedOnce
      <4> QED BY <3>1, <4>1, <4>2, <4>3, <4>4
    <3> QED BY <3>2, ListsType, NoneTwice
  <2>2. ASSUME NEW i \in 1 .. Len(clients)
        PROVE  conn[ConnOf(At(i))].phase = "held" /\ conn[ConnOf(At(i))].id = At(i)
    <3>1. At(i) \in Ids /\ Contains(clients, At(i))
      BY DEF Types, At, Contains
    <3>2. fd[At(i)] \in Fds
      BY <3>1 DEF Types, Registered, ClientFdsOpen
    <3> QED BY <3>1, <3>2, NoneIsNone DEF Registered, ClientFdsOpen, FdTable, ConnOf
  <2> QED BY <2>1, <2>2 DEF Registered, ClientFdsOpen, FdTable, Scanning
<1> QED BY <1>1, ServerSafe, PTL

-----------------------------------------------------------------------------
(* The walk along pfds: the scan walks the list of clients beside the      *)
(* array that poll filled before the accept.  The two agree up to the      *)
(* accept, and are shifted against each other by one entry, or by none,    *)
(* from then on, whatever happens to the clients during the scan.          *)

(* The array describes the clients as they are listed.                     *)
Polled == /\ DOMAIN pfds.client = 1 .. Len(clients)
          /\ \A i \in 1 .. Len(clients) : pfds.client[i].fd = fd[At(i)]

(* A round starts at the first client and the first entry; until the       *)
(* accept is over, the array is that of the clients listed.                *)
WalkInv ==
    /\ pc \in {"poll", "stdin", "udp", "tcp", "recv_id"} => cur = 1 /\ idx = 1
    /\ pc \in {"stdin", "udp", "tcp", "recv_id"} => Polled
    /\ ShiftedByOne

(* What Beside says where the scan is on its way: every client that is yet *)
(* to come stands beside its entry, or, shifted, before the array.         *)
Stands(c, e) ==
    IF e = 0
    THEN \A j \in DOMAIN pfds.client : pfds.client[j].fd # fd[c]
    ELSE e \in DOMAIN pfds.client /\ pfds.client[e].fd = fd[c]

-----------------------------------------------------------------------------
(* The start of a round *)

LEMMA InitWalk == Init => WalkInv
  BY DEF Init, WalkInv, ShiftedByOne, Beside

(* Where no scan is on, there is nothing to say about it.                  *)
LEMMA NoScan ==
    ASSUME pc' \notin {"scan", "recv", "frames"}
    PROVE  ShiftedByOne'
  BY DEF ShiftedByOne, Beside

(* poll fills the array from the list of clients.                          *)
LEMMA PollWalk == ASSUME ServerInv, WalkInv, Poll PROVE WalkInv'
<1>1. /\ pc' = "stdin" /\ pfds'.client = ClientFds /\ client_count = Len(clients)
      /\ UNCHANGED <<clients, fd, cur, idx>> /\ cur = 1 /\ idx = 1
  BY DEF Poll, ServerInv, Up, Registered, Scanning, WalkInv
<1>2. /\ DOMAIN ClientFds = 1 .. Len(clients)
      /\ \A i \in 1 .. Len(clients) : ClientFds[i].fd = fd[At(i)]
  BY <1>1 DEF ClientFds
<1>3. Polled'
  BY <1>1, <1>2 DEF Polled, At
<1> QED BY <1>1, <1>3, NoScan DEF WalkInv

(* The handlers before the accept leave list, descriptors and array alone. *)
LEMMA BeforeAccept ==
    ASSUME WalkInv, PollFails \/ ReadStdin \/ ReadUdp \/ Destroy \/ Exit
    PROVE  WalkInv'
<1>1. CASE ReadStdin \/ ReadUdp
  <2>1. /\ pc \in {"stdin", "udp"} /\ pc' \in {"udp", "tcp", "killed"}
        /\ UNCHANGED <<clients, fd, pfds, cur, idx>>
    BY <1>1 DEF ReadStdin, ReadUdp, Publish
  <2> QED BY <2>1, NoScan DEF WalkInv, Polled, At
<1>2. CASE PollFails \/ Destroy \/ Exit
  <2>1. pc' \in {"cleanup", "crashed", "exited"}
    BY <1>2 DEF PollFails, Destroy, Exit
  <2> QED BY <2>1, NoScan DEF WalkInv
<1> QED BY <1>1, <1>2

-----------------------------------------------------------------------------
(* The accept, after which the scan begins *)

(* Nobody came, or was turned away: client and entry stand side by side.   *)
LEMMA NoShift ==
    ASSUME Types, Types', WalkInv, pc \in {"tcp", "recv_id"}, pc' = "scan",
           UNCHANGED <<clients, fd, pfds, cur, idx>>
    PROVE  WalkInv'
<1>1. cur' = 1 /\ idx' = 1 /\ Polled'
  BY DEF WalkInv, Polled, At
<1>2. ASSUME NEW i \in 1 .. Len(clients') PROVE Stands(At(i), 1 + (i - 1) - 0)'
  <2>1. i # 0 /\ 1 + (i - 1) - 0 = i
    BY <1>2
  <2> QED BY <1>1, <1>2, <2>1 DEF Polled, Stands, At
<1>3. Beside(0)'
  BY <1>1, <1>2 DEF Beside, Stands
<1> QED BY <1>3 DEF WalkInv, ShiftedByOne

LEMMA AcceptWalk == ASSUME ServerInv, ServerInv', WalkInv, Accept PROVE WalkInv'
<1>1. /\ pc = "tcp" /\ pc' \in {"recv_id", "scan"}
      /\ UNCHANGED <<clients, fd, pfds, cur, idx>>
  BY DEF Accept
<1>2. CASE pc' = "recv_id"
  BY <1>1, <1>2, NoScan DEF WalkInv, Polled, At
<1>3. CASE pc' = "scan"
  BY <1>1, <1>3, NoShift DEF ServerInv
<1> QED BY <1>1, <1>2, <1>3

(* Somebody came, in front of the list: the first client has no entry, and *)
(* its descriptor is none of those polled; the others have moved by one.   *)
LEMMA ActivateWalk ==
    ASSUME ServerInv, ServerInv', WalkInv, pc = "recv_id", NEW r,
           Activate(conn[fdtab[newfd]].id, r), ~Contains(clients, conn[fdtab[newfd]].id),
           pc' = "scan", UNCHANGED <<pfds, cur, idx>>
    PROVE  WalkInv'
<1> DEFINE c == conn[fdtab[newfd]].id
<1>1. Types /\ Types' /\ Polled /\ cur' = 1 /\ idx' = 1 /\ newfd \in Fds
  BY AtNew DEF ServerInv, WalkInv
<1>2. c \in Ids /\ \A d \in Ids : fd[d] # newfd
  BY AtNew
<1>3. /\ clients' = <<c>> \o clients /\ fd' = [fd EXCEPT ![c] = newfd]
      /\ ~Contains(clients, c)
  BY DEF Activate
<1> HIDE DEF c
<1>4. /\ fd'[c] = newfd
      /\ \A d \in Ids : d # c => fd'[d] = fd[d]
  BY <1>1, <1>2, <1>3 DEF Types
<1>5. /\ Len(clients') = Len(clients) + 1 /\ Len(clients) \in Nat
      /\ clients'[1] = c /\ \A i \in 1 .. Len(clients) : clients'[i + 1] = clients[i]
  BY <1>1, <1>2, <1>3, ConsProps DEF Types
<1>6. \A i \in 1 .. Len(clients) : clients[i] \in Ids /\ clients[i] # c
  BY <1>1, <1>3 DEF Types, Contains
<1>7. /\ DOMAIN pfds'.client = 1 .. Len(clients)
      /\ \A i \in 1 .. Len(clients) :
            pfds'.client[i].fd = fd[clients[i]] /\ fd[clients[i]] # newfd
            /\ fd[clients[i]] = fd'[clients[i]]
  BY <1>1, <1>2, <1>4, <1>6 DEF Polled, At
<1>8. Stands(At(1), 0)'
  BY <1>4, <1>5, <1>7 DEF Stands, At
<1>9. ASSUME NEW j \in 1 .. Len(clients) PROVE Stands(At(j + 1), j)'
  <2>1. j # 0
    BY <1>9
  <2> QED BY <1>5, <1>7, <1>9, <2>1 DEF Stands, At
<1>10. ASSUME NEW i \in 1 .. Len(clients') PROVE Stands(At(i), 1 + (i - 1) - 1)'
  <2>0. 1 + (i - 1) - 1 = i - 1
    BY <1>10
  <2>1. CASE i = 1
    <3>1. 1 + (i - 1) - 1 = 0
      BY <2>1
    <3> QED BY <1>8, <2>1, <3>1
  <2>2. CASE i # 1
    <3>1. i - 1 \in 1 .. Len(clients) /\ (i - 1) + 1 = i
      BY <1>5, <1>10, <2>2
    <3> QED BY <1>9, <2>0, <3>1
  <2> QED BY <2>1, <2>2
<1>11. Beside(1)'
  BY <1>1, <1>10 DEF Beside, Stands
<1> QED BY <1>11 DEF WalkInv, ShiftedByOne

LEMMA ReceiveIdWalk == ASSUME ServerInv, ServerInv', WalkInv, ReceiveId PROVE WalkInv'
<1>1. /\ pc = "recv_id" /\ pc' = "scan" /\ UNCHANGED <<pfds, cur, idx>>
  BY DEF ReceiveId
<1>2. \/ UNCHANGED <<clients, fd>>
      \/ \E r : Activate(conn[fdtab[newfd]].id, r)
                /\ ~Contains(clients, conn[fdtab[newfd]].id)
  BY DEF ReceiveId, CloseNew
<1>3. CASE UNCHANGED <<clients, fd>>
  BY <1>1, <1>3, NoShift DEF ServerInv
<1>4. CASE \E r : Activate(conn[fdtab[newfd]].id, r)
                  /\ ~Contains(clients, conn[fdtab[newfd]].id)
  BY <1>1, <1>4, ActivateWalk
<1> QED BY <1>2, <1>3, <1>4

-----------------------------------------------------------------------------
(* The scan *)

(* While the scan serves a client, it stands.                              *)
LEMMA StillThere ==
    ASSUME ServerInv, WalkInv, pc \in {"scan", "recv", "frames"},
           pc' \in {"scan", "recv", "frames", "killed"},
           UNCHANGED <<clients, fd, pfds, cur, idx>>
    PROVE  WalkInv'
<1>1. ShiftedByOne'
  <2>1. ASSUME NEW s \in {0, 1}, Beside(s) PROVE Beside(s)'
    BY <2>1 DEF Beside, At
  <2> QED BY <2>1 DEF WalkInv, ShiftedByOne
<1> QED BY <1>1 DEF WalkInv

(* From one client to the next, the scan moves by one in both.             *)
LEMMA AdvanceWalk ==
    ASSUME ServerInv, ServerInv', WalkInv, pc \in {"scan", "recv", "frames"}, Advance,
           UNCHANGED pfds
    PROVE  WalkInv'
<1>1. /\ Types /\ Types' /\ pc' = "scan" /\ cur' = cur + 1 /\ idx' = idx + 1
      /\ UNCHANGED <<clients, fd>>
  BY DEF ServerInv, Advance
<1>2. ASSUME NEW s \in {0, 1}, Beside(s) PROVE Beside(s)'
  <2>1. \A i \in cur .. Len(clients) : Stands(At(i), idx + (i - cur) - s)
    BY <1>2 DEF Beside, Stands
  <2>2. ASSUME NEW i \in cur' .. Len(clients')
        PROVE  Stands(At(i), idx + (i - cur) - s)'
    <3>1. i \in cur .. Len(clients) /\ (idx + 1) + (i - (cur + 1)) - s = idx + (i - cur) - s
      BY <1>1, <2>2 DEF Types
    <3> QED BY <1>1, <2>1, <3>1 DEF Stands, At
  <2> QED BY <2>2 DEF Beside, Stands
<1> QED BY <1>1, <1>2 DEF WalkInv, ShiftedByOne

(* A client that is taken out leaves its place to the next one, and idx    *)
(* moves on to the entry of that one.                                      *)
LEMMA DeactivateWalk ==
    ASSUME ServerInv, ServerInv', WalkInv, pc \in {"recv", "frames"}, NEW r \in Connection,
           SamePlace(r, conn[ConnOf(At(cur))]),
           Deactivate([conn EXCEPT ![ConnOf(At(cur))] = r]),
           UNCHANGED pfds
    PROVE  WalkInv'
<1> DEFINE c == At(cur)
<1>1. Types /\ Types' /\ cur \in 1 .. Len(clients) /\ ListedOnce
  BY AtCur DEF ServerInv, Up, Registered
<1>2. /\ \A d \in Ids : d # c => fd'[d] = fd[d]
      /\ Len(clients') = Len(clients) - 1
      /\ \A i \in 1 .. Len(clients') :
            clients'[i] = IF i < cur THEN clients[i] ELSE clients[i + 1]
      /\ pc' = "scan" /\ cur' = cur /\ idx' = idx + 1
  BY DeactivateEffect
<1>3. c = clients[cur] /\ \A i \in 1 .. Len(clients) : clients[i] \in Ids
  BY <1>1 DEF Types, At
<1> HIDE DEF c
<1>4. ASSUME NEW s \in {0, 1}, Beside(s) PROVE Beside(s)'
  <2>1. \A i \in cur .. Len(clients) : Stands(At(i), idx + (i - cur) - s)
    BY <1>4 DEF Beside, Stands
  <2>2. ASSUME NEW i \in cur' .. Len(clients')
        PROVE  Stands(At(i), idx + (i - cur) - s)'
    <3>0. /\ cur \in Nat \ {0} /\ idx \in Nat /\ Len(clients) \in Nat
          /\ i \in cur .. Len(clients) - 1
      BY <1>1, <1>2, <2>2 DEF Types
    <3>1. /\ i + 1 \in cur .. Len(clients) /\ i + 1 \in 1 .. Len(clients) /\ i + 1 # cur
          /\ i \in 1 .. Len(clients) - 1 /\ ~(i < cur)
          /\ (idx + 1) + (i - cur) - s = idx + ((i + 1) - cur) - s
      BY <3>0
    <3>2. clients'[i] = clients[i + 1] /\ clients[i + 1] \in Ids
      BY <1>2, <1>3, <3>1
    <3>3. clients[i + 1] # c
      BY <1>1, <1>3, <3>1 DEF ListedOnce
    <3>4. fd'[clients'[i]] = fd[clients[i + 1]]
      BY <1>2, <3>2, <3>3
    <3> QED BY <1>2, <2>1, <3>1, <3>2, <3>4 DEF Stands, At
  <2> QED BY <2>2 DEF Beside, Stands
<1>5. ShiftedByOne
  BY DEF WalkInv
<1> QED BY <1>2, <1>4, <1>5 DEF WalkInv, ShiftedByOne

(* Serving a client, one step.                                             *)
LEMMA ServeWalk ==
    ASSUME ServerInv, ServerInv', WalkInv, Receive \/ HandleFrame
    PROVE  WalkInv'
<1>1. pc \in {"recv", "frames"} /\ UNCHANGED pfds
  BY DEF Receive, HandleFrame
<1>2. PICK r \in Connection :
         /\ SamePlace(r, conn[ConnOf(At(cur))])
         /\ \/ UNCHANGED <<clients, fd, cur, idx>> /\ pc' \in {"frames", "killed"}
            \/ Deactivate([conn EXCEPT ![ConnOf(At(cur))] = r])
  BY ReceiveEither, HandleFrameEither
<1>3. CASE UNCHANGED <<clients, fd, cur, idx>> /\ pc' \in {"frames", "killed"}
  BY <1>1, <1>3, StillThere
<1>4. CASE Deactivate([conn EXCEPT ![ConnOf(At(cur))] = r])
  BY <1>1, <1>2, <1>4, DeactivateWalk
<1> QED BY <1>2, <1>3, <1>4

LEMMA ScanWalk ==
    ASSUME ServerInv, ServerInv', WalkInv, ScanClient \/ FramesDone \/ EndRound
    PROVE  WalkInv'
<1>1. CASE EndRound
  BY <1>1, NoScan DEF EndRound, WalkInv
<1>2. CASE FramesDone
  BY <1>2, AdvanceWalk DEF FramesDone
<1>3. CASE ScanClient /\ Advance
  BY <1>3, AdvanceWalk DEF ScanClient
<1>4. CASE ScanClient /\ pc' = "recv" /\ UNCHANGED <<clients, fd, cur, idx>>
  BY <1>4, StillThere DEF ScanClient
<1>5. ScanClient => Advance \/ (pc' = "recv" /\ UNCHANGED <<clients, fd, cur, idx>>)
  BY DEF ScanClient
<1> QED BY <1>1, <1>2, <1>3, <1>4, <1>5

LEMMA NextWalk == ServerInv /\ WalkInv /\ [Next]_vars => WalkInv'
<1> SUFFICES ASSUME ServerInv, WalkInv, [Next]_vars PROVE WalkInv'
  OBVIOUS
<1>1. ServerInv'
  BY NextServerInv
<1>2. CASE UNCHANGED server
  BY <1>2 DEF server, WalkInv, Polled, ShiftedByOne, Beside, At
<1>3. World \/ UNCHANGED vars => UNCHANGED server
  BY DEF World, Connect, SendId, SendCommand, Leave, SendDatagram, Type, vars
<1> QED BY <1>1, <1>2, <1>3, PollWalk, BeforeAccept, AcceptWalk, ReceiveIdWalk, ScanWalk,
           ServeWalk DEF Next, ServerNext

(* server.c, the loop over active_clients with the index i into pfds:      *)
(* whoever comes or goes, the entry the scan looks at is that of the       *)
(* client it serves, or, after an accept, that of the client before it;    *)
(* it never strays further.                                                *)
THEOREM ScanShiftedByOne == Spec => []ShiftedByOne
<1>1. Init => ServerInv /\ WalkInv
  BY InitServerInv, InitWalk
<1>2. ServerInv /\ WalkInv /\ [Next]_vars => (ServerInv /\ WalkInv)'
  BY NextServerInv, NextWalk
<1>3. WalkInv => ShiftedByOne
  BY DEF WalkInv
<1> QED BY <1>1, <1>2, <1>3, PTL DEF Spec
=============================================================================
