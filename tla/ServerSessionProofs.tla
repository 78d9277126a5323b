------------------------ MODULE ServerSessionProofs -------------------------
(***************************************************************************)
(* Proofs about what module Server promises its users.                     *)
(*                                                                         *)
(* It implements the sessions of module Sessions, and a publication reaches*)
(* each connected subscriber once and nobody else.  Both follow from the   *)
(* registry: that just the active clients have a descriptor makes a        *)
(* reconnection go online and a disconnection go offline, and that every   *)
(* held connection belongs to an active client makes the descriptors       *)
(* publish writes to the connections of the subscribers.                   *)
(*                                                                         *)
(* And the subscriptions of an id are the balance of the commands carried  *)
(* out for it, over all the connections it ever had.  Asked counts those   *)
(* commands by connection and place; a command carried out adds one place, *)
(* which was free, and every other step leaves the places alone.  That the *)
(* new place is one Asked looks at needs the histories: no more is carried *)
(* out than sent.                                                          *)
(***************************************************************************)
EXTENDS ServerHistoryProofs

-----------------------------------------------------------------------------
(* The sessions: each step maps to a step of Sessions, or to none *)

LEMMA InitSessions == Init => Promise!Init
  BY DEF Init, Up, Promise!Init

(* A step that opens and closes nothing and carries nothing out.           *)
LEMMA SessionsRest ==
    ASSUME UNCHANGED <<fd, subs>>, Up \/ ~Up'
    PROVE  [Promise!Next]_(Promise!sessionVars)
<1>1. CASE Up
  BY <1>1 DEF Up, Promise!Next, Promise!Serve
<1>2. CASE ~Up /\ ~Up'
  BY <1>2 DEF Up, Promise!sessionVars
<1> QED BY <1>1, <1>2

(* A step of the loop that serves one client.                              *)
LEMMA ServeSession ==
    ASSUME Up,
           \E c \in Ids : \/ Promise!GoOnline(c)
                         \/ Promise!GoOffline(c)
                         \/ \E p \in Patterns : Promise!Subscribe(c, p) \/ Promise!Unsubscribe(c, p)
    PROVE  [Promise!Next]_(Promise!sessionVars)
<1>1. Promise!Serve
  BY Zenon DEF Promise!Serve
<1>2. Up' \in BOOLEAN
  BY DEF Up
<1>3. Promise!Next
  BY <1>1, <1>2, Zenon DEF Promise!Next
<1> QED BY <1>3, Zenon

(* The id of a client arrives: it goes online, unless it is turned away.   *)
LEMMA ReceiveIdSession ==
    ASSUME ServerInv, ReceiveId
    PROVE  [Promise!Next]_(Promise!sessionVars)
<1>1. /\ Types /\ Registered /\ Up /\ UNCHANGED subs /\ newfd \in Fds
      /\ conn[fdtab[newfd]].id \in Ids
  BY AtNew DEF ServerInv, Up, ReceiveId
<1>c. PICK c \in Ids : c = conn[fdtab[newfd]].id
  BY <1>1
<1>2. UNCHANGED fd \/ (~Contains(clients, c) /\ fd' = [fd EXCEPT ![c] = newfd])
  BY <1>c DEF ReceiveId, CloseNew, Activate
<1>3. CASE UNCHANGED fd
  BY <1>1, <1>3, SessionsRest
<1>4. CASE ~Contains(clients, c) /\ fd' = [fd EXCEPT ![c] = newfd]
  <2>1. fd[c] = None
    BY <1>1, <1>4 DEF Registered, ClientFdsOpen
  <2>2. {d \in Ids : fd'[d] # None} = {d \in Ids : fd[d] # None} \cup {c}
    BY <1>1, <1>4, NoneIsNone DEF Types
  <2>3. Promise!GoOnline(c)
    BY <1>1, <2>1, <2>2 DEF Promise!GoOnline
  <2> QED BY <1>1, <2>3, ServeSession, Zenon
<1> QED BY <1>2, <1>3, <1>4

(* The client at the scan disconnects: it goes offline.                    *)
LEMMA OfflineSet ==
    ASSUME ServerInv, pc \in {"recv", "frames"}, NEW c, c = At(cur), NEW cn, Deactivate(cn)
    PROVE  /\ c \in {d \in Ids : fd[d] # None}
           /\ {d \in Ids : fd'[d] # None} = {d \in Ids : fd[d] # None} \ {c}
<1>1. Types /\ At(cur) \in Ids /\ fd[At(cur)] \in Fds
  BY AtCur DEF ServerInv
<1>2. fd' = [fd EXCEPT ![At(cur)] = None]
  BY DEF Deactivate
<1> QED BY <1>1, <1>2, NoneIsNone DEF Types

LEMMA ReceiveSession ==
    ASSUME ServerInv, Receive
    PROVE  [Promise!Next]_(Promise!sessionVars)
<1>1. Up /\ pc = "recv" /\ UNCHANGED subs /\ At(cur) \in Ids
  BY AtCur DEF Receive, Up
<1>c. PICK c \in Ids : c = At(cur)
  BY <1>1
<1>2. UNCHANGED fd \/ \E cn : Deactivate(cn)
  BY DEF Receive
<1>3. ASSUME NEW cn, Deactivate(cn) PROVE [Promise!Next]_(Promise!sessionVars)
  <2>1. Promise!GoOffline(c)
    BY <1>1, <1>c, <1>3, OfflineSet DEF Promise!GoOffline
  <2> QED BY <1>1, <2>1, ServeSession, Zenon
<1> QED BY <1>1, <1>2, <1>3, SessionsRest

(* A frame: a command of a client that is online, which may be its last.   *)
LEMMA HandleFrameSession ==
    ASSUME ServerInv, HandleFrame
    PROVE  [Promise!Next]_(Promise!sessionVars)
<1>0. /\ Up /\ pc = "frames" /\ At(cur) \in Ids /\ Head(buf) \in Commands
      /\ fd[At(cur)] # None
  BY AtCur, HeadTailProperties, NoneIsNone DEF HandleFrame, Up, ServerInv, Types
<1>c. PICK c \in Ids : c = At(cur)
  BY <1>0
<1>m. PICK m \in Commands : m = Head(buf)
  BY <1>0
<1> DEFINE online == {d \in Ids : fd[d] # None}
           onlineNext == {d \in Ids : fd'[d] # None}
<1>1. c \in online
  BY <1>0, <1>c
<1>2. m.pat \in Patterns
  BY DEF Commands
<1>3. \/ Carry(c, m) /\ (UNCHANGED fd \/ \E cn : Deactivate(cn))
      \/ UNCHANGED subs /\ \E cn : Deactivate(cn)
  BY <1>c, <1>m DEF HandleFrame
<1>4. /\ UNCHANGED fd => onlineNext = online
      /\ \A cn : Deactivate(cn) => onlineNext = online \ {c}
  BY <1>0, <1>c, OfflineSet
<1>5. CASE Carry(c, m)
  <2>1. onlineNext \in {online, online \ {c}}
    BY <1>1, <1>3, <1>4, <1>5
  <2>2. Promise!Subscribe(c, m.pat) \/ Promise!Unsubscribe(c, m.pat)
    <3> QED BY <1>1, <1>5, <2>1 DEF Carry, Promise!Subscribe, Promise!Unsubscribe
  <2> QED BY <1>0, <1>2, <2>2, ServeSession, Zenon
<1>6. CASE UNCHANGED subs /\ \E cn : Deactivate(cn)
  <2>1. Promise!GoOffline(c)
    BY <1>1, <1>4, <1>6 DEF Promise!GoOffline
  <2> QED BY <1>0, <2>1, ServeSession, Zenon
<1> QED BY <1>3, <1>5, <1>6

(* After the loop: the sessions are thrown away, one by one.               *)
LEMMA DestroySession ==
    ASSUME ServerInv, Destroy
    PROVE  [Promise!Next]_(Promise!sessionVars)
<1>1. Types /\ ~Up /\ ~Up' /\ clients \o inactive # << >>
  BY DEF ServerInv, Destroy, Up
<1>2. PICK c \in Ids : c = Head(clients \o inactive)
  <2>1. clients \o inactive \in Seq(Ids)
    BY <1>1, ConcatProperties DEF Types
  <2> QED BY <1>1, <2>1, HeadTailProperties
<1>3. \/ UNCHANGED <<fd, subs>>
      \/ /\ subs' = [subs EXCEPT ![c] = [p \in Patterns |-> 0]]
         /\ fd' = [fd EXCEPT ![c] = None]
  BY <1>2 DEF Destroy
<1>4. CASE /\ subs' = [subs EXCEPT ![c] = [p \in Patterns |-> 0]]
           /\ fd' = [fd EXCEPT ![c] = None]
  <2>1. {d \in Ids : fd'[d] # None} = {d \in Ids : fd[d] # None} \ {c}
    BY <1>1, <1>2, <1>4 DEF Types
  <2>2. Promise!Discard(c)
    BY <1>4, <2>1 DEF Promise!Discard
  <2>3. Up' = Up
    BY <1>1 DEF Up
  <2>4. Promise!Next
    BY <1>1, <1>2, <2>2, <2>3, Zenon DEF Promise!Next
  <2> QED BY <2>4, Zenon
<1> QED BY <1>1, <1>3, <1>4, SessionsRest

LEMMA NextSessions == ServerInv /\ [Next]_vars => [Promise!Next]_(Promise!sessionVars)
<1> SUFFICES ASSUME ServerInv, [Next]_vars PROVE [Promise!Next]_(Promise!sessionVars)
  OBVIOUS
<1>1. CASE World \/ UNCHANGED vars
  <2>1. UNCHANGED server
    BY <1>1 DEF World, Connect, SendId, SendCommand, Leave, SendDatagram, Type, vars
  <2>2. UNCHANGED <<fd, subs>> /\ (Up \/ ~Up')
    BY <2>1 DEF server, Up
  <2> QED BY <2>2, SessionsRest
<1>2. CASE \/ Poll \/ PollFails \/ ReadStdin \/ ReadUdp \/ Accept \/ ScanClient \/ EndRound
           \/ FramesDone \/ Exit
  <2>1. UNCHANGED <<fd, subs>> /\ (Up \/ ~Up')
    BY <1>2 DEF Poll, PollFails, ReadStdin, ReadUdp, Accept, ScanClient, EndRound, FramesDone,
                Exit, Advance, Up
  <2> QED BY <2>1, SessionsRest
<1> QED BY <1>1, <1>2, ReceiveIdSession, ReceiveSession, HandleFrameSession, DestroySession
        DEF Next, ServerNext

(* The server implements the sessions: with sockets, two lists of clients  *)
(* and a descriptor per active client it keeps what a client subscribed to *)
(* from one connection to the next, and changes it by that client's own    *)
(* commands alone ("preserving subscriptions", README.md).                 *)
THEOREM ImplementsSessions == Spec => KeepsSessions
<1>1. Init => Promise!Init
  BY InitSessions
<1>2. ServerInv /\ [Next]_vars => [Promise!Next]_(Promise!sessionVars)
  BY NextSessions
<1> QED BY <1>1, <1>2, ServerSafe, PTL DEF Spec, KeepsSessions, Promise!Spec

-----------------------------------------------------------------------------
(* Publications *)

(* Outside of handle_new_tcp_connection, a connection is held just when it *)
(* is the one an active client's descriptor leads to.                      *)
LEMMA HeldConn ==
    ASSUME ServerInv, pc = "udp", NEW k \in Conns
    PROVE  /\ conn[k].phase = "held" <=> \E c \in Ids : fd[c] # None /\ ConnOf(c) = k
           /\ \A c \in Ids : fd[c] # None /\ ConnOf(c) = k => conn[k].id = c
<1>1. Types /\ Registered /\ newfd = None
  BY DEF ServerInv, Up, Registered, Arrivals
<1>2. ASSUME NEW c \in Ids, fd[c] # None
      PROVE  fd[c] \in Fds /\ fdtab[fd[c]] \in Conns /\ conn[ConnOf(c)].id = c
             /\ conn[ConnOf(c)].phase = "held"
  <2>1. fd[c] \in Fds /\ fdtab[fd[c]] \in Conns /\ fdtab[fd[c]] # None
        /\ conn[fdtab[fd[c]]].id = c
    BY <1>1, <1>2 DEF Types, Registered, ClientFdsOpen
  <2> QED BY <1>1, <2>1 DEF Registered, FdTable, ConnOf
<1>3. ASSUME conn[k].phase = "held" PROVE \E c \in Ids : fd[c] # None /\ ConnOf(c) = k
  <2>1. PICK f \in Fds : fdtab[f] = k
    BY <1>1, <1>3 DEF Registered, FdTable
  <2>2. f # None /\ fdtab[f] # None
    BY <2>1, NoneIsNone
  <2>3. PICK c \in Ids : fd[c] = f
    BY <1>1, <2>1, <2>2 DEF Registered, FdTable
  <2> QED BY <2>1, <2>2, <2>3 DEF ConnOf
<1> QED BY <1>2, <1>3

(* What publish writes to an open peer.                                    *)
LEMMA PublishReaches ==
    ASSUME ServerInv, pc = "udp", NEW t, Publish(t), pc' = "tcp",
           NEW k \in Conns, conn[k].peer = "open"
    PROVE  conn'[k].news = conn[k].news +
               IF conn[k].phase = "held" /\ conn[k].id \in Subscribers(t) THEN 1 ELSE 0
<1> DEFINE reached == {ConnOf(c) : c \in {d \in Subscribers(t) : fd[d] # None}} \ {None}
           more(j) == [conn[j] EXCEPT !.news = @ + 1]
<1>1. PICK result \in [reached -> UNION {Sent(conn[j], more(j)) : j \in reached}] :
          /\ \A j \in reached : result[j] \in Sent(conn[j], more(j))
          /\ conn' = [j \in Conns |-> IF j \in reached THEN result[j] ELSE conn[j]]
  BY DEF Publish
<1>2. conn[k] \in Connection /\ conn[k].news \in Nat
  BY DEF ServerInv, Types, Connection
<1>3. more(k).news = conn[k].news + 1
  BY <1>2 DEF Connection
<1>4. k \in reached <=> conn[k].phase = "held" /\ conn[k].id \in Subscribers(t)
  <2>1. k # None
    BY NoneIsNone
  <2>2. k \in reached <=> \E c \in Subscribers(t) : fd[c] # None /\ ConnOf(c) = k
    BY <2>1
  <2>3. Subscribers(t) \subseteq Ids
    BY DEF Subscribers
  <2> HIDE DEF reached
  <2> QED BY <2>2, <2>3, HeldConn
<1> HIDE DEF reached, more
<1>5. CASE k \in reached
  <2>1. conn'[k] = more(k)
    BY <1>1, <1>5 DEF Sent
  <2> QED BY <1>3, <1>4, <1>5, <2>1
<1>6. CASE k \notin reached
  <2>1. conn'[k] = conn[k]
    BY <1>1, <1>6
  <2> QED BY <1>2, <1>4, <1>6, <2>1
<1> QED BY <1>5, <1>6

Reaches ==
    pc = "udp" /\ pfds.udp /\ pc' = "tcp" =>
        \A k \in Conns :
            conn[k].peer = "open" =>
               conn'[k].news = conn[k].news +
                   IF conn[k].phase = "held" /\ conn[k].id \in Subscribers(Head(udpq))
                   THEN 1 ELSE 0

LEMMA NextReaches == ServerInv /\ [Next]_vars => Reaches
<1> SUFFICES ASSUME ServerInv, [Next]_vars, pc = "udp", pfds.udp, pc' = "tcp",
                    NEW k \in Conns, conn[k].peer = "open"
             PROVE  conn'[k].news = conn[k].news +
                        IF conn[k].phase = "held" /\ conn[k].id \in Subscribers(Head(udpq))
                        THEN 1 ELSE 0
  BY DEF Reaches
<1>1. ReadUdp
  <2>1. ~(World \/ UNCHANGED vars)
    BY DEF World, Connect, SendId, SendCommand, Leave, SendDatagram, Type, vars, server
  <2> QED BY <2>1 DEF Next, ServerNext, Poll, PollFails, ReadStdin, Accept, ReceiveId,
                      ScanClient, EndRound, Receive, HandleFrame, FramesDone, Destroy, Exit
<1>2. Publish(Head(udpq))
  BY <1>1 DEF ReadUdp
<1>3. PICK t : t = Head(udpq)
  OBVIOUS
<1> QED BY <1>2, <1>3, PublishReaches

(* A datagram reaches each connected subscriber of a matching pattern once *)
(* and no other connection: not one that has the descriptor an inactive    *)
(* client had before, nor one another client with the same id left         *)
(* (trie_publish, send_message).                                           *)
THEOREM ReachesSubscribers == Spec => PublishedToSubscribers
<1>1. ServerInv /\ [Next]_vars => [Reaches]_vars
  BY NextReaches
<1>2. [][Reaches]_vars => PublishedToSubscribers
  BY PTL DEF Reaches, PublishedToSubscribers
<1> QED BY <1>1, <1>2, ServerSafe, PTL DEF Spec


-----------------------------------------------------------------------------
(* The balance of subscriptions *)

(* The places of the commands carried out on connections cn: by connection *)
(* and position in its sequence of commands.                               *)
Places == Conns \X (1 .. MaxCommands)

DoneAt(cn, c, m) ==
    {x \in Places : /\ cn[x[1]].id = c /\ x[2] <= Len(cn[x[1]].applied)
                    /\ cn[x[1]].applied[x[2]] = m}

Command(op, p) == [op |-> op, pat |-> p]

LEMMA AskedIsBalance ==
    \A c \in Ids, p \in Patterns :
        Asked(c, p) = Cardinality(DoneAt(conn, c, Command("sub", p)))
                         - Cardinality(DoneAt(conn, c, Command("unsub", p)))
  BY DEF Asked, DoneAt, Places, Command

LEMMA FinitePlaces == \A cn, c, m : IsFiniteSet(DoneAt(cn, c, m))
                                       /\ Cardinality(DoneAt(cn, c, m)) \in Nat
<1>1. IsFiniteSet(Conns) /\ IsFiniteSet(1 .. MaxCommands)
  <2>1. 1 \in Int /\ NumConns \in Int /\ MaxCommands \in Int
    BY ServerAssumption
  <2> QED BY <2>1, FS_Interval, Zenon DEF Conns
<1>2. IsFiniteSet(Places)
  BY <1>1, FS_Product DEF Places
<1>3. \A cn, c, m : DoneAt(cn, c, m) \in SUBSET Places
  BY DEF DoneAt
<1> HIDE DEF Places
<1>4. \A cn, c, m : IsFiniteSet(DoneAt(cn, c, m))
  BY <1>2, <1>3, FS_Subset, Zenon
<1> QED BY <1>4, FS_CardinalityType, Zenon

-----------------------------------------------------------------------------
(* No connection carries more than MaxCommands commands *)

Bounded == \A k \in Conns : Len(conn[k].sent) <= MaxCommands

(* A command is sent only while fewer than MaxCommands were.               *)
LEMMA RoomForOne ==
    ASSUME Types, Bounded, NEW k \in Conns, NEW m \in Commands, SendCommand(k, m)
    PROVE  Len(conn[k].sent) < MaxCommands
<1> DEFINE all == {x \in Conns \X (1 .. MaxCommands) : x[2] <= Len(conn[x[1]].sent)}
           row == {k} \X (1 .. MaxCommands)
<1>1. Cardinality(all) < MaxCommands /\ MaxCommands \in Nat
  BY ServerAssumption DEF SendCommand
<1>2. Len(conn[k].sent) \in Nat /\ Len(conn[k].sent) <= MaxCommands
  <2>1. conn[k].sent \in Seq(Commands)
    BY DEF Types, Connection
  <2> QED BY <2>1 DEF Bounded
<1> SUFFICES ASSUME Len(conn[k].sent) = MaxCommands PROVE FALSE
  BY <1>1, <1>2
<1>3. IsFiniteSet(Conns) /\ IsFiniteSet(1 .. MaxCommands)
      /\ Cardinality(1 .. MaxCommands) = MaxCommands
  <2>1. 1 \in Int /\ NumConns \in Int /\ MaxCommands \in Int
    BY ServerAssumption
  <2>2. /\ IsFiniteSet(Conns) /\ IsFiniteSet(1 .. MaxCommands)
        /\ Cardinality(1 .. MaxCommands) = IF 1 > MaxCommands THEN 0 ELSE MaxCommands - 1 + 1
    BY <2>1, FS_Interval, Zenon DEF Conns
  <2> QED BY <1>1, <2>2
<1>4. IsFiniteSet(all)
  <2>1. IsFiniteSet(Conns \X (1 .. MaxCommands))
    BY <1>3, FS_Product
  <2>2. all \in SUBSET (Conns \X (1 .. MaxCommands))
    OBVIOUS
  <2> HIDE DEF all
  <2> QED BY <2>1, <2>2, FS_Subset, Zenon
<1>5. row \subseteq all
  <2> SUFFICES ASSUME NEW n \in 1 .. MaxCommands PROVE <<k, n>> \in all
    OBVIOUS
  <2> QED OBVIOUS
<1>6. Cardinality(row) = MaxCommands
  <2>1. IsFiniteSet({k}) /\ Cardinality({k}) = 1
    BY FS_Singleton
  <2>2. Cardinality(row) = Cardinality({k}) * Cardinality(1 .. MaxCommands)
    BY <1>3, <2>1, FS_Product
  <2> QED BY <1>1, <1>3, <2>1, <2>2
<1> HIDE DEF all, row
<1>7. Cardinality(row) <= Cardinality(all)
  BY <1>4, <1>5, FS_Subset, Zenon
<1>8. Cardinality(all) \in Nat
  BY <1>4, FS_CardinalityType
<1> QED BY <1>1, <1>6, <1>7, <1>8

-----------------------------------------------------------------------------
(* What the steps do to the commands sent and carried out *)

(* A connection has its id before anything is carried out on it.           *)
SameDone(r, s) == s.applied = r.applied /\ (s.id = r.id \/ r.applied = << >>)

Untouched == \A k \in Conns : conn'[k].sent = conn[k].sent /\ SameDone(conn[k], conn'[k])

LEMMA OneTouched ==
    ASSUME Types, NEW k \in Conns, NEW r, conn' = [conn EXCEPT ![k] = r],
           r.sent = conn[k].sent, SameDone(conn[k], r)
    PROVE  Untouched
<1>1. conn'[k] = r /\ \A j \in Conns : j # k => conn'[j] = conn[j]
  BY DEF Types
<1> QED BY <1>1 DEF Untouched, SameDone

LEMMA WorldUntouched ==
    ASSUME ServerInv, Histories, World,
           \A k \in Conns, m \in Commands : ~SendCommand(k, m)
    PROVE  Untouched
<1>0. Types /\ Registered
  BY DEF ServerInv, World, Connect, SendId, SendCommand, Leave, SendDatagram, Type
<1>1. ASSUME NEW k \in Conns, NEW c \in Ids, Connect(k, c) PROVE Untouched
  <2> DEFINE r == [conn[k] EXCEPT !.phase = "backlog", !.id = c]
  <2>1. conn' = [conn EXCEPT ![k] = r] /\ conn[k] \in Connection /\ conn[k].phase = "unused"
    BY <1>0, <1>1 DEF Connect, Types
  <2>2. conn[k].applied = << >>
    BY <1>0, <2>1 DEF Registered, Introduced, Histories, History
  <2>3. r.sent = conn[k].sent /\ SameDone(conn[k], r)
    BY <2>1, <2>2 DEF Connection, SameDone
  <2> HIDE DEF r
  <2> QED BY <1>0, <2>1, <2>3, OneTouched
<1>2. ASSUME NEW k \in Conns, SendId(k) PROVE Untouched
  <2> DEFINE r == [conn[k] EXCEPT !.idState = "queued"]
  <2>1. conn' = [conn EXCEPT ![k] = r] /\ conn[k] \in Connection
    BY <1>0, <1>2 DEF SendId, Types
  <2>2. r.sent = conn[k].sent /\ SameDone(conn[k], r)
    BY <2>1 DEF Connection, SameDone
  <2> HIDE DEF r
  <2> QED BY <1>0, <2>1, <2>2, OneTouched
<1>3. ASSUME NEW k \in Conns, NEW how \in {"fin", "rst"}, Leave(k, how) PROVE Untouched
  <2> DEFINE r == [conn[k] EXCEPT !.peer = how]
  <2>1. conn' = [conn EXCEPT ![k] = r] /\ conn[k] \in Connection
    BY <1>0, <1>3 DEF Leave, Types
  <2>2. r.sent = conn[k].sent /\ SameDone(conn[k], r)
    BY <2>1 DEF Connection, SameDone
  <2> HIDE DEF r
  <2> QED BY <1>0, <2>1, <2>2, OneTouched
<1>4. CASE (\E t \in Topics : SendDatagram(t)) \/ Type
  BY <1>4 DEF SendDatagram, Type, Untouched, SameDone
<1> QED BY <1>1, <1>2, <1>3, <1>4 DEF World

(* A command sent is not carried out yet.                                  *)
LEMMA SendCommandDone ==
    ASSUME Types, NEW k \in Conns, NEW m \in Commands, SendCommand(k, m)
    PROVE  /\ conn'[k].sent = Append(conn[k].sent, m)
           /\ \A j \in Conns : SameDone(conn[j], conn'[j])
           /\ \A j \in Conns : j # k => conn'[j].sent = conn[j].sent
<1> DEFINE r == [conn[k] EXCEPT !.inq = Append(@, m), !.sent = Append(@, m)]
<1>1. conn' = [conn EXCEPT ![k] = r] /\ conn[k] \in Connection
  BY DEF SendCommand, Types
<1>2. r.sent = Append(conn[k].sent, m) /\ SameDone(conn[k], r)
  BY <1>1 DEF Connection, SameDone
<1> HIDE DEF r
<1>3. conn'[k] = r /\ \A j \in Conns : j # k => conn'[j] = conn[j]
  BY <1>1 DEF Types
<1> QED BY <1>2, <1>3 DEF SameDone

LEMMA ArrivalUntouched ==
    ASSUME ServerInv, Accept \/ ReceiveId
    PROVE  Untouched /\ UNCHANGED subs
<1>0. Types /\ Registered
  BY DEF ServerInv, Up, Accept, ReceiveId
<1>1. CASE conn' = conn
  BY <1>1 DEF Untouched, SameDone, Accept, ReceiveId
<1>2. CASE Accept
  <2> DEFINE k == Head(backlog)
             r == [conn[k] EXCEPT !.phase = "held"]
  <2>1. CASE pfds.tcp /\ conn' = [conn EXCEPT ![k].phase = "held"]
    <3>1. backlog # << >> /\ backlog \in Seq(Conns)
      BY <1>0, <1>2, <2>1 DEF Registered, Arrivals, Accept, Types
    <3>2. k \in Conns
      BY <3>1, HeadTailProperties
    <3>3. conn[k] \in Connection /\ conn' = [conn EXCEPT ![k] = r]
      BY <1>0, <2>1, <3>2 DEF Types
    <3>4. r.sent = conn[k].sent /\ SameDone(conn[k], r)
      BY <3>3 DEF Connection, SameDone
    <3> HIDE DEF k, r
    <3> QED BY <1>0, <1>2, <3>2, <3>3, <3>4, OneTouched DEF Accept
  <2> QED BY <1>1, <1>2, <2>1 DEF Accept
<1>3. CASE ReceiveId
  <2> DEFINE k == fdtab[newfd]
  <2>1. k \in Conns /\ conn[k] \in Connection /\ UNCHANGED subs
    BY <1>3, AtNew DEF ReceiveId
  <2>2. PICK r \in {conn[k]} \cup IdRead(conn[k]) : CloseNew(r) \/ Activate(conn[k].id, r)
    BY <1>3 DEF ReceiveId
  <2> DEFINE s == [r EXCEPT !.phase = "closed"]
  <2>3. conn' = [conn EXCEPT ![k] = s] \/ conn' = [conn EXCEPT ![k] = r]
    BY <2>2 DEF CloseNew, Activate
  <2>4. r \in Connection /\ r.sent = conn[k].sent /\ SameDone(conn[k], r)
    <3> HIDE DEF k
    <3>1. CASE r = conn[k]
      BY <2>1, <3>1 DEF SameDone
    <3>2. CASE r \in IdRead(conn[k])
      <4>1. r \in Connection
        BY <2>1, <3>2, IdReadType
      <4>2. r.sent = conn[k].sent /\ SameDone(conn[k], r)
        BY <2>1, <3>2 DEF IdRead, SameDone, Connection
      <4> QED BY <4>1, <4>2
    <3> QED BY <2>2, <3>1, <3>2
  <2>5. s.sent = r.sent /\ SameDone(r, s)
    BY <2>4 DEF Connection, SameDone
  <2> HIDE DEF k, s
  <2> QED BY <1>0, <2>1, <2>3, <2>4, <2>5, OneTouched DEF SameDone
<1> QED BY <1>2, <1>3

(* The steps that only look, move on, publish, or end the server.          *)
LEMMA OtherUntouched ==
    ASSUME ServerInv,
           \/ Poll \/ PollFails \/ ReadStdin \/ ReadUdp \/ ScanClient \/ EndRound \/ FramesDone
           \/ Destroy \/ Exit \/ UNCHANGED vars
    PROVE  Untouched /\ (Up' => Up /\ UNCHANGED subs)
<1>0. Types
  BY DEF ServerInv
<1>1. CASE conn' = conn
  <2>1. Untouched
    BY <1>1 DEF Untouched, SameDone
  <2>2. Up' => Up /\ UNCHANGED subs
    BY DEF Poll, PollFails, ReadStdin, ReadUdp, ScanClient, EndRound, FramesDone, Destroy,
           Exit, vars, server, Up
  <2> QED BY <2>1, <2>2
<1>2. CASE ReadUdp
  <2>1. UNCHANGED subs /\ Up
    BY <1>2 DEF ReadUdp, Up
  <2>2. ASSUME NEW t, Publish(t) PROVE Untouched
    <3>1. \A k \in Conns : SameHistory(conn[k], conn'[k]) /\ SamePlace(conn'[k], conn[k])
      BY <1>0, <2>2, PublishQuiet, PublishKeepsPlaces DEF KeepsPlaces
    <3> QED BY <3>1 DEF Untouched, SameDone, SameHistory, SamePlace
  <2> QED BY <1>1, <1>2, <2>1, <2>2 DEF ReadUdp
<1>3. CASE Destroy
  <2>1. ~Up'
    BY <1>3 DEF Destroy, Up
  <2>2. ASSUME NEW j, conn' = Closed(j) PROVE Untouched
    <3> SUFFICES ASSUME NEW k \in Conns
                 PROVE  conn'[k].sent = conn[k].sent /\ SameDone(conn[k], conn'[k])
      BY DEF Untouched
    <3>1. conn[k] \in Connection
      BY <1>0 DEF Types
    <3>2. conn'[k] = conn[k] \/ conn'[k] = [conn[k] EXCEPT !.phase = "closed"]
      BY <1>0, <2>2 DEF Types, Closed
    <3> QED BY <3>1, <3>2 DEF SameDone, Connection
  <2>3. conn' = conn \/ \E j : conn' = Closed(j)
    BY <1>3 DEF Destroy
  <2> QED BY <1>1, <2>1, <2>2, <2>3
<1> QED BY <1>1, <1>2, <1>3 DEF Poll, PollFails, ReadStdin, ScanClient, EndRound, FramesDone,
                                Exit, vars, world

(* The disconnection keeps the record of what was done.                    *)
LEMMA DeactivateDone ==
    ASSUME ServerInv, pc \in {"recv", "frames"}, NEW k \in Conns, k = ConnOf(At(cur)),
           NEW r \in Connection, SamePlace(r, conn[k]), Deactivate([conn EXCEPT ![k] = r])
    PROVE  /\ conn'[k].sent = r.sent /\ conn'[k].applied = r.applied /\ conn'[k].id = r.id
           /\ \A j \in Conns : j # k => conn'[j] = conn[j]
<1>1. /\ conn'[k] = [r EXCEPT !.phase = "closed"]
      /\ \A j \in Conns : j # k => conn'[j] = conn[j]
  BY DeactivateEffect
<1> QED BY <1>1 DEF Connection

LEMMA ReceiveUntouched ==
    ASSUME ServerInv, Receive
    PROVE  Untouched /\ UNCHANGED subs
<1>1. /\ Types /\ pc = "recv" /\ UNCHANGED subs
      /\ ConnOf(At(cur)) \in Conns /\ conn[ConnOf(At(cur))] \in Connection
  BY AtCur DEF ServerInv, Receive
<1>2. PICK k \in Conns : k = ConnOf(At(cur))
  BY <1>1
<1>3. ASSUME NEW r \in Connection, Deactivate([conn EXCEPT ![k] = r]), SamePlace(r, conn[k]),
             r.sent = conn[k].sent, r.applied = conn[k].applied
      PROVE  Untouched
  BY <1>1, <1>2, <1>3, DeactivateDone DEF Untouched, SameDone, SamePlace
<1>4. CASE Deactivate(conn)
  <2>1. [conn EXCEPT ![k] = conn[k]] = conn /\ conn[k] \in Connection
    BY <1>1 DEF Types
  <2>2. SamePlace(conn[k], conn[k])
    BY DEF SamePlace
  <2>3. Deactivate([conn EXCEPT ![k] = conn[k]])
    BY <1>4, <2>1
  <2> QED BY <1>1, <1>3, <2>1, <2>2, <2>3
<1>5. ASSUME ~Deactivate(conn)
      PROVE  \E r \in Connection :
                /\ SamePlace(r, conn[k]) /\ r.sent = conn[k].sent /\ r.applied = conn[k].applied
                /\ conn' = [conn EXCEPT ![k] = r] \/ Deactivate([conn EXCEPT ![k] = r])
  <2>1. \E n \in 1 .. Len(conn[k].inq) :
           \/ \E x \in Losses(conn[k], n) :
                 conn' = [conn EXCEPT ![k] = Taken(conn[k], n, x.lost, x.part)]
           \/ Deactivate([conn EXCEPT ![k] = Taken(conn[k], n, n, TRUE)])
    BY <1>2, <1>5 DEF Receive
  <2>2. \E n \in 1 .. Len(conn[k].inq), lost \in Int, part \in BOOLEAN :
           /\ lost \in 0 .. n
           /\ \/ conn' = [conn EXCEPT ![k] = Taken(conn[k], n, lost, part)]
              \/ Deactivate([conn EXCEPT ![k] = Taken(conn[k], n, lost, part)])
    <3>1. PICK n \in 1 .. Len(conn[k].inq) :
             \/ \E x \in Losses(conn[k], n) :
                   conn' = [conn EXCEPT ![k] = Taken(conn[k], n, x.lost, x.part)]
             \/ Deactivate([conn EXCEPT ![k] = Taken(conn[k], n, n, TRUE)])
      BY <2>1
    <3>2. CASE Deactivate([conn EXCEPT ![k] = Taken(conn[k], n, n, TRUE)])
      <4>1. n \in Int /\ n \in 0 .. n /\ TRUE \in BOOLEAN
        OBVIOUS
      <4> QED BY <3>2, <4>1
    <3>3. ASSUME NEW x \in Losses(conn[k], n),
                 conn' = [conn EXCEPT ![k] = Taken(conn[k], n, x.lost, x.part)]
          PROVE  \E lost \in Int, part \in BOOLEAN :
                    lost \in 0 .. n /\ conn' = [conn EXCEPT ![k] = Taken(conn[k], n, lost, part)]
      <4>1. x.lost \in Int /\ x.lost \in 0 .. n /\ x.part \in BOOLEAN
        BY DEF Losses
      <4> QED BY <3>3, <4>1
    <3> QED BY <3>1, <3>2, <3>3
  <2>3. PICK n \in 1 .. Len(conn[k].inq), lost \in Int, part \in BOOLEAN :
           /\ lost \in 0 .. n
           /\ \/ conn' = [conn EXCEPT ![k] = Taken(conn[k], n, lost, part)]
              \/ Deactivate([conn EXCEPT ![k] = Taken(conn[k], n, lost, part)])
    BY <2>2
  <2> DEFINE old == conn[k]
             r == Taken(old, n, lost, part)
  <2>4. r \in Connection /\ SamePlace(r, old)
    <3>1. old \in Connection /\ n \in 1 .. Len(old.inq)
      BY <1>1 DEF Types
    <3> HIDE DEF old
    <3> QED BY <2>3, <3>1, TakenType
  <2>5. r.sent = old.sent /\ r.applied = old.applied
    BY <1>1 DEF Taken, Connection, Types
  <2>6. conn' = [conn EXCEPT ![k] = r] \/ Deactivate([conn EXCEPT ![k] = r])
    BY <2>3
  <2> HIDE DEF r
  <2> QED BY <2>4, <2>5, <2>6
<1>6. ASSUME NEW r \in Connection, conn' = [conn EXCEPT ![k] = r], SamePlace(r, conn[k]),
             r.sent = conn[k].sent, r.applied = conn[k].applied
      PROVE  Untouched
  BY <1>1, <1>6, OneTouched DEF SameDone, SamePlace
<1> QED BY <1>1, <1>3, <1>4, <1>5, <1>6

(* A frame handled: the command is done, for the client and on the         *)
(* connection it came by, or it is not and the client holds what it held.  *)
LEMMA HandleFrameDone ==
    ASSUME ServerInv, Histories, HandleFrame
    PROVE  \E k \in Conns :
              /\ conn[k].id = At(cur) /\ conn'[k].id = conn[k].id
              /\ conn'[k].sent = conn[k].sent
              /\ \A j \in Conns : j # k => conn'[j] = conn[j]
              /\ \/ /\ Carry(At(cur), Head(buf))
                    /\ conn'[k].applied = Append(conn[k].applied, Head(buf))
                 \/ UNCHANGED subs /\ conn'[k].applied = conn[k].applied
<1>1. /\ Types /\ Up /\ pc = "frames" /\ buf # << >> /\ ConnOf(At(cur)) \in Conns
      /\ buf \in Seq(Commands) /\ Head(buf) \in Commands /\ At(cur) \in Ids
      /\ fd[At(cur)] # None
  BY AtCur, HeadTailProperties, NoneIsNone DEF ServerInv, Up, HandleFrame, Types
<1>2. PICK k \in Conns : k = ConnOf(At(cur))
  BY <1>1
<1> DEFINE old == conn[k]
           did == Did(old, Head(buf))
           acked == Acked(old, Head(buf))
<1>3. old \in Connection /\ old.id = At(cur)
  BY <1>1, <1>2, AtCur
<1>4. \/ Carry(At(cur), Head(buf)) /\ \E s \in Sent(did, acked) :
            \/ conn' = [conn EXCEPT ![k] = s]
            \/ Deactivate([conn EXCEPT ![k] = s])
      \/ Carry(At(cur), Head(buf)) /\ conn' = [conn EXCEPT ![k] = did]
      \/ UNCHANGED subs /\ Deactivate(conn)
  BY <1>2 DEF HandleFrame, Did, Acked
<1> HIDE DEF old
<1>5. /\ did \in Connection /\ SamePlace(did, old) /\ did.sent = old.sent
      /\ did.applied = Append(old.applied, Head(buf))
  <2>1. Append(old.applied, Head(buf)) \in Seq(Commands)
    BY <1>1, <1>3 DEF Connection
  <2> QED BY <1>3, <2>1 DEF Did, Connection, SamePlace
<1>6. ASSUME NEW s \in Sent(did, acked)
      PROVE  /\ s \in Connection /\ SamePlace(s, old) /\ s.sent = old.sent
             /\ s.applied = Append(old.applied, Head(buf))
  <2>1. s \in Connection /\ SamePlace(s, old)
    BY <1>1, <1>3, <1>6, HandlePlace
  <2>2. acked.sent = did.sent /\ acked.applied = did.applied
    <3> HIDE DEF did
    <3> QED BY <1>5 DEF Acked, Connection, did
  <2>3. s = acked \/ s = did \/ s = [did EXCEPT !.peer = "dead"]
    BY <1>6 DEF Sent
  <2> HIDE DEF did, acked
  <2>4. s.sent = did.sent /\ s.applied = did.applied
    BY <1>5, <2>2, <2>3 DEF Connection
  <2> QED BY <1>5, <2>1, <2>4
<1> HIDE DEF did, acked
<1>7. ASSUME NEW s \in Connection, conn' = [conn EXCEPT ![k] = s]
      PROVE  conn'[k] = s /\ \A j \in Conns : j # k => conn'[j] = conn[j]
  BY <1>1, <1>7 DEF Types
<1>8. ASSUME Carry(At(cur), Head(buf)), NEW s \in Connection, SamePlace(s, old), s.sent = old.sent,
             s.applied = Append(old.applied, Head(buf)),
             conn' = [conn EXCEPT ![k] = s] \/ Deactivate([conn EXCEPT ![k] = s])
      PROVE  /\ conn'[k].id = conn[k].id /\ conn'[k].sent = conn[k].sent
             /\ \A j \in Conns : j # k => conn'[j] = conn[j]
             /\ conn'[k].applied = Append(conn[k].applied, Head(buf))
  BY <1>1, <1>2, <1>7, <1>8, DeactivateDone DEF old, SamePlace
<1>9. CASE UNCHANGED subs /\ Deactivate(conn)
  <2>1. [conn EXCEPT ![k] = conn[k]] = conn
    BY <1>1 DEF Types
  <2>2. SamePlace(conn[k], conn[k])
    BY DEF SamePlace
  <2>3. Deactivate([conn EXCEPT ![k] = conn[k]])
    BY <1>9, <2>1
  <2> QED BY <1>1, <1>2, <1>3, <1>9, <2>2, <2>3, DeactivateDone DEF old
<1>10. CASE Carry(At(cur), Head(buf)) /\ conn' = [conn EXCEPT ![k] = did]
  BY <1>3, <1>5, <1>8, <1>10 DEF old
<1>11. ASSUME Carry(At(cur), Head(buf)), NEW s \in Sent(did, acked),
              conn' = [conn EXCEPT ![k] = s] \/ Deactivate([conn EXCEPT ![k] = s])
       PROVE  /\ conn'[k].id = conn[k].id /\ conn'[k].sent = conn[k].sent
              /\ \A j \in Conns : j # k => conn'[j] = conn[j]
              /\ conn'[k].applied = Append(conn[k].applied, Head(buf))
  BY <1>6, <1>8, <1>11
<1> QED BY <1>3, <1>4, <1>9, <1>10, <1>11 DEF old

-----------------------------------------------------------------------------
(* The invariant *)

Balanced ==
    \A c \in Ids, p \in Patterns :
        subs[c][p] = Cardinality(DoneAt(conn, c, Command("sub", p)))
                        - Cardinality(DoneAt(conn, c, Command("unsub", p)))

BalanceInv == Bounded /\ (Up => Balanced)

(* Where nothing is carried out, every client has the commands it had.     *)
LEMMA DoneKept ==
    ASSUME \A k \in Conns : SameDone(conn[k], conn'[k]),
           \A k \in Conns : conn[k].applied \in Seq(Commands)
    PROVE  \A c, m : DoneAt(conn', c, m) = DoneAt(conn, c, m)
<1>1. ASSUME NEW x \in Places
      PROVE  /\ x[1] \in Conns /\ x[2] \in Nat \ {0}
             /\ conn'[x[1]].applied = conn[x[1]].applied
             /\ \/ conn'[x[1]].id = conn[x[1]].id
                \/ ~(x[2] <= Len(conn[x[1]].applied))
  <2>1. x[1] \in Conns /\ x[2] \in Nat \ {0}
    BY DEF Places
  <2> DEFINE r == conn[x[1]]
             s == conn'[x[1]]
  <2>2. s.applied = r.applied /\ (s.id = r.id \/ r.applied = << >>)
    BY <2>1 DEF SameDone
  <2>3. r.applied = << >> => ~(x[2] <= Len(r.applied))
    <3> HIDE DEF r
    <3>1. Len(<< >>) = 0
      BY EmptySeq
    <3> QED BY <2>1, <3>1
  <2> QED BY <2>1, <2>2, <2>3
<1> QED BY <1>1 DEF DoneAt

(* A command carried out is one more at its client and pattern.            *)
LEMMA DoneGrows ==
    ASSUME NEW k \in Conns, NEW m \in Commands,
           \A j \in Conns : conn[j].applied \in Seq(Commands),
           conn'[k].applied = Append(conn[k].applied, m), conn'[k].id = conn[k].id,
           \A j \in Conns : j # k => conn'[j] = conn[j],
           Len(conn[k].applied) + 1 <= MaxCommands
    PROVE  /\ \A c, n : c # conn[k].id \/ n # m => DoneAt(conn', c, n) = DoneAt(conn, c, n)
           /\ Cardinality(DoneAt(conn', conn[k].id, m))
                 = Cardinality(DoneAt(conn, conn[k].id, m)) + 1
<1> DEFINE a == conn[k].applied
           new == <<k, Len(a) + 1>>
<1>1. /\ a \in Seq(Commands) /\ Len(a) \in Nat
      /\ Len(Append(a, m)) = Len(a) + 1
      /\ \A i \in 1 .. Len(a) : Append(a, m)[i] = a[i]
      /\ Append(a, m)[Len(a) + 1] = m
  BY AppendProperties, LenProperties
<1>2. new \in Places
  BY <1>1, ServerAssumption DEF Places
<1>3. ASSUME NEW x \in Places, NEW c, NEW n
      PROVE  x \in DoneAt(conn', c, n) <=>
                x \in DoneAt(conn, c, n) \/ (x = new /\ c = conn[k].id /\ n = m)
  <2>1. x = <<x[1], x[2]>> /\ x[1] \in Conns /\ x[2] \in Nat \ {0}
    BY DEF Places
  <2>2. CASE x[1] # k
    <3>1. x # new
      BY <2>1, <2>2
    <3>2. conn'[x[1]] = conn[x[1]]
      BY <2>1, <2>2
    <3> QED BY <3>1, <3>2 DEF DoneAt
  <2>3. CASE x[1] = k
    <3>1. x \in DoneAt(conn, c, n) <=> conn[k].id = c /\ x[2] <= Len(a) /\ a[x[2]] = n
      BY <2>3 DEF DoneAt
    <3>2. x \in DoneAt(conn', c, n) <=>
             conn[k].id = c /\ x[2] <= Len(a) + 1 /\ Append(a, m)[x[2]] = n
      BY <1>1, <2>3 DEF DoneAt
    <3>3. CASE x[2] = Len(a) + 1
      <4>1. x = new
        BY <2>1, <2>3, <3>3
      <4>2. ~(x[2] <= Len(a)) /\ x[2] <= Len(a) + 1 /\ Append(a, m)[x[2]] = m
        BY <1>1, <3>3
      <4> QED BY <3>1, <3>2, <4>1, <4>2
    <3>4. CASE x[2] # Len(a) + 1
      <4>1. x # new
        BY <2>1, <3>4
      <4>2. x[2] <= Len(a) + 1 <=> x[2] <= Len(a)
        BY <1>1, <2>1, <3>4
      <4>3. x[2] <= Len(a) => Append(a, m)[x[2]] = a[x[2]]
        BY <1>1, <2>1
      <4> QED BY <3>1, <3>2, <4>1, <4>2, <4>3
    <3> QED BY <3>3, <3>4
  <2> QED BY <2>2, <2>3
<1> HIDE DEF a
<1>4. \A c, n : DoneAt(conn, c, n) \subseteq Places /\ DoneAt(conn', c, n) \subseteq Places
  BY DEF DoneAt
<1>5. \A c, n : c # conn[k].id \/ n # m => DoneAt(conn', c, n) = DoneAt(conn, c, n)
  <2> SUFFICES ASSUME NEW c, NEW n, c # conn[k].id \/ n # m
               PROVE  DoneAt(conn', c, n) = DoneAt(conn, c, n)
    OBVIOUS
  <2>1. \A x \in Places : x \in DoneAt(conn', c, n) <=> x \in DoneAt(conn, c, n)
    BY <1>3
  <2>2. DoneAt(conn', c, n) \subseteq Places /\ DoneAt(conn, c, n) \subseteq Places
    BY <1>4
  <2> QED BY <2>1, <2>2, Zenon
<1> DEFINE old == DoneAt(conn, conn[k].id, m)
           grown == DoneAt(conn', conn[k].id, m)
<1>6. grown = old \cup {new}
  BY <1>2, <1>3, <1>4, SMTT(30)
<1>7. new \notin old
  <2>1. ~(Len(a) + 1 <= Len(a))
    BY <1>1
  <2>2. new[1] = k /\ new[2] = Len(a) + 1
    OBVIOUS
  <2> HIDE DEF new
  <2> QED BY <2>1, <2>2 DEF DoneAt, a
<1>8. IsFiniteSet(old)
  BY FinitePlaces
<1> HIDE DEF new, old, grown
<1>9. Cardinality(grown) = Cardinality(old) + 1
  <2>1. Cardinality(old \cup {new}) =
            IF new \in old THEN Cardinality(old) ELSE Cardinality(old) + 1
    BY <1>8, FS_AddElement, Zenon
  <2> QED BY <1>6, <1>7, <2>1
<1> QED BY <1>5, <1>9 DEF old, grown

(* No more is carried out than was sent.                                   *)
LEMMA PrefixOfDue ==
    ASSUME NEW r, r.applied \in Seq(Commands), r.sent \in Seq(Commands), r.skipped \in Nat,
           r.skipped <= Len(r.sent), IsPrefix(r.applied, Due(r))
    PROVE  Len(r.applied) <= Len(r.sent)
<1>1. ASSUME NEW a \in Seq(Commands), NEW s \in Seq(Commands), NEW n \in Nat, n <= Len(s),
             IsPrefix(a, SubSeq(s, n + 1, Len(s)))
      PROVE  Len(a) <= Len(s)
  <2>1. Len(s) \in Nat /\ Len(a) \in Nat /\ \A i \in 1 .. Len(s) : s[i] \in Commands
    BY <1>1
  <2>2. /\ SubSeq(s, n + 1, Len(s)) \in Seq(Commands)
        /\ Len(SubSeq(s, n + 1, Len(s))) = IF n + 1 <= Len(s) THEN Len(s) - (n + 1) + 1 ELSE 0
    BY <1>1, <2>1, SubSeqProperties
  <2>3. Len(a) <= Len(SubSeq(s, n + 1, Len(s)))
    BY <1>1, <2>2, PrefixByElement
  <2> QED BY <2>1, <2>2, <2>3
<1> QED BY <1>1 DEF Due

(* What carrying out a command does to what a client holds.                *)
LEMMA CarryEffect ==
    ASSUME subs \in [Ids -> [Patterns -> Nat]], NEW c \in Ids, NEW m \in Commands, Carry(c, m)
    PROVE  /\ \A d \in Ids, p \in Patterns : d # c \/ p # m.pat => subs'[d][p] = subs[d][p]
           /\ m.pat \in Patterns
           /\ \/ m = Command("sub", m.pat) /\ subs'[c][m.pat] = subs[c][m.pat] + 1
              \/ m = Command("unsub", m.pat) /\ subs'[c][m.pat] = subs[c][m.pat] - 1
<1>1. m.pat \in Patterns /\ m = [op |-> m.op, pat |-> m.pat]
  BY DEF Commands
<1>2. ASSUME NEW n, subs' = [subs EXCEPT ![c][m.pat] = n]
      PROVE  /\ subs'[c][m.pat] = n
             /\ \A d \in Ids, p \in Patterns : d # c \/ p # m.pat => subs'[d][p] = subs[d][p]
  BY <1>1, <1>2
<1> QED BY <1>1, <1>2 DEF Carry, Command

LEMMA CarryBalanced ==
    ASSUME Types, Balanced, NEW c \in Ids, NEW m \in Commands, Carry(c, m),
           \A d, n : d # c \/ n # m => DoneAt(conn', d, n) = DoneAt(conn, d, n),
           Cardinality(DoneAt(conn', c, m)) = Cardinality(DoneAt(conn, c, m)) + 1
    PROVE  Balanced'
<1> SUFFICES ASSUME NEW d \in Ids, NEW p \in Patterns
             PROVE  subs'[d][p] = Cardinality(DoneAt(conn', d, Command("sub", p)))
                                     - Cardinality(DoneAt(conn', d, Command("unsub", p)))
  BY DEF Balanced
<1> DEFINE was(op) == Cardinality(DoneAt(conn, d, Command(op, p)))
           is(op) == Cardinality(DoneAt(conn', d, Command(op, p)))
<1>1. subs[d][p] = was("sub") - was("unsub")
  BY DEF Balanced
<1>2. was("sub") \in Nat /\ was("unsub") \in Nat
  BY FinitePlaces
<1>3. /\ \A e \in Ids, q \in Patterns : e # c \/ q # m.pat => subs'[e][q] = subs[e][q]
      /\ m.pat \in Patterns
      /\ \/ m = Command("sub", m.pat) /\ subs'[c][m.pat] = subs[c][m.pat] + 1
         \/ m = Command("unsub", m.pat) /\ subs'[c][m.pat] = subs[c][m.pat] - 1
  BY CarryEffect DEF Types
<1>4. \A x, y, e, f : Command(x, e) = Command(y, f) => x = y /\ e = f
  BY DEF Command
<1>5. CASE d # c \/ p # m.pat
  <2>1. Command("sub", p) = m \/ Command("unsub", p) = m => d # c
    BY <1>3, <1>4, <1>5
  <2>2. is("sub") = was("sub") /\ is("unsub") = was("unsub")
    BY <2>1
  <2> QED BY <1>1, <1>3, <1>5, <2>2
<1>6. CASE d = c /\ p = m.pat /\ m = Command("sub", m.pat)
  <2>1. m # Command("unsub", p)
    BY <1>4, <1>6
  <2>2. is("sub") = was("sub") + 1 /\ is("unsub") = was("unsub")
    BY <1>6, <2>1
  <2>3. subs'[c][m.pat] = subs[c][m.pat] + 1
    BY <1>3, <1>4, <1>6
  <2> HIDE DEF was, is
  <2> QED BY <1>1, <1>2, <1>6, <2>2, <2>3 DEF is
<1>7. CASE d = c /\ p = m.pat /\ m = Command("unsub", m.pat)
  <2>1. m # Command("sub", p)
    BY <1>4, <1>7
  <2>2. is("unsub") = was("unsub") + 1 /\ is("sub") = was("sub")
    BY <1>7, <2>1
  <2>3. subs'[c][m.pat] = subs[c][m.pat] - 1
    BY <1>3, <1>4, <1>7
  <2> HIDE DEF was, is
  <2> QED BY <1>1, <1>2, <1>7, <2>2, <2>3 DEF is
<1> QED BY <1>3, <1>5, <1>6, <1>7

LEMMA BalanceStep ==
    ASSUME ServerInv, ServerInv', Histories, Histories', BalanceInv, [Next]_vars
    PROVE  BalanceInv'
<1>0. Types /\ Types' /\ \A k \in Conns : conn[k].applied \in Seq(Commands)
  BY DEF ServerInv, Types, Connection
<1>1. ASSUME \A k \in Conns : SameDone(conn[k], conn'[k]), Up' => Up /\ UNCHANGED subs
      PROVE  Up' => Balanced'
  <2>1. \A c, m : DoneAt(conn', c, m) = DoneAt(conn, c, m)
    BY <1>0, <1>1, DoneKept
  <2> QED BY <1>1, <2>1 DEF BalanceInv, Balanced
<1>2. ASSUME Untouched, Up' => Up /\ UNCHANGED subs PROVE BalanceInv'
  BY <1>1, <1>2 DEF Untouched, BalanceInv, Bounded
<1>3. ASSUME NEW k \in Conns, NEW m \in Commands, SendCommand(k, m) PROVE BalanceInv'
  <2>1. /\ conn'[k].sent = Append(conn[k].sent, m)
        /\ \A j \in Conns : SameDone(conn[j], conn'[j])
        /\ \A j \in Conns : j # k => conn'[j].sent = conn[j].sent
    BY <1>0, <1>3, SendCommandDone
  <2>2. Up /\ UNCHANGED subs
    BY <1>3 DEF SendCommand, server
  <2>3. Len(conn'[k].sent) <= MaxCommands
    <3>1. Len(conn[k].sent) < MaxCommands /\ conn[k].sent \in Seq(Commands)
      BY <1>0, <1>3, RoomForOne DEF BalanceInv, Types, Connection
    <3>2. Len(conn'[k].sent) = Len(conn[k].sent) + 1 /\ Len(conn[k].sent) \in Nat
      BY <2>1, <3>1, AppendProperties, LenProperties
    <3> QED BY <3>1, <3>2, ServerAssumption
  <2>4. Bounded'
    BY <2>1, <2>3 DEF BalanceInv, Bounded
  <2> QED BY <1>1, <2>1, <2>2, <2>4 DEF BalanceInv
<1>4. CASE World
  <2>1. UNCHANGED subs /\ Up
    BY <1>4 DEF World, Connect, SendId, SendCommand, Leave, SendDatagram, Type, server
  <2> QED BY <1>2, <1>3, <1>4, <2>1, WorldUntouched
<1>5. CASE Accept \/ ReceiveId \/ Receive
  <2>1. Up /\ Untouched /\ UNCHANGED subs
    BY <1>5, ArrivalUntouched, ReceiveUntouched DEF Accept, ReceiveId, Receive, Up
  <2> QED BY <1>2, <2>1
<1>6. CASE \/ Poll \/ PollFails \/ ReadStdin \/ ReadUdp \/ ScanClient \/ EndRound \/ FramesDone
           \/ Destroy \/ Exit \/ UNCHANGED vars
  BY <1>2, <1>6, OtherUntouched
<1>7. CASE HandleFrame
  <2>1. PICK k \in Conns :
              /\ conn[k].id = At(cur) /\ conn'[k].id = conn[k].id
              /\ conn'[k].sent = conn[k].sent
              /\ \A j \in Conns : j # k => conn'[j] = conn[j]
              /\ \/ /\ Carry(At(cur), Head(buf))
                    /\ conn'[k].applied = Append(conn[k].applied, Head(buf))
                 \/ UNCHANGED subs /\ conn'[k].applied = conn[k].applied
    BY <1>7, HandleFrameDone
  <2>2. Up /\ At(cur) \in Ids /\ Head(buf) \in Commands
    BY <1>0, <1>7, AtCur, HeadTailProperties DEF HandleFrame, Up, Types
  <2>3. CASE UNCHANGED subs /\ conn'[k].applied = conn[k].applied
    BY <1>2, <2>1, <2>2, <2>3 DEF Untouched, SameDone
  <2>4. CASE /\ Carry(At(cur), Head(buf))
             /\ conn'[k].applied = Append(conn[k].applied, Head(buf))
    <3> DEFINE m == Head(buf)
               c == At(cur)
    <3>1. Bounded'
      BY <2>1 DEF BalanceInv, Bounded
    <3>2. Len(conn[k].applied) + 1 <= MaxCommands
      <4>1. /\ conn'[k].applied \in Seq(Commands) /\ conn'[k].sent \in Seq(Commands)
            /\ conn'[k].skipped \in Nat /\ conn'[k].skipped <= Len(conn'[k].sent)
            /\ IsPrefix(conn'[k].applied, Due(conn'[k]))
        BY <1>0 DEF Types, Connection, Histories, History
      <4>2. Len(conn'[k].applied) <= Len(conn'[k].sent)
        BY <4>1, PrefixOfDue
      <4>3. /\ Len(conn'[k].applied) = Len(conn[k].applied) + 1
            /\ Len(conn[k].applied) \in Nat /\ Len(conn'[k].sent) \in Nat
        BY <1>0, <2>2, <2>4, <4>1, AppendProperties, LenProperties
      <4> QED BY <3>1, <4>2, <4>3, ServerAssumption DEF Bounded
    <3>3. /\ \A d, n : d # c \/ n # m => DoneAt(conn', d, n) = DoneAt(conn, d, n)
          /\ Cardinality(DoneAt(conn', c, m)) = Cardinality(DoneAt(conn, c, m)) + 1
      <4> HIDE DEF m
      <4> QED BY <1>0, <2>1, <2>2, <2>4, <3>2, DoneGrows DEF m
    <3>4. Balanced'
      BY <1>0, <2>2, <2>4, <3>3, CarryBalanced DEF BalanceInv
    <3> QED BY <3>1, <3>4 DEF BalanceInv
  <2> QED BY <2>1, <2>3, <2>4
<1> QED BY <1>4, <1>5, <1>6, <1>7 DEF Next, ServerNext

LEMMA InitBalance == Init => BalanceInv
<1> SUFFICES ASSUME Init PROVE BalanceInv
  OBVIOUS
<1>1. \A k \in Conns : conn[k].sent = << >> /\ conn[k].applied = << >>
  BY DEF Init, Unused
<1>2. Len(<< >>) = 0
  BY EmptySeq
<1>3. Bounded
  BY <1>1, <1>2, ServerAssumption DEF Bounded
<1>4. \A c, m : DoneAt(conn, c, m) = {}
  <2>1. ASSUME NEW c, NEW m, NEW x \in DoneAt(conn, c, m) PROVE FALSE
    <3>1. x[1] \in Conns /\ x[2] \in 1 .. MaxCommands /\ x[2] <= Len(conn[x[1]].applied)
      BY <2>1 DEF DoneAt, Places
    <3> QED BY <1>1, <1>2, <3>1, ServerAssumption
  <2> QED BY <2>1
<1>5. \A c \in Ids, p \in Patterns : subs[c][p] = 0
  BY DEF Init
<1>6. Cardinality({}) = 0
  BY FS_EmptySet
<1>7. Balanced
  BY <1>4, <1>5, <1>6 DEF Balanced
<1> QED BY <1>3, <1>7 DEF BalanceInv

(* What each client holds is the balance of the commands carried out for   *)
(* its id, over all its connections: none is lost when it disconnects and  *)
(* comes back, and none of another client's is added (run_server,          *)
(* "client disconnected: keep subscriptions").                             *)
THEOREM SubscriptionsStay == Spec => []SubscriptionsKept
<1>1. Init => ServerInv /\ Histories /\ BalanceInv
  BY InitServerInv, InitHistories, InitBalance
<1>2. ServerInv /\ Histories /\ BalanceInv /\ [Next]_vars
         => ServerInv' /\ Histories' /\ BalanceInv'
  BY NextServerInv, NextHistories, BalanceStep
<1>3. BalanceInv => SubscriptionsKept
  BY AskedIsBalance DEF BalanceInv, Balanced, SubscriptionsKept
<1> QED BY <1>1, <1>2, <1>3, PTL DEF Spec

=============================================================================
