------------------------ MODULE ServerHistoryProofs -------------------------
(***************************************************************************)
(* Proofs about what happened on the connections of module Server: the     *)
(* commands of a connection are carried out in order and acknowledged.     *)
(* What is due on a connection, the commands sent less the first ones that *)
(* the recv of the id cost, is at every moment the commands carried out,   *)
(* the frames in hand and those not received yet, one after the other;     *)
(* that is inductive where CommandsInOrder alone is not.                   *)
(***************************************************************************)
EXTENDS ServerProofs

-----------------------------------------------------------------------------
(* The history of one connection *)

(* What the server has to carry out on a connection, from its start.       *)
Due(r) == SubSeq(r.sent, r.skipped + 1, Len(r.sent))

(* What is true of a connection whatever the server is doing.              *)
History(r) ==
    /\ r.skipped <= Len(r.sent)
    /\ r.idState # "read" => /\ r.applied = << >> /\ r.skipped = 0
                             /\ ~r.garbled /\ r.inq = r.sent
    /\ r.garbled => r.applied = << >>
    /\ IsPrefix(r.applied, Due(r)) /\ IsPrefix(r.acked, r.applied)
    /\ r.peer = "open" => r.acked = r.applied

(* As long as the connection is held, nothing of it is missing.            *)
Complete(r, hand) == Due(r) = (r.applied \o hand) \o r.inq

Histories ==
    /\ \A k \in Conns : History(conn[k])
    /\ Up => /\ \A k \in Conns : conn[k].phase = "held" => Complete(conn[k], InHand(k))
             /\ pc = "frames" /\ conn[ConnOf(At(cur))].garbled => buf = << >>
             /\ \A c \in Ids : fd[c] # None => conn[ConnOf(c)].idState = "read"

(* A step that is not about the commands of a connection.                  *)
SameHistory(r, s) ==
    /\ s.inq = r.inq /\ s.sent = r.sent /\ s.skipped = r.skipped
    /\ s.garbled = r.garbled /\ s.applied = r.applied /\ s.acked = r.acked
    /\ s.idState = "read" <=> r.idState = "read"
    /\ s.peer = "open" => r.peer = "open"

LEMMA HistoryKept ==
    ASSUME NEW r, NEW s, SameHistory(r, s)
    PROVE  /\ History(r) => History(s)
           /\ \A hand : Complete(r, hand) => Complete(s, hand)
  BY DEF SameHistory, History, Complete, Due

(* What a history is made of.                                              *)
LEMMA HistoryTypes ==
    ASSUME NEW r \in Connection
    PROVE  /\ r.inq \in Seq(Commands) /\ r.sent \in Seq(Commands)
           /\ r.applied \in Seq(Commands) /\ r.acked \in Seq(Commands)
           /\ r.skipped \in Nat /\ r.garbled \in BOOLEAN
           /\ r.skipped <= Len(r.sent) => Due(r) \in Seq(Commands)
<1>1. /\ r.inq \in Seq(Commands) /\ r.sent \in Seq(Commands)
      /\ r.applied \in Seq(Commands) /\ r.acked \in Seq(Commands)
      /\ r.skipped \in Nat /\ r.garbled \in BOOLEAN
  BY DEF Connection
<1>2. r.skipped <= Len(r.sent) => Due(r) \in Seq(Commands)
  <2>1. \A i \in 1 .. Len(r.sent) : r.sent[i] \in Commands
    BY <1>1
  <2>2. \A i \in r.skipped + 1 .. Len(r.sent) : i \in 1 .. Len(r.sent)
    BY <1>1
  <2> QED BY <1>1, <2>1, <2>2, SubSeqProperties DEF Due
<1> QED BY <1>1, <1>2

(* A command sent is due behind all that are.                              *)
LEMMA SendHistory ==
    ASSUME NEW r \in Connection, NEW m \in Commands, History(r), NEW s \in Connection,
           s = [r EXCEPT !.inq = Append(@, m), !.sent = Append(@, m)]
    PROVE  /\ History(s)
           /\ \A hand \in Seq(Commands) : Complete(r, hand) => Complete(s, hand)
<1>1. /\ s.inq = Append(r.inq, m) /\ s.sent = Append(r.sent, m) /\ s.skipped = r.skipped
      /\ s.garbled = r.garbled /\ s.applied = r.applied /\ s.acked = r.acked
      /\ s.idState = r.idState /\ s.peer = r.peer
  BY DEF Connection
<1>2. /\ r.inq \in Seq(Commands) /\ r.sent \in Seq(Commands)
      /\ r.applied \in Seq(Commands) /\ r.skipped \in Nat /\ r.skipped <= Len(r.sent)
      /\ Due(r) \in Seq(Commands)
  BY HistoryTypes DEF History
<1>3. Due(s) = Append(Due(r), m)
  <2> DEFINE a == r.sent
             n == r.skipped
  <2>1. a \in Seq(Commands) /\ n \in Nat /\ n <= Len(a)
    BY <1>2
  <2>2. SubSeq(Append(a, m), n + 1, Len(Append(a, m))) = Append(SubSeq(a, n + 1, Len(a)), m)
    <3> HIDE DEF a, n
    <3> QED BY <2>1, RestGrows, SMTT(30) DEF RestAppends
  <2> QED BY <1>1, <2>2 DEF Due
<1>4. IsPrefix(s.applied, Due(s))
  BY <1>1, <1>2, <1>3, PrefixGrows DEF History
<1>5. s.skipped <= Len(s.sent)
  BY <1>1, <1>2, AppendProperties, LenProperties
<1>6. History(s)
  BY <1>1, <1>4, <1>5 DEF History
<1>7. ASSUME NEW hand \in Seq(Commands), Complete(r, hand) PROVE Complete(s, hand)
  <2> DEFINE a == r.applied \o hand
             b == r.inq
             d == Due(r)
  <2>1. a \in Seq(Commands) /\ b \in Seq(Commands) /\ d \in Seq(Commands) /\ d = a \o b
    BY <1>2, <1>7, ConcatProperties DEF Complete
  <2>2. Append(d, m) = a \o Append(b, m)
    <3> HIDE DEF a, b, d
    <3>1. <<m>> \in Seq(Commands) /\ Append(d, m) = d \o <<m>> /\ Append(b, m) = b \o <<m>>
      BY <2>1, AppendIsConcat
    <3> QED BY <2>1, <3>1, ConcatAssociative
  <2> QED BY <1>1, <1>3, <2>2 DEF Complete
<1> QED BY <1>6, <1>7

(* What the recv of the id swallows is no longer due.                      *)
LEMMA IdReadHistory ==
    ASSUME NEW r \in Connection, History(r), r.idState # "read", NEW s \in IdRead(r)
    PROVE  History(s) /\ Complete(s, << >>)
<1>1. /\ r.sent \in Seq(Commands) /\ r.acked \in Seq(Commands)
      /\ r.applied = << >> /\ r.inq = r.sent /\ << >> \in Seq(Commands)
  BY HistoryTypes DEF History
<1>2. PICK x \in [whole : 0 .. MostWhole, part : BOOLEAN] :
          /\ x.whole <= Len(r.inq)
          /\ s = [r EXCEPT !.idState = "read", !.inq = SubSeq(@, x.whole + 1, Len(@)),
                           !.skipped = x.whole, !.garbled = x.part]
  BY DEF IdRead
<1>3. /\ s.inq = SubSeq(r.sent, x.whole + 1, Len(r.sent)) /\ s.sent = r.sent
      /\ s.skipped = x.whole /\ s.applied = << >> /\ s.acked = r.acked
      /\ s.idState = "read" /\ s.peer = r.peer
  BY <1>1, <1>2 DEF Connection
<1>4. x.whole \in Nat /\ x.whole <= Len(r.sent) /\ Len(r.sent) \in Nat
  BY <1>1, <1>2, LenProperties DEF MostWhole
<1>5. s.inq \in Seq(Commands)
  BY <1>1, <1>3, <1>4, PieceOf
<1>6. Due(s) = s.inq
  BY <1>3 DEF Due
<1>7. << >> \o << >> = << >> /\ << >> \o s.inq = s.inq
  BY <1>1, <1>5, ConcatEmptySeq
<1>8. IsPrefix(<< >>, s.inq)
  BY <1>1, <1>5, <1>7, PrefixOfConcat
<1> QED BY <1>1, <1>3, <1>4, <1>6, <1>7, <1>8 DEF History, Complete

(* What recv() takes from the socket is in hand then, in order, save what  *)
(* is out of step with the framing, which is no longer due.                *)
LEMMA ReceiveHistory ==
    ASSUME NEW r \in Connection, History(r), r.idState = "read", Complete(r, << >>),
           NEW n \in 1 .. Len(r.inq), NEW lost \in 0 .. n, NEW part \in BOOLEAN,
           lost > 0 \/ part => r.garbled,
           NEW s, s = Taken(r, n, lost, part)
    PROVE  /\ History(s) /\ Complete(s, SubSeq(r.inq, lost + 1, n))
           /\ s.garbled = part /\ s.idState = "read"
<1>1. /\ s.inq = SubSeq(r.inq, n + 1, Len(r.inq)) /\ s.sent = r.sent
      /\ s.skipped = r.skipped + lost /\ s.garbled = part
      /\ s.applied = r.applied /\ s.acked = r.acked
      /\ s.idState = r.idState /\ s.peer = r.peer
  BY DEF Connection, Taken
<1>2. /\ r.applied \in Seq(Commands) /\ r.inq \in Seq(Commands) /\ r.sent \in Seq(Commands)
      /\ r.skipped \in Nat /\ r.skipped <= Len(r.sent)
      /\ Due(r) \in Seq(Commands) /\ Due(r) = (r.applied \o << >>) \o r.inq
  BY HistoryTypes DEF History, Complete
<1>3. CASE lost = 0 /\ ~part
  <2>1. s.skipped = r.skipped
    BY <1>1, <1>2, <1>3
  <2>2. Due(s) = Due(r)
    BY <1>1, <2>1, Zenon DEF Due
  <2> DEFINE a == r.applied
             b == r.inq
  <2>4. a \in Seq(Commands) /\ b \in Seq(Commands) /\ n \in 1 .. Len(b)
    BY <1>2
  <2>5. (a \o << >>) \o b = (a \o SubSeq(b, 1, n)) \o SubSeq(b, n + 1, Len(b))
    <3> HIDE DEF a, b
    <3> QED BY <2>4, SplitAt
  <2>6. Due(r) = (r.applied \o SubSeq(r.inq, 1, n)) \o SubSeq(r.inq, n + 1, Len(r.inq))
    BY <1>2, <2>5, Zenon
  <2>3. SubSeq(r.inq, lost + 1, n) = SubSeq(r.inq, 1, n)
    BY <1>3
  <2> QED BY <1>1, <1>3, <2>1, <2>2, <2>3, <2>6 DEF History, Complete
<1>4. CASE r.garbled
  <2> DEFINE hand == SubSeq(r.inq, lost + 1, n)
             rest == SubSeq(r.inq, n + 1, Len(r.inq))
  <2>1. r.applied = << >> /\ << >> \in Seq(Commands)
    BY <1>4 DEF History
  <2>2. Due(r) = r.inq
    <3>1. << >> \o << >> = << >> /\ << >> \o r.inq = r.inq
      BY <1>2, <2>1, ConcatEmptySeq
    <3> QED BY <1>2, <2>1, <3>1
  <2>3. lost \in Nat /\ n \in Nat /\ lost <= n /\ n <= Len(r.inq) /\ Len(r.inq) \in Nat
        /\ Len(r.sent) \in Nat
    BY <1>2, LenProperties
  <2>4. Len(r.inq) = Len(r.sent) - r.skipped
    <3>1. r.skipped + 0 <= Len(r.sent) /\ 0 \in Nat
      BY <1>2
    <3>2. Len(SubSeq(r.sent, r.skipped + 1, Len(r.sent))) = Len(r.sent) - r.skipped
      BY <1>2, <3>1, RestOfRest
    <3> QED BY <2>2, <3>2 DEF Due
  <2>5. r.skipped + lost <= Len(r.sent)
    BY <1>2, <2>3, <2>4
  <2>6. SubSeq(r.inq, lost + 1, Len(r.inq)) = SubSeq(r.sent, r.skipped + lost + 1, Len(r.sent))
    <3>1. LET t == SubSeq(r.sent, r.skipped + 1, Len(r.sent))
          IN  SubSeq(t, lost + 1, Len(t)) = SubSeq(r.sent, r.skipped + lost + 1, Len(r.sent))
      BY <1>2, <2>3, <2>5, RestOfRest
    <3> QED BY <2>2, <3>1 DEF Due
  <2>7. hand \in Seq(Commands) /\ rest \in Seq(Commands)
    BY <1>2, <2>3, PieceOf
  <2>8. SubSeq(r.inq, lost + 1, Len(r.inq)) = hand \o rest
    BY <1>2, <2>3, RestCut
  <2> HIDE DEF hand, rest
  <2>9. Due(s) = hand \o rest
    BY <1>1, <2>6, <2>8 DEF Due
  <2>10. << >> \o hand = hand /\ hand \o rest \in Seq(Commands)
         /\ << >> \o (hand \o rest) = hand \o rest
    BY <2>7, ConcatEmptySeq, ConcatProperties
  <2>11. IsPrefix(<< >>, hand \o rest)
    BY <2>1, <2>10, PrefixOfConcat
  <2>12. Complete(s, hand)
    BY <1>1, <2>1, <2>9, <2>10 DEF Complete, rest
  <2>13. History(s)
    BY <1>1, <2>1, <2>5, <2>9, <2>11 DEF History
  <2> QED BY <1>1, <2>12, <2>13 DEF hand
<1> QED BY <1>3, <1>4

(* The record once command m is carried out, and once it is acknowledged.  *)
Did(r, m) == [r EXCEPT !.applied = Append(@, m)]
Acked(r, m) == [Did(r, m) EXCEPT !.acked = Append(@, m)]

(* Carrying out the first of the frames in hand.                           *)
LEMMA HandleHistory ==
    ASSUME NEW r \in Connection, History(r), r.idState = "read", ~r.garbled,
           NEW b \in Seq(Commands), b # << >>, Complete(r, b),
           NEW s, \/ s \in Sent(Did(r, Head(b)), Acked(r, Head(b)))
                  \/ s = Did(r, Head(b)) /\ r.peer # "open"
    PROVE  /\ History(s) /\ Complete(s, Tail(b))
           /\ s.applied = Append(r.applied, Head(b))
           /\ ~s.garbled /\ s.idState = "read" /\ s.sent = r.sent
<1> DEFINE did == Did(r, Head(b))
           acked == Acked(r, Head(b))
<1>1. Head(b) \in Commands /\ Tail(b) \in Seq(Commands)
  BY HeadTailProperties
<1>2. /\ did.inq = r.inq /\ did.sent = r.sent /\ did.skipped = r.skipped
      /\ ~did.garbled /\ did.applied = Append(r.applied, Head(b)) /\ did.acked = r.acked
      /\ did.idState = "read" /\ did.peer = r.peer
      /\ DOMAIN did = DOMAIN r
  BY DEF Connection, Did
<1>3. /\ acked.inq = r.inq /\ acked.sent = r.sent /\ acked.skipped = r.skipped
      /\ ~acked.garbled /\ acked.applied = Append(r.applied, Head(b))
      /\ acked.acked = Append(r.acked, Head(b))
      /\ acked.idState = "read" /\ acked.peer = r.peer
  BY <1>2 DEF Connection, Acked
<1> HIDE DEF did, acked
<1>4. /\ s.inq = r.inq /\ s.sent = r.sent /\ s.skipped = r.skipped
      /\ ~s.garbled /\ s.applied = Append(r.applied, Head(b)) /\ s.idState = "read"
      /\ \/ s.acked = Append(r.acked, Head(b)) /\ r.peer = "open"
         \/ s.acked = r.acked /\ s.peer # "open"
  <2>1. CASE s = acked /\ did.peer = "open"
    BY <1>2, <1>3, <2>1
  <2>2. CASE s = did /\ did.peer # "open"
    BY <1>2, <2>2
  <2>3. CASE s = [did EXCEPT !.peer = "dead"]
    <3>1. /\ s.inq = did.inq /\ s.sent = did.sent /\ s.skipped = did.skipped
          /\ s.garbled = did.garbled /\ s.applied = did.applied /\ s.acked = did.acked
          /\ s.idState = did.idState /\ s.peer = "dead"
      BY <1>2, <2>3 DEF Connection
    <3> QED BY <1>2, <3>1
  <2> QED BY <1>2, <2>1, <2>2, <2>3 DEF Sent, did, acked
<1> DEFINE a == r.applied
           k == r.acked
           d == Due(r)
           c == r.inq
<1>5. /\ a \in Seq(Commands) /\ k \in Seq(Commands) /\ d \in Seq(Commands)
      /\ c \in Seq(Commands)
  BY HistoryTypes DEF History
<1>6. d = (a \o b) \o c /\ IsPrefix(k, a)
  BY DEF Complete, History
<1>7. r.peer = "open" => k = a
  BY DEF History
<1>8. /\ d = (Append(a, Head(b)) \o Tail(b)) \o c
      /\ IsPrefix(Append(a, Head(b)), d)
      /\ IsPrefix(k, Append(a, Head(b)))
      /\ IsPrefix(Append(a, Head(b)), Append(a, Head(b)))
  <2> HIDE DEF a, k, d, c
  <2>1. /\ (a \o b) \o c = (Append(a, Head(b)) \o Tail(b)) \o c
        /\ IsPrefix(Append(a, Head(b)), (a \o b) \o c)
        /\ IsPrefix(Append(a, Head(b)), Append(a, Head(b)))
    BY <1>5, HandOver
  <2>2. IsPrefix(k, Append(a, Head(b)))
    BY <1>1, <1>5, <1>6, PrefixGrows
  <2> QED BY <1>6, <2>1, <2>2
<1>9. Due(s) = d
  BY <1>4 DEF Due
<1>10. Complete(s, Tail(b))
  BY <1>4, <1>8, <1>9 DEF Complete
<1>11. IsPrefix(s.applied, Due(s)) /\ IsPrefix(s.acked, s.applied)
  BY <1>4, <1>7, <1>8, <1>9
<1>12. s.peer = "open" => s.acked = s.applied
  BY <1>4, <1>7
<1>13. s.skipped <= Len(s.sent)
  BY <1>4 DEF History
<1> QED BY <1>4, <1>10, <1>11, <1>12, <1>13 DEF History

-----------------------------------------------------------------------------
(* The steps preserve Histories *)

LEMMA InitHistories == Init => Histories
<1> SUFFICES ASSUME Init PROVE Histories
  OBVIOUS
<1>1. \A k \in Conns : conn[k] = Unused
  BY DEF Init
<1>2. IsPrefix(<< >>, << >>)
  <2>1. << >> \in Seq({}) /\ << >> \o << >> = << >>
    BY ConcatEmptySeq, EmptySeq
  <2> QED BY <2>1, PrefixOfConcat
<1>3. SubSeq(<< >>, 1, 0) = << >> /\ << >> \o << >> = << >> /\ Len(<< >>) = 0
  BY ConcatEmptySeq, EmptySeq
<1>4. History(Unused)
  <2>1. /\ Unused.sent = << >> /\ Unused.inq = << >> /\ Unused.skipped = 0
        /\ Unused.applied = << >> /\ Unused.acked = << >> /\ ~Unused.garbled
    BY DEF Unused
  <2>2. Due(Unused) = << >>
    BY <1>3, <2>1 DEF Due
  <2>3. Unused.skipped <= Len(Unused.sent)
    BY <1>3, <2>1
  <2> QED BY <1>2, <2>1, <2>2, <2>3 DEF History
<1>5. Unused.phase = "unused" /\ pc = "poll" /\ \A c \in Ids : fd[c] = None
  BY DEF Init, Unused
<1> QED BY <1>1, <1>4, <1>5 DEF Histories

(* A step that is about no command leaves the histories complete.          *)
LEMMA QuietStep ==
    ASSUME ServerInv, Histories, \A k \in Conns : SameHistory(conn[k], conn'[k]),
           Up' => /\ Up /\ UNCHANGED <<fd, fdtab>>
                  /\ \A k \in Conns : conn'[k].phase = "held" => conn[k].phase = "held"
                  /\ \A k \in Conns : InHand(k)' = InHand(k),
           pc' = "frames" => pc = "frames" /\ UNCHANGED <<buf, cur, clients>>
    PROVE  Histories'
<1>1. \A k \in Conns : History(conn'[k])
  BY HistoryKept DEF Histories
<1> SUFFICES ASSUME Up' 
             PROVE  /\ \A k \in Conns :
                          conn'[k].phase = "held" => Complete(conn'[k], InHand(k)')
                    /\ pc' = "frames" /\ conn'[(ConnOf(At(cur)))'].garbled => buf' = << >>
                    /\ \A c \in Ids : fd'[c] # None => conn'[ConnOf(c)'].idState = "read"
  BY <1>1 DEF Histories
<1>2. \A k \in Conns : conn'[k].phase = "held" => Complete(conn'[k], InHand(k)')
  BY HistoryKept DEF Histories, SameHistory
<1>3. pc' = "frames" /\ conn'[(ConnOf(At(cur)))'].garbled => buf' = << >>
  <2> SUFFICES ASSUME pc' = "frames", conn'[(ConnOf(At(cur)))'].garbled PROVE buf = << >>
    OBVIOUS
  <2>1. pc = "frames" /\ ConnOf(At(cur)) \in Conns
    BY AtCur
  <2>2. (ConnOf(At(cur)))' = ConnOf(At(cur))
    BY DEF ConnOf, At
  <2> QED BY <2>1, <2>2 DEF Histories, SameHistory
<1>4. \A c \in Ids : fd'[c] # None => conn'[ConnOf(c)'].idState = "read"
  <2> SUFFICES ASSUME NEW c \in Ids, fd[c] # None PROVE conn'[ConnOf(c)].idState = "read"
    BY DEF ConnOf
  <2>1. ConnOf(c) \in Conns
    BY NoneIsNone DEF ServerInv, Types, Registered, ClientFdsOpen, ConnOf
  <2> QED BY <2>1 DEF Histories, SameHistory
<1> QED BY <1>2, <1>3, <1>4

(* A step about one connection.                                            *)
LEMMA OneHistory ==
    ASSUME Histories, Up, NEW k \in Conns, \A j \in Conns : j # k => conn'[j] = conn[j],
           History(conn'[k]),
           Up' => /\ conn'[k].phase = "held" => Complete(conn'[k], InHand(k)')
                  /\ \A j \in Conns : j # k => InHand(j)' = InHand(j)
                  /\ \A c \in Ids : fd'[c] # None => conn'[ConnOf(c)'].idState = "read",
           pc' = "frames" /\ conn'[(ConnOf(At(cur)))'].garbled => buf' = << >>
    PROVE  Histories'
  BY DEF Histories

(* The peers: all but a command sent is quiet.                             *)
LEMMA WorldHistories == ASSUME ServerInv, Histories, World PROVE Histories'
<1>1. Types /\ Registered /\ Up /\ UNCHANGED server
  BY DEF ServerInv, World, Connect, SendId, SendCommand, Leave, SendDatagram, Type
<1>2. /\ UNCHANGED <<fd, fdtab, pc, buf, cur, clients>>
      /\ \A k : InHand(k)' = InHand(k)
  BY <1>1 DEF server, InHand, ConnOf, At
<1>3. ASSUME NEW k \in Conns, NEW r, conn' = [conn EXCEPT ![k] = r],
             SameHistory(conn[k], r), r.phase = "held" => conn[k].phase = "held"
      PROVE  Histories'
  <2>1. conn'[k] = r /\ \A j \in Conns : j # k => conn'[j] = conn[j]
    BY <1>1, <1>3 DEF Types
  <2>2. \A j \in Conns : SameHistory(conn[j], conn'[j])
    BY <1>3, <2>1 DEF SameHistory
  <2>3. \A j \in Conns : conn'[j].phase = "held" => conn[j].phase = "held"
    BY <1>3, <2>1
  <2> QED BY <1>1, <1>2, <2>2, <2>3, QuietStep
<1>4. ASSUME NEW k \in Conns, NEW c \in Ids, Connect(k, c) PROVE Histories'
  <2> DEFINE r == [conn[k] EXCEPT !.phase = "backlog", !.id = c]
  <2>1. conn' = [conn EXCEPT ![k] = r] /\ conn[k] \in Connection
    BY <1>1, <1>4 DEF Connect, Types
  <2>2. SameHistory(conn[k], r) /\ r.phase = "backlog"
    BY <2>1 DEF Connection, SameHistory
  <2> HIDE DEF r
  <2> QED BY <1>3, <2>1, <2>2
<1>5. ASSUME NEW k \in Conns, SendId(k) PROVE Histories'
  <2> DEFINE r == [conn[k] EXCEPT !.idState = "queued"]
  <2>1. conn' = [conn EXCEPT ![k] = r] /\ conn[k] \in Connection /\ conn[k].idState = "unsent"
    BY <1>1, <1>5 DEF SendId, Types
  <2>2. SameHistory(conn[k], r) /\ r.phase = conn[k].phase
    BY <2>1 DEF Connection, SameHistory
  <2> HIDE DEF r
  <2> QED BY <1>3, <2>1, <2>2
<1>6. ASSUME NEW k \in Conns, NEW how \in {"fin", "rst"}, Leave(k, how) PROVE Histories'
  <2> DEFINE r == [conn[k] EXCEPT !.peer = how]
  <2>1. conn' = [conn EXCEPT ![k] = r] /\ conn[k] \in Connection
    BY <1>1, <1>6 DEF Leave, Types
  <2>2. SameHistory(conn[k], r) /\ r.phase = conn[k].phase
    BY <2>1 DEF Connection, SameHistory
  <2> HIDE DEF r
  <2> QED BY <1>3, <2>1, <2>2
<1>7. ASSUME NEW k \in Conns, NEW m \in Commands, SendCommand(k, m) PROVE Histories'
  <2> DEFINE r == [conn[k] EXCEPT !.inq = Append(@, m), !.sent = Append(@, m)]
  <2>1. conn' = [conn EXCEPT ![k] = r] /\ conn[k] \in Connection
    BY <1>1, <1>7 DEF SendCommand, Types
  <2>2. /\ r \in Connection /\ r.phase = conn[k].phase /\ r.idState = conn[k].idState
        /\ r.garbled = conn[k].garbled
    <3>1. Append(conn[k].inq, m) \in Seq(Commands) /\ Append(conn[k].sent, m) \in Seq(Commands)
      BY <2>1 DEF Connection
    <3> QED BY <2>1, <3>1 DEF Connection
  <2>3. /\ History(r)
        /\ \A hand \in Seq(Commands) : Complete(conn[k], hand) => Complete(r, hand)
    <3> DEFINE old == conn[k]
    <3>1. History(old) /\ old \in Connection
      BY <2>1 DEF Histories
    <3>2. r = [old EXCEPT !.inq = Append(@, m), !.sent = Append(@, m)]
      OBVIOUS
    <3> HIDE DEF r, old
    <3>3. /\ History(r)
          /\ \A hand \in Seq(Commands) : Complete(old, hand) => Complete(r, hand)
      BY <2>2, <3>1, <3>2, SendHistory, ZenonT(40)
    <3> QED BY <3>3 DEF old
  <2> HIDE DEF r
  <2>4. conn'[k] = r /\ \A j \in Conns : j # k => conn'[j] = conn[j]
    BY <1>1, <2>1 DEF Types
  <2>5. InHand(k) \in Seq(Commands)
    BY <1>1, EmptySeq DEF InHand, Types
  <2>6. conn'[k].phase = "held" => Complete(conn'[k], InHand(k)')
    BY <1>1, <1>2, <2>2, <2>3, <2>4, <2>5 DEF Histories
  <2>7. pc' = "frames" /\ conn'[(ConnOf(At(cur)))'].garbled => buf' = << >>
    <3>1. pc = "frames" => ConnOf(At(cur)) \in Conns
      BY AtCur
    <3>2. (ConnOf(At(cur)))' = ConnOf(At(cur))
      BY <1>2 DEF ConnOf, At
    <3> QED BY <1>1, <1>2, <2>2, <2>4, <3>1, <3>2 DEF Histories
  <2>8. \A c \in Ids : fd'[c] # None => conn'[ConnOf(c)'].idState = "read"
    <3> SUFFICES ASSUME NEW c \in Ids, fd[c] # None PROVE conn'[ConnOf(c)].idState = "read"
      BY <1>2 DEF ConnOf
    <3>1. ConnOf(c) \in Conns
      BY <1>1, NoneIsNone DEF Types, Registered, ClientFdsOpen, ConnOf
    <3> QED BY <1>1, <2>2, <2>4, <3>1 DEF Histories
  <2> QED BY <1>1, <1>2, <2>3, <2>4, <2>6, <2>7, <2>8, OneHistory
<1>8. CASE (\E t \in Topics : SendDatagram(t)) \/ Type
  <2>1. conn' = conn
    BY <1>8 DEF SendDatagram, Type
  <2>2. \A k \in Conns : SameHistory(conn[k], conn'[k])
    BY <2>1 DEF SameHistory
  <2> QED BY <1>1, <1>2, <2>1, <2>2, QuietStep
<1> QED BY <1>4, <1>5, <1>6, <1>7, <1>8 DEF World

(* A publication does nothing to what was sent by subscribers.             *)
LEMMA PublishQuiet ==
    ASSUME Types, NEW t, Publish(t)
    PROVE  \A k \in Conns : SameHistory(conn[k], conn'[k]) /\ conn'[k].phase = conn[k].phase
<1> DEFINE more(k) == [conn[k] EXCEPT !.news = @ + 1]
           dead(r) == [r EXCEPT !.peer = "dead"]
<1> SUFFICES ASSUME NEW k \in Conns
             PROVE  SameHistory(conn[k], conn'[k]) /\ conn'[k].phase = conn[k].phase
  OBVIOUS
<1>1. conn[k] \in Connection
  BY DEF Types
<1>2. conn'[k] \in {conn[k], more(k)} \cup Sent(conn[k], more(k))
  BY DEF Publish
<1>3. SameHistory(conn[k], more(k)) /\ more(k).phase = conn[k].phase
  BY <1>1 DEF Connection, SameHistory
<1>4. conn[k].peer # "open" =>
         SameHistory(conn[k], dead(conn[k])) /\ dead(conn[k]).phase = conn[k].phase
  BY <1>1 DEF Connection, SameHistory
<1>5. SameHistory(conn[k], conn[k])
  BY DEF SameHistory
<1> HIDE DEF more
<1> QED BY <1>2, <1>3, <1>4, <1>5 DEF Sent

(* The steps that only look, move on, or publish.                          *)
LEMMA OtherStepsHistories ==
    ASSUME ServerInv, Histories,
           \/ Poll \/ PollFails \/ ReadStdin \/ ReadUdp \/ ScanClient \/ EndRound \/ FramesDone
           \/ Destroy \/ Exit \/ UNCHANGED vars
    PROVE  Histories'
<1>0. Types
  BY DEF ServerInv
<1>1. CASE Poll \/ PollFails \/ ReadStdin \/ ReadUdp \/ ScanClient \/ EndRound \/ FramesDone
  <2>1. /\ Up /\ Registered /\ UNCHANGED <<fd, fdtab>> /\ pc' # "frames"
        /\ pc = "frames" => buf = << >>
    BY <1>1 DEF ServerInv, Up, Poll, PollFails, ReadStdin, ReadUdp, ScanClient, EndRound,
                FramesDone, Advance, Publish
  <2>2. \A k \in Conns : InHand(k) = << >> /\ InHand(k)' = << >>
    BY <2>1 DEF InHand
  <2>3. \A k \in Conns : SameHistory(conn[k], conn'[k]) /\ conn'[k].phase = conn[k].phase
    <3>1. CASE conn' = conn
      BY <3>1 DEF SameHistory
    <3>2. CASE ReadUdp
      BY <1>0, <3>1, <3>2, PublishQuiet DEF ReadUdp
    <3> QED BY <1>1, <3>1, <3>2 DEF Poll, PollFails, ReadStdin, ScanClient, EndRound,
                                    FramesDone, world
  <2> QED BY <2>1, <2>2, <2>3, QuietStep
<1>2. CASE UNCHANGED vars
  <2>1. UNCHANGED <<pc, fd, fdtab, buf, cur, clients, conn>>
    BY <1>2 DEF vars, server, world
  <2>2. \A k \in Conns : SameHistory(conn[k], conn'[k]) /\ InHand(k)' = InHand(k)
    BY <2>1 DEF SameHistory, InHand, ConnOf, At
  <2> QED BY <2>1, <2>2, QuietStep DEF Up
<1>3. CASE Destroy \/ Exit
  <2>1. ~Up' /\ pc' # "frames"
    BY <1>3 DEF Destroy, Exit, Up
  <2>2. \A k \in Conns : SameHistory(conn[k], conn'[k])
    <3>1. CASE conn' = conn
      BY <3>1 DEF SameHistory
    <3>2. ASSUME NEW j, conn' = Closed(j) PROVE \A k \in Conns : SameHistory(conn[k], conn'[k])
      <4> SUFFICES ASSUME NEW k \in Conns PROVE SameHistory(conn[k], conn'[k])
        OBVIOUS
      <4>1. conn[k] \in Connection
        BY <1>0 DEF Types
      <4>2. conn'[k] = conn[k] \/ conn'[k] = [conn[k] EXCEPT !.phase = "closed"]
        BY <1>0, <3>2 DEF Types, Closed
      <4> QED BY <4>1, <4>2 DEF SameHistory, Connection
    <3> QED BY <1>3, <3>1, <3>2 DEF Destroy, Exit, world
  <2> QED BY <2>1, <2>2, QuietStep
<1> QED BY <1>1, <1>2, <1>3

(* The connection of an active client.                                     *)
LEMMA ClientConn ==
    ASSUME ServerInv, Up, NEW c \in Ids, fd[c] # None
    PROVE  /\ fd[c] \in Fds /\ ConnOf(c) \in Conns /\ conn[ConnOf(c)].id = c
           /\ conn[ConnOf(c)].phase = "held"
<1>1. Types /\ Registered
  BY DEF ServerInv
<1>2. fd[c] \in Fds /\ ConnOf(c) \in Conns /\ conn[ConnOf(c)].id = c
  BY <1>1, NoneIsNone DEF Types, Registered, ClientFdsOpen, ConnOf
<1>3. conn[ConnOf(c)].phase = "held"
  BY <1>1, <1>2, NoneIsNone DEF Registered, FdTable, ConnOf
<1> QED BY <1>2, <1>3

(* Closing a connection keeps what happened on it.                         *)
LEMMA ClosedHistory ==
    ASSUME NEW r \in Connection, History(r), NEW s, s = [r EXCEPT !.phase = "closed"]
    PROVE  History(s) /\ s.phase = "closed"
<1>1. SameHistory(r, s) /\ s.phase = "closed"
  BY DEF SameHistory, Connection
<1> QED BY <1>1, HistoryKept

(* An accepted connection has everything before it.                        *)
LEMMA AcceptHistories == ASSUME ServerInv, Histories, Accept PROVE Histories'
<1>1. Types /\ Registered /\ Up /\ pc = "tcp" /\ UNCHANGED <<clients, fd, cur, buf>>
      /\ \A j : InHand(j) = << >>
  BY DEF ServerInv, Up, Accept, InHand
<1>2. CASE pc' = "scan" /\ UNCHANGED <<newfd, fdtab, conn, backlog>>
  <2>1. \A j \in Conns : SameHistory(conn[j], conn'[j]) /\ InHand(j)' = << >>
    BY <1>2 DEF SameHistory, InHand
  <2> QED BY <1>1, <1>2, <2>1, QuietStep
<1>3. CASE /\ pfds.tcp /\ FreeFds # {}
           /\ newfd' = Min(FreeFds)
           /\ fdtab' = [fdtab EXCEPT ![newfd'] = Head(backlog)]
           /\ conn' = [conn EXCEPT ![Head(backlog)].phase = "held"]
           /\ pc' = "recv_id"
  <2> DEFINE k == Head(backlog)
             r == [conn[k] EXCEPT !.phase = "held"]
  <2>1. backlog # << >> /\ k \in Conns /\ conn[k] \in Connection /\ conn[k].phase = "backlog"
    <3>1. backlog # << >>
      BY <1>1, <1>3 DEF Registered, Arrivals
    <3>2. k \in Conns /\ k = backlog[1] /\ 1 \in 1 .. Len(backlog)
      <4>1. backlog \in Seq(Conns)
        BY <1>1 DEF Types
      <4>2. Len(backlog) \in Nat \ {0} /\ Head(backlog) = backlog[1]
        BY <3>1, <4>1, EmptySeq, HeadTailProperties
      <4> QED BY <4>1, <4>2
    <3> QED BY <1>1, <3>1, <3>2 DEF Types, Registered, Arrivals
  <2>2. newfd' \in Fds /\ fdtab[newfd'] = None
    <3>1. FreeFds \in SUBSET Nat
      BY DEF FreeFds, Fds
    <3> HIDE DEF k, r
    <3>2. newfd' \in FreeFds
      BY <1>3, <3>1, MinIn
    <3> QED BY <3>2 DEF FreeFds
  <2>3. conn' = [conn EXCEPT ![k] = r] /\ fdtab' = [fdtab EXCEPT ![newfd'] = k]
    BY <1>3
  <2>4. SameHistory(conn[k], r) /\ r.phase = "held"
    BY <2>1 DEF Connection, SameHistory
  <2> HIDE DEF k, r
  <2>5. /\ conn'[k] = r /\ \A j \in Conns : j # k => conn'[j] = conn[j]
        /\ \A f \in Fds : f # newfd' => fdtab'[f] = fdtab[f]
    BY <1>1, <2>1, <2>3 DEF Types
  <2>6. History(r)
    BY <2>1, <2>4, HistoryKept DEF Histories
  <2>7. Complete(r, << >>)
    <3>1. conn[k].idState # "read" /\ History(conn[k])
      BY <1>1, <2>1 DEF Registered, Introduced, Histories
    <3>2. /\ r.applied = << >> /\ r.skipped = 0 /\ r.inq = r.sent /\ r.sent \in Seq(Commands)
      BY <2>1, <2>4, <3>1, HistoryTypes DEF History, SameHistory
    <3>3. Due(r) = r.sent
      BY <3>2, SubSeqFull DEF Due
    <3>4. (<< >> \o << >>) \o r.sent = r.sent
      BY <3>2, ConcatEmptySeq
    <3> QED BY <3>2, <3>3, <3>4 DEF Complete
  <2>8. \A j : InHand(j)' = << >>
    BY <1>3 DEF InHand
  <2>9. ASSUME NEW c \in Ids, fd'[c] # None PROVE conn'[ConnOf(c)'].idState = "read"
    <3>1. fd'[c] = fd[c] /\ fd[c] # None
      BY <1>1, <2>9
    <3>2. /\ fd[c] \in Fds /\ ConnOf(c) \in Conns /\ conn[ConnOf(c)].phase = "held"
      BY <1>1, <3>1, ClientConn
    <3>3. fd[c] # newfd' /\ ConnOf(c)' = ConnOf(c)
      BY <2>2, <2>5, <3>1, <3>2, NoneIsNone DEF ConnOf
    <3>4. ConnOf(c) # k
      BY <2>1, <3>2
    <3> QED BY <1>1, <2>5, <3>1, <3>2, <3>3, <3>4 DEF Histories
  <2>10. pc' # "frames"
    BY <1>3
  <2> QED BY <1>1, <2>1, <2>5, <2>6, <2>7, <2>8, <2>9, <2>10, OneHistory
<1> QED BY <1>2, <1>3 DEF Accept

(* A client disconnected: nothing of its connection is due any more.       *)
LEMMA DeactivateHistories ==
    ASSUME ServerInv, Histories, pc \in {"recv", "frames"}, NEW r \in Connection,
           SamePlace(r, conn[ConnOf(At(cur))]), History(r),
           Deactivate([conn EXCEPT ![ConnOf(At(cur))] = r])
    PROVE  Histories'
<1> DEFINE c == At(cur)
           k == ConnOf(c)
<1>1. Up /\ c \in Ids /\ fd[c] \in Fds /\ k \in Conns /\ conn[k].id = c
  BY AtCur DEF Up
<1>2. /\ conn'[k] = [r EXCEPT !.phase = "closed"]
      /\ \A j \in Conns : j # k => conn'[j] = conn[j]
      /\ fd'[c] = None /\ \A d \in Ids : d # c => fd'[d] = fd[d]
      /\ \A f \in Fds : f # fd[c] => fdtab'[f] = fdtab[f]
      /\ buf' = << >> /\ pc' = "scan"
  BY DeactivateEffect
<1> HIDE DEF c, k
<1>3. History(conn'[k]) /\ conn'[k].phase = "closed"
  BY <1>2, ClosedHistory
<1>4. \A j \in Conns : j # k => InHand(j)' = InHand(j)
  BY <1>2 DEF InHand, k, c
<1>5. ASSUME NEW d \in Ids, fd'[d] # None PROVE conn'[ConnOf(d)'].idState = "read"
  <2>1. d # c /\ fd'[d] = fd[d] /\ fd[d] # None
    BY <1>2, <1>5
  <2>2. /\ fd[d] \in Fds /\ ConnOf(d) \in Conns /\ conn[ConnOf(d)].id = d
    BY <1>1, <2>1, ClientConn
  <2>3. ConnOf(d) # k /\ fd[d] # fd[c]
    BY <1>1, <2>1, <2>2 DEF ConnOf, k
  <2>4. ConnOf(d)' = ConnOf(d)
    BY <1>2, <2>1, <2>2, <2>3 DEF ConnOf
  <2> QED BY <1>1, <1>2, <2>1, <2>2, <2>3, <2>4 DEF Histories
<1>6. pc' # "frames" /\ conn'[k].phase # "held"
  BY <1>2, <1>3
<1> QED BY <1>1, <1>2, <1>3, <1>4, <1>5, <1>6, OneHistory

(* The recv of the id: from here on the connection is in or out of step.   *)
LEMMA ReceiveIdHistories == ASSUME ServerInv, Histories, ReceiveId PROVE Histories'
<1> DEFINE k == fdtab[newfd]
           c == conn[k].id
<1>1. /\ Types /\ Registered /\ Up /\ pc = "recv_id" /\ newfd' = None /\ pc' = "scan"
      /\ \A j : InHand(j) = << >> /\ InHand(j)' = << >>
  BY DEF ServerInv, Up, ReceiveId, InHand
<1>2. /\ newfd \in Fds /\ k \in Conns /\ conn[k] \in Connection /\ conn[k].phase = "held"
      /\ c \in Ids /\ \A d \in Ids : fd[d] # newfd
  BY <1>1, AtNew
<1>3. \A d \in Ids : fd[d] # None => /\ fd[d] \in Fds /\ ConnOf(d) \in Conns
                                     /\ ConnOf(d) # k /\ conn[ConnOf(d)].idState = "read"
  <2> SUFFICES ASSUME NEW d \in Ids, fd[d] # None
               PROVE  /\ fd[d] \in Fds /\ ConnOf(d) \in Conns
                      /\ ConnOf(d) # k /\ conn[ConnOf(d)].idState = "read"
    OBVIOUS
  <2>1. fd[d] \in Fds /\ ConnOf(d) \in Conns
    BY <1>1, ClientConn
  <2>2. ConnOf(d) # k
    BY <1>1, <1>2, <2>1, NoneIsNone DEF Registered, FdTable, ConnOf
  <2> QED BY <1>1, <2>1, <2>2 DEF Histories
<1>4. ASSUME NEW r \in Connection, History(r), CloseNew(r) PROVE Histories'
  <2> DEFINE s == [r EXCEPT !.phase = "closed"]
  <2>1. /\ conn' = [conn EXCEPT ![k] = s] /\ fdtab' = [fdtab EXCEPT ![newfd] = None]
        /\ fd' = fd
    BY <1>4 DEF CloseNew
  <2>2. History(s) /\ s.phase = "closed"
    BY <1>4, ClosedHistory
  <2> HIDE DEF s, k, c
  <2>3. /\ conn'[k] = s /\ \A j \in Conns : j # k => conn'[j] = conn[j]
        /\ \A f \in Fds : f # newfd => fdtab'[f] = fdtab[f]
    BY <1>1, <1>2, <2>1 DEF Types
  <2>4. \A d \in Ids : fd'[d] # None => conn'[ConnOf(d)'].idState = "read"
    <3> SUFFICES ASSUME NEW d \in Ids, fd[d] # None PROVE conn'[ConnOf(d)'].idState = "read"
      BY <2>1
    <3>1. ConnOf(d)' = ConnOf(d)
      BY <1>2, <1>3, <2>1, <2>3 DEF ConnOf
    <3> QED BY <1>3, <2>3, <3>1
  <2>5. conn'[k].phase # "held" /\ pc' # "frames"
    BY <1>1, <2>2, <2>3
  <2> QED BY <1>1, <1>2, <2>2, <2>3, <2>4, <2>5, OneHistory
<1>5. ASSUME NEW r \in Connection, History(r), Complete(r, << >>),
             r.idState = "read", Activate(c, r)
      PROVE  Histories'
  <2>1. conn' = [conn EXCEPT ![k] = r] /\ fd' = [fd EXCEPT ![c] = newfd] /\ fdtab' = fdtab
    BY <1>5 DEF Activate
  <2> HIDE DEF c
  <2>2. /\ conn'[k] = r /\ \A j \in Conns : j # k => conn'[j] = conn[j]
        /\ fd'[c] = newfd /\ \A d \in Ids : d # c => fd'[d] = fd[d]
    <3> HIDE DEF k
    <3> QED BY <1>1, <1>2, <2>1 DEF Types
  <2>3. ASSUME NEW d \in Ids, fd'[d] # None PROVE conn'[ConnOf(d)'].idState = "read"
    <3>1. CASE d = c
      <4>1. ConnOf(d)' = k
        BY <2>1, <2>2, <3>1 DEF ConnOf
      <4> QED BY <1>5, <2>2, <4>1
    <3>2. CASE d # c
      <4>1. ConnOf(d)' = ConnOf(d) /\ fd[d] # None
        BY <2>1, <2>2, <2>3, <3>2 DEF ConnOf
      <4> QED BY <1>3, <2>2, <4>1
    <3> QED BY <3>1, <3>2
  <2>4. pc' # "frames"
    BY <1>1
  <2> HIDE DEF k
  <2> QED BY <1>1, <1>2, <1>5, <2>2, <2>3, <2>4, OneHistory
<1>6. History(conn[k])
  BY <1>2 DEF Histories
<1>7. conn[k].idState = "queued" => \A r \in IdRead(conn[k]) :
          /\ r \in Connection /\ History(r)
          /\ Complete(r, << >>)
          /\ r.idState = "read"
  <2> SUFFICES ASSUME conn[k].idState = "queued", NEW r \in IdRead(conn[k])
               PROVE  /\ r \in Connection /\ History(r)
                      /\ Complete(r, << >>)
                      /\ r.idState = "read"
    OBVIOUS
  <2>1. r \in Connection
    BY <1>2, IdReadType
  <2>2. History(r) /\ Complete(r, << >>)
    <3> HIDE DEF k
    <3> QED BY <1>2, <1>6, IdReadHistory
  <2>3. r.idState = "read"
    <3> HIDE DEF k
    <3> QED BY <1>2 DEF IdRead, Connection
  <2> QED BY <2>1, <2>2, <2>3
<1>8. \/ CloseNew(conn[k])
      \/ conn[k].idState = "queued" /\ \E r \in IdRead(conn[k]) : CloseNew(r) \/ Activate(c, r)
  BY DEF ReceiveId
<1> HIDE DEF k, c
<1>9. CASE CloseNew(conn[k])
  BY <1>2, <1>4, <1>6, <1>9
<1>10. ASSUME conn[k].idState = "queued", NEW r \in IdRead(conn[k]), CloseNew(r)
       PROVE  Histories'
  BY <1>4, <1>7, <1>10
<1>11. ASSUME conn[k].idState = "queued", NEW r \in IdRead(conn[k]), Activate(c, r)
       PROVE  Histories'
  BY <1>5, <1>7, <1>11
<1> QED BY <1>8, <1>9, <1>10, <1>11

(* What was received is in hand, save what is out of step.                 *)
LEMMA ReceiveHistories == ASSUME ServerInv, Histories, Receive PROVE Histories'
<1> DEFINE k == ConnOf(At(cur))
<1>1. /\ Types /\ Up /\ pc = "recv" /\ k \in Conns /\ conn[k] \in Connection
      /\ conn[k].phase = "held" /\ At(cur) \in Ids /\ fd[At(cur)] \in Fds
  BY AtCur DEF ServerInv, Up, Receive
<1>2. History(conn[k]) /\ conn[k].idState = "read"
  BY <1>1, NoneIsNone DEF Histories
<1>3. Complete(conn[k], << >>)
  BY <1>1 DEF Histories, InHand
<1>4. CASE Deactivate(conn)
  <2>1. [conn EXCEPT ![k] = conn[k]] = conn
    BY <1>1 DEF Types
  <2>2. SamePlace(conn[k], conn[k])
    BY DEF SamePlace
  <2>3. Deactivate([conn EXCEPT ![k] = conn[k]])
    BY <1>4, <2>1
  <2> QED BY <1>1, <1>2, <2>2, <2>3, DeactivateHistories
<1>5. ASSUME NEW n \in 1 .. Len(conn[k].inq), NEW lost \in 0 .. n, NEW part \in BOOLEAN,
             lost > 0 \/ part => conn[k].garbled, part => lost = n,
             \/ /\ buf' = SubSeq(conn[k].inq, lost + 1, n)
                /\ conn' = [conn EXCEPT ![k] = Taken(conn[k], n, lost, part)]
                /\ pc' = "frames"
                /\ UNCHANGED <<clients, fd, fdtab, cur>>
             \/ Deactivate([conn EXCEPT ![k] = Taken(conn[k], n, lost, part)])
      PROVE  Histories'
  <2> DEFINE old == conn[k]
             r == Taken(old, n, lost, part)
             hand == SubSeq(old.inq, lost + 1, n)
  <2>1. old \in Connection /\ History(old) /\ old.idState = "read" /\ Complete(old, << >>)
        /\ n \in 1 .. Len(old.inq) /\ (lost > 0 \/ part => old.garbled)
    BY <1>1, <1>2, <1>3, <1>5
  <2>2. /\ History(r) /\ Complete(r, hand) /\ r.garbled = part /\ r.idState = "read"
        /\ r \in Connection /\ SamePlace(r, old)
    <3> HIDE DEF old
    <3> QED BY <2>1, ReceiveHistory, TakenType
  <2>3. \/ /\ buf' = hand /\ conn' = [conn EXCEPT ![k] = r] /\ pc' = "frames"
           /\ UNCHANGED <<clients, fd, fdtab, cur>>
        \/ Deactivate([conn EXCEPT ![k] = r])
    BY <1>5
  <2>4. part => hand = << >>
    BY <1>5, SubSeqEmpty
  <2> HIDE DEF r, hand
  <2>5. CASE Deactivate([conn EXCEPT ![k] = r])
    BY <1>1, <2>2, <2>5, DeactivateHistories
  <2>6. CASE /\ buf' = hand /\ conn' = [conn EXCEPT ![k] = r] /\ pc' = "frames"
             /\ UNCHANGED <<clients, fd, fdtab, cur>>
    <3>0. PICK i \in Conns : i = k
      BY <1>1
    <3>1. conn'[i] = r /\ \A j \in Conns : j # i => conn'[j] = conn[j]
      <4> HIDE DEF k, old
      <4> QED BY <1>1, <2>6, <3>0 DEF Types
    <3>2. /\ InHand(i)' = buf' /\ \A j \in Conns : j # i => InHand(j)' = << >>
          /\ (ConnOf(At(cur)))' = i /\ \A d \in Ids : ConnOf(d)' = ConnOf(d)
      BY <2>6, <3>0 DEF InHand, ConnOf, At
    <3> HIDE DEF k, old
    <3>3. \A j \in Conns : InHand(j) = << >>
      BY <1>1 DEF InHand
    <3>4. \A d \in Ids : fd'[d] # None => conn'[ConnOf(d)'].idState = "read"
      <4> SUFFICES ASSUME NEW d \in Ids, fd[d] # None PROVE conn'[ConnOf(d)].idState = "read"
        BY <2>6, <3>2
      <4>1. ConnOf(d) \in Conns
        BY <1>1, ClientConn
      <4> QED BY <1>1, <2>2, <3>1, <4>1 DEF Histories
    <3>5. conn'[(ConnOf(At(cur)))'].garbled => buf' = << >>
      BY <2>2, <2>4, <2>6, <3>1, <3>2
    <3>6. Complete(conn'[i], InHand(i)')
      BY <2>2, <2>6, <3>1, <3>2
    <3>7. \A j \in Conns : j # i => InHand(j)' = InHand(j)
      BY <3>2, <3>3
    <3>8. History(conn'[i])
      BY <2>2, <3>1
    <3> QED BY <1>1, <3>1, <3>4, <3>5, <3>6, <3>7, <3>8, OneHistory
  <2> QED BY <2>3, <2>5, <2>6
<1>6. CASE \E n \in 1 .. Len(conn[k].inq) : \E x \in Losses(conn[k], n) :
              /\ buf' = SubSeq(conn[k].inq, x.lost + 1, n)
              /\ conn' = [conn EXCEPT ![k] = Taken(conn[k], n, x.lost, x.part)]
              /\ pc' = "frames"
              /\ UNCHANGED <<clients, fd, fdtab, cur>>
  <2>0. PICK n \in 1 .. Len(conn[k].inq) : \E x \in Losses(conn[k], n) :
              /\ buf' = SubSeq(conn[k].inq, x.lost + 1, n)
              /\ conn' = [conn EXCEPT ![k] = Taken(conn[k], n, x.lost, x.part)]
              /\ pc' = "frames"
              /\ UNCHANGED <<clients, fd, fdtab, cur>>
    BY <1>6
  <2>1. PICK x \in Losses(conn[k], n) :
              /\ buf' = SubSeq(conn[k].inq, x.lost + 1, n)
              /\ conn' = [conn EXCEPT ![k] = Taken(conn[k], n, x.lost, x.part)]
              /\ pc' = "frames"
              /\ UNCHANGED <<clients, fd, fdtab, cur>>
    BY <2>0
  <2>2. /\ x.lost \in 0 .. n /\ x.part \in BOOLEAN
        /\ (x.lost > 0 \/ x.part => conn[k].garbled) /\ (x.part => x.lost = n)
    <3> HIDE DEF k
    <3> QED BY DEF Losses
  <2> HIDE DEF k
  <2> QED BY <1>5, <2>1, <2>2
<1>7. ASSUME NEW n \in 1 .. Len(conn[k].inq), conn[k].garbled,
             Deactivate([conn EXCEPT ![k] = Taken(conn[k], n, n, TRUE)])
      PROVE  Histories'
  <2>1. n \in 0 .. n /\ TRUE \in BOOLEAN
    OBVIOUS
  <2> HIDE DEF k
  <2> QED BY <1>5, <1>7, <2>1
<1> QED BY <1>4, <1>6, <1>7 DEF Receive

(* Carrying out a command leaves a connection where it is.                 *)
LEMMA HandlePlace ==
    ASSUME NEW r \in Connection, NEW m \in Commands, NEW s \in Sent(Did(r, m), Acked(r, m))
    PROVE  s \in Connection /\ SamePlace(s, r)
<1>1. Did(r, m) \in Connection /\ SamePlace(Did(r, m), r)
  <2>1. Append(r.applied, m) \in Seq(Commands)
    BY DEF Connection
  <2> QED BY <2>1 DEF Connection, SamePlace, Did
<1>2. /\ Acked(r, m) \in Connection /\ SamePlace(Acked(r, m), Did(r, m))
      /\ Acked(r, m).idState = Did(r, m).idState
  <2>1. Append(Did(r, m).acked, m) \in Seq(Commands)
    BY <1>1 DEF Connection
  <2> QED BY <1>1, <2>1 DEF Connection, SamePlace, Acked
<1> QED BY <1>1, <1>2, SentType DEF SamePlace

(* A frame handled goes from the frames in hand to the commands done.      *)
LEMMA HandleHistories == ASSUME ServerInv, Histories, HandleFrame PROVE Histories'
<1>1. /\ Types /\ Up /\ pc = "frames" /\ buf # << >> /\ ConnOf(At(cur)) \in Conns
      /\ buf \in Seq(Commands) /\ Head(buf) \in Commands /\ fd[At(cur)] # None
      /\ At(cur) \in Ids
  BY AtCur, HeadTailProperties, NoneIsNone DEF ServerInv, Up, HandleFrame, Types
<1>2. PICK k \in Conns : k = ConnOf(At(cur))
  BY <1>1
<1> DEFINE old == conn[k]
           did == Did(old, Head(buf))
           acked == Acked(old, Head(buf))
<1>3. /\ old \in Connection /\ old.phase = "held" /\ History(old)
      /\ ~old.garbled /\ old.idState = "read" /\ Complete(old, buf)
  <2>1. old \in Connection /\ old.phase = "held"
    BY <1>1, <1>2, AtCur
  <2>2. History(old) /\ ~old.garbled /\ old.idState = "read"
    BY <1>1, <1>2 DEF Histories
  <2>3. InHand(k) = buf
    BY <1>1, <1>2 DEF InHand
  <2> QED BY <1>1, <2>1, <2>2, <2>3 DEF Histories
<1>4. ASSUME NEW s, s \in Sent(did, acked) \/ (s = did /\ old.peer # "open")
      PROVE  History(s) /\ Complete(s, Tail(buf)) /\ ~s.garbled /\ s.idState = "read"
  <2> HIDE DEF old
  <2> QED BY <1>1, <1>3, <1>4, HandleHistory
<1>5. ASSUME NEW s \in Sent(did, acked) PROVE s \in Connection /\ SamePlace(s, old)
  <2> HIDE DEF old
  <2> QED BY <1>1, <1>3, <1>5, HandlePlace
<1>6. \/ \E s \in Sent(did, acked) :
            \/ /\ conn' = [conn EXCEPT ![k] = s] /\ buf' = Tail(buf)
               /\ UNCHANGED <<pc, clients, fd, fdtab, cur>>
            \/ Deactivate([conn EXCEPT ![k] = s])
      \/ /\ pc' = "killed" /\ conn' = [conn EXCEPT ![k] = did] /\ old.peer \in {"fin", "dead"}
      \/ Deactivate(conn)
  BY <1>2 DEF HandleFrame, CanKill, Did, Acked
<1> HIDE DEF did, acked
<1>7. ASSUME NEW s \in Sent(did, acked), conn' = [conn EXCEPT ![k] = s], buf' = Tail(buf),
             UNCHANGED <<pc, clients, fd, fdtab, cur>>
      PROVE  Histories'
  <2>1. conn'[k] = s /\ \A j \in Conns : j # k => conn'[j] = conn[j]
    BY <1>1, <1>7 DEF Types
  <2>2. /\ InHand(k)' = Tail(buf) /\ \A j \in Conns : j # k => InHand(j)' = InHand(j)
        /\ (ConnOf(At(cur)))' = k /\ \A d \in Ids : ConnOf(d)' = ConnOf(d)
    BY <1>1, <1>2, <1>7 DEF InHand, ConnOf, At
  <2>3. \A d \in Ids : fd'[d] # None => conn'[ConnOf(d)'].idState = "read"
    <3> SUFFICES ASSUME NEW d \in Ids, fd[d] # None PROVE conn'[ConnOf(d)].idState = "read"
      BY <1>7, <2>2
    <3>1. ConnOf(d) \in Conns
      BY <1>1, ClientConn
    <3> QED BY <1>1, <1>4, <2>1, <3>1 DEF Histories
  <2>4. ~conn'[(ConnOf(At(cur)))'].garbled
    BY <1>4, <2>1, <2>2
  <2>5. History(conn'[k]) /\ Complete(conn'[k], InHand(k)')
    BY <1>4, <2>1, <2>2
  <2> QED BY <1>1, <2>1, <2>2, <2>3, <2>4, <2>5, OneHistory
<1>8. ASSUME NEW s \in Sent(did, acked), Deactivate([conn EXCEPT ![k] = s])
      PROVE  Histories'
  BY <1>1, <1>2, <1>4, <1>5, <1>8, DeactivateHistories
<1>9. CASE pc' = "killed" /\ conn' = [conn EXCEPT ![k] = did] /\ old.peer \in {"fin", "dead"}
  <2>1. conn'[k] = did /\ \A j \in Conns : j # k => conn'[j] = conn[j]
    BY <1>1, <1>9 DEF Types
  <2>2. History(did)
    BY <1>4, <1>9
  <2>3. ~Up' /\ pc' # "frames"
    BY <1>9 DEF Up
  <2> QED BY <1>1, <2>1, <2>2, <2>3, OneHistory
<1>10. CASE Deactivate(conn)
  <2>1. [conn EXCEPT ![k] = conn[k]] = conn
    BY <1>1 DEF Types
  <2>2. SamePlace(conn[k], conn[k])
    BY DEF SamePlace
  <2>3. Deactivate([conn EXCEPT ![k] = conn[k]])
    BY <1>10, <2>1
  <2> QED BY <1>1, <1>2, <1>3, <2>2, <2>3, DeactivateHistories
<1> QED BY <1>6, <1>7, <1>8, <1>9, <1>10

LEMMA NextHistories == ServerInv /\ Histories /\ [Next]_vars => Histories'
  BY WorldHistories, OtherStepsHistories, AcceptHistories, ReceiveIdHistories,
     ReceiveHistories, HandleHistories DEF Next, ServerNext

(* Of every connection, and whatever the server is doing, what is due is   *)
(* what was carried out, the frames in hand and those not received yet.    *)
THEOREM HistoriesSafe == Spec => [](ServerInv /\ Histories)
<1>1. Init => ServerInv /\ Histories
  BY InitServerInv, InitHistories
<1>2. ServerInv /\ Histories /\ [Next]_vars => ServerInv' /\ Histories'
  BY NextServerInv, NextHistories
<1> QED BY <1>1, <1>2, PTL DEF Spec

(* The commands of a connection are carried out in the order sent, each    *)
(* once, and acknowledged in that order; and as long as the connection is  *)
(* held none is missing save the first ones that the recv of the id cost,  *)
(* however the scan, the peers and the other clients interleave            *)
(* (client_handle_data).                                                   *)
THEOREM InOrder == Spec => []CommandsInOrder
<1>1. ServerInv /\ Histories => CommandsInOrder
  BY DEF Histories, History, Complete, Due, CommandsInOrder
<1> QED BY <1>1, HistoriesSafe, PTL

=============================================================================
