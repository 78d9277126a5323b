---------------------------- MODULE BrokerProofs ----------------------------
(***************************************************************************)
(* Proofs about module Broker, for any number of subscribers, whatever is  *)
(* typed at them, and for connections of any capacity.                     *)
(***************************************************************************)
EXTENDS Broker, SequenceLemmas, FiniteSetTheorems, FunctionTheorems

-----------------------------------------------------------------------------
(* Types *)

Ops == {"sub", "unsub", "bogus"}

Publications == [kind : {"pub"}, number : Nat]
Events == Publications \cup [kind : {"sub", "unsub", "end"}, client : Subs]

(* An acknowledgement goes to the client being served, which is not to be  *)
(* scanned again in this round.                                            *)
Placed(x, h, k) == x[2].kind = "pub" \/ (x[1] \notin h /\ k \subseteq {x[1]})

AllPlaced(out, h, k) == \A n \in 1 .. Len(out) : Placed(out[n], h, k)

(* The server, and how it gets through a round: it serves one client of    *)
(* those that poll reported, and has sent everything when it polls.        *)
ServerShapes ==
    /\ pc \in {"poll", "scan", "stopped", "killed"}
    /\ clients \subseteq Subs /\ hot \subseteq clients /\ cur \subseteq clients
    /\ subs \in [Subs -> Nat]
    /\ cur \cap hot = {} /\ \A c, d \in cur : c = d
    /\ cur = {} <=> buf = << >>
    /\ pc = "poll" => outbox = << >> /\ cur = {}
    /\ buf \in Seq(Ops) /\ outbox \in Seq(Subs \X Events)
    /\ log \in Seq(Events) /\ udpq \in Seq(Publications)
    /\ datagrams \in Nat
    /\ AllPlaced(outbox, hot, cur)

ConnectionShapes ==
    /\ toServer \in [Subs -> Seq(Ops)] /\ toSub \in [Subs -> Seq(Events)]
    /\ \A c \in Subs : Len(toServer[c]) <= Capacity /\ Len(toSub[c]) <= Capacity

SubscriberShapes ==
    /\ script \in Scripts /\ typed \in [Subs -> Nat]
    /\ pipe \in [Subs -> Seq(Lines)] /\ stdio \in [Subs -> Seq(Lines)]
    /\ line \in [Subs -> Lines]
    /\ stage \in [Subs -> {"select", "send", "sock", "ended"}]
    /\ sentBy \in [Subs -> Seq(Ops)] /\ seen \in [Subs -> Seq(Events)]
    /\ \A c \in Subs : /\ typed[c] <= Len(script[c])
                       /\ stage[c] = "send" => line[c] \in {"sub", "unsub", "short"}

Shapes == ServerShapes /\ ConnectionShapes /\ SubscriberShapes

LEMMA NonePlaced == \A h, k : AllPlaced(<< >>, h, k)
  BY EmptySeq DEF AllPlaced

(* SetToSeq lists every element of a finite set once.                      *)
LEMMA SetToSeqProps ==
    ASSUME NEW T, IsFiniteSet(T)
    PROVE  /\ SetToSeq(T) \in Seq(T)
           /\ \A i, j \in 1 .. Len(SetToSeq(T)) : SetToSeq(T)[i] = SetToSeq(T)[j] => i = j
           /\ \A c \in T : \E i \in 1 .. Len(SetToSeq(T)) : SetToSeq(T)[i] = c
<1> DEFINE N == Cardinality(T)
           f == SetToSeq(T)
<1>1. N \in Nat /\ ExistsBijection(1 .. N, T)
  BY FS_CardinalityType
<1>2. PICK b : b \in Bijection(1 .. N, T)
  BY <1>1 DEF ExistsBijection
<1>3. b \in [1 .. N -> T] /\ IsInjective(b)
  <2>1. b \in [1 .. N -> T] /\ \A i, j \in 1 .. N : b[i] = b[j] => i = j
    BY <1>2, Fun_BijectionProperties
  <2> QED BY <2>1 DEF IsInjective
<1>4. f \in [1 .. N -> T] /\ IsInjective(f)
  BY <1>3 DEF SetToSeq
<1> HIDE DEF f, N
<1>5. f \in Seq(T) /\ Len(f) = N
  BY <1>1, <1>4
<1>6. \A i, j \in 1 .. N : f[i] = f[j] => i = j
  BY <1>4 DEF IsInjective
<1>7. f \in Surjection(1 .. N, T)
  <2>1. f \in Injection(1 .. N, T)
    BY <1>4, <1>6, Fun_IsInj
  <2>2. Cardinality(1 .. N) = N
    <3>1. 1 \in Int /\ N \in Int
      BY <1>1
    <3>2. Cardinality(1 .. N) = IF 1 > N THEN 0 ELSE N - 1 + 1
      BY <3>1, FS_Interval
    <3> QED BY <1>1, <3>2
  <2>3. Cardinality(1 .. N) = Cardinality(T)
    BY <2>2 DEF N
  <2> QED BY <2>1, <2>3, FS_Injection
<1>8. \A c \in T : \E i \in 1 .. N : f[i] = c
  BY <1>7 DEF Surjection
<1>9. /\ f \in Seq(T) /\ \A i, j \in 1 .. Len(f) : f[i] = f[j] => i = j
      /\ \A c \in T : \E i \in 1 .. Len(f) : f[i] = c
  BY <1>5, <1>6, <1>8
<1> QED BY <1>9 DEF f

LEMMA FiniteParts == \A T \in SUBSET Subs : IsFiniteSet(T)
  BY BrokerAssumption, FS_Subset

LEMMA InitShapes == Init => Shapes
<1> SUFFICES ASSUME Init PROVE Shapes
  OBVIOUS
<1>1. ServerShapes
  BY NonePlaced DEF Init, ServerShapes
<1>2. ConnectionShapes
  BY BrokerAssumption DEF Init, ConnectionShapes
<1>3. SubscriberShapes
  <2>1. script \in [Subs -> Seq(Lines \cup {"eof"})]
    BY BrokerAssumption DEF Init
  <2>2. \A c \in Subs : Len(script[c]) \in Nat
    BY <2>1
  <2> QED BY <2>2 DEF Init, SubscriberShapes, Lines
<1> QED BY <1>1, <1>2, <1>3 DEF Shapes

-----------------------------------------------------------------------------
(* The steps of the world and of the server keep the types *)

LEMMA SendDatagramShapes == Shapes /\ SendDatagram => Shapes'
<1> SUFFICES ASSUME Shapes, SendDatagram PROVE Shapes'
  OBVIOUS
<1>1. datagrams' \in Nat /\ udpq' \in Seq(Publications)
  <2> DEFINE d == [kind |-> "pub", number |-> datagrams']
  <2>1. datagrams' \in Nat /\ d \in Publications
    BY DEF SendDatagram, Shapes, ServerShapes, Publications
  <2>2. udpq' = Append(udpq, d) /\ udpq \in Seq(Publications)
    BY DEF SendDatagram, Shapes, ServerShapes
  <2> HIDE DEF d
  <2> QED BY <2>1, <2>2, AppendProperties
<1> QED BY <1>1 DEF SendDatagram, Shapes, ServerShapes, ConnectionShapes, SubscriberShapes,
                    server, channels, subscribers, input

LEMMA TypeShapes == ASSUME NEW c \in Subs PROVE Shapes /\ Type(c) => Shapes'
<1> SUFFICES ASSUME Shapes, Type(c) PROVE Shapes'
  OBVIOUS
<1>1. ServerShapes' /\ ConnectionShapes'
  BY DEF Type, Shapes, ServerShapes, ConnectionShapes, server, channels
<1>2. SubscriberShapes'
  <2> DEFINE n == typed[c] + 1
             text == script[c][n]
  <2>1. script[c] \in Seq(Lines \cup {"eof"})
    BY BrokerAssumption DEF Shapes, SubscriberShapes
  <2>2. n \in 1 .. Len(script[c])
    BY <2>1 DEF Type, Shapes, SubscriberShapes
  <2>3. text \in Lines \cup {"eof"}
    BY <2>1, <2>2
  <2>4. /\ typed' = [typed EXCEPT ![c] = n]
        /\ pipe' = IF text = "eof" THEN pipe ELSE [pipe EXCEPT ![c] = Append(pipe[c], text)]
        /\ UNCHANGED <<script, stdio, line, stage, sentBy, seen>>
    BY DEF Type
  <2> HIDE DEF n, text
  <2>5. pipe' \in [Subs -> Seq(Lines)]
    <3>1. CASE text = "eof"
      BY <2>4, <3>1 DEF Shapes, SubscriberShapes
    <3>2. CASE text # "eof"
      <4>1. Append(pipe[c], text) \in Seq(Lines)
        BY <2>3, <3>2, AppendProperties DEF Shapes, SubscriberShapes
      <4> QED BY <2>4, <3>2, <4>1 DEF Shapes, SubscriberShapes
    <3> QED BY <3>1, <3>2
  <2> QED BY <2>2, <2>4, <2>5 DEF Shapes, SubscriberShapes
<1> QED BY <1>1, <1>2 DEF Shapes

(* What Publish puts under way.                                            *)
LEMMA PublishShapes ==
    ASSUME Shapes, NEW frame \in Events, Publish(frame)
    PROVE  /\ outbox' \in Seq(Subs \X Events)
           /\ frame.kind = "pub" => \A h, k : AllPlaced(outbox', h, k)
<1> DEFINE T == {c \in clients : subs[c] > 0}
           receivers == SetToSeq(T)
<1>1. receivers \in Seq(T) /\ T \subseteq Subs
  <2>1. T \in SUBSET Subs
    BY DEF Shapes, ServerShapes
  <2> QED BY <2>1, FiniteParts, SetToSeqProps
<1>2. outbox' = [n \in DOMAIN receivers |-> <<receivers[n], frame>>]
  BY DEF Publish
<1> HIDE DEF receivers, T
<1>3. Len(receivers) \in Nat /\ DOMAIN receivers = 1 .. Len(receivers)
      /\ \A n \in 1 .. Len(receivers) : receivers[n] \in Subs
  BY <1>1
<1>4. Len(outbox') = Len(receivers) /\ \A n \in 1 .. Len(outbox') : outbox'[n][2] = frame
  BY <1>2, <1>3
<1> QED BY <1>2, <1>3, <1>4 DEF AllPlaced, Placed

LEMMA RoundShapes == Shapes /\ (Poll \/ PollExit) => Shapes'
<1> SUFFICES ASSUME Shapes, NEW stop \in BOOLEAN, Round(stop) PROVE Shapes'
  BY DEF Poll, PollExit
<1>1. outbox' \in Seq(Subs \X Events) /\ log' \in Seq(Events) /\ udpq' \in Seq(Publications)
      /\ AllPlaced(outbox', hot', cur')
  <2>1. CASE udpq = << >>
    BY <2>1, NonePlaced DEF Round, Shapes, ServerShapes
  <2>2. CASE udpq # << >>
    <3>1. Head(udpq) \in Publications /\ Tail(udpq) \in Seq(Publications)
      BY <2>2, HeadTailProperties DEF Shapes, ServerShapes
    <3>2. Head(udpq) \in Events /\ Head(udpq).kind = "pub"
      BY <3>1 DEF Events, Publications
    <3>3. Publish(Head(udpq)) /\ log' = Append(log, Head(udpq)) /\ udpq' = Tail(udpq)
      BY <2>2 DEF Round
    <3>4. log' \in Seq(Events)
      BY <3>2, <3>3, AppendProperties DEF Shapes, ServerShapes
    <3> QED BY <3>1, <3>2, <3>3, <3>4, PublishShapes
  <2> QED BY <2>1, <2>2
<1>2. /\ hot' \subseteq clients /\ pc' = "scan" /\ pc = "poll"
      /\ UNCHANGED <<clients, subs, cur, buf, datagrams>>
  BY DEF Round
<1>3. ServerShapes'
  BY <1>1, <1>2 DEF Shapes, ServerShapes
<1> QED BY <1>3 DEF Round, Shapes, ConnectionShapes, SubscriberShapes, channels, subscribers, input

LEMMA RestPlaced ==
    ASSUME NEW q \in Seq(Subs \X Events), q # << >>, NEW h, NEW k, AllPlaced(q, h, k)
    PROVE  Placed(Head(q), h, k) /\ AllPlaced(Tail(q), h, k)
<1>1. /\ Len(q) \in Nat \ {0} /\ Head(q) = q[1] /\ Len(Tail(q)) = Len(q) - 1
      /\ \A i \in 1 .. Len(q) - 1 : Tail(q)[i] = q[i + 1]
  BY LenProperties, EmptySeq, HeadTailProperties
<1>2. Placed(q[1], h, k)
  BY <1>1 DEF AllPlaced
<1>3. ASSUME NEW i \in 1 .. Len(Tail(q)) PROVE Placed(Tail(q)[i], h, k)
  <2>1. i + 1 \in 1 .. Len(q) /\ Tail(q)[i] = q[i + 1]
    BY <1>1
  <2> QED BY <2>1 DEF AllPlaced
<1> QED BY <1>1, <1>2, <1>3 DEF AllPlaced

LEMMA SendNextShapes == Shapes /\ SendNext => Shapes'
<1> SUFFICES ASSUME Shapes, SendNext PROVE Shapes'
  OBVIOUS
<1>1. PICK x \in Subs \X Events : x = Head(outbox)
  BY HeadTailProperties DEF SendNext, Shapes, ServerShapes
<1>2. outbox' = Tail(outbox) /\ outbox' \in Seq(Subs \X Events)
  BY HeadTailProperties DEF SendNext, Shapes, ServerShapes
<1>3. pc' \in {pc, "killed"} /\ (toSub' = toSub \/ Put(x[1], x[2]))
      /\ UNCHANGED <<clients, subs, hot, cur, buf, log, udpq, datagrams, toServer, subscribers>>
  BY <1>1 DEF SendNext
<1>4. ServerShapes'
  <2>1. pc # "poll"
    BY DEF SendNext, Shapes, ServerShapes
  <2>2. AllPlaced(outbox', hot, cur)
    BY <1>2, RestPlaced DEF SendNext, Shapes, ServerShapes
  <2> QED BY <1>2, <1>3, <2>1, <2>2 DEF Shapes, ServerShapes
<1>5. ConnectionShapes'
  <2>1. CASE toSub' = toSub
    BY <1>3, <2>1 DEF Shapes, ConnectionShapes
  <2>2. CASE Put(x[1], x[2])
    <3>1. x[1] \in Subs /\ x[2] \in Events
      BY <1>1
    <3>2. toSub' = [toSub EXCEPT ![x[1]] = Append(toSub[x[1]], x[2])] /\ Len(toSub[x[1]]) < Capacity
      BY <2>2 DEF Put
    <3>3. /\ Append(toSub[x[1]], x[2]) \in Seq(Events)
          /\ Len(Append(toSub[x[1]], x[2])) = Len(toSub[x[1]]) + 1
          /\ Len(toSub[x[1]]) \in Nat
      BY <3>1, AppendProperties, LenProperties DEF Shapes, ConnectionShapes
    <3> QED BY <1>3, <3>1, <3>2, <3>3, BrokerAssumption DEF Shapes, ConnectionShapes
  <2> QED BY <1>3, <2>1, <2>2
<1> QED BY <1>3, <1>4, <1>5 DEF Shapes, SubscriberShapes, subscribers, input

(* -1 from client_handle_data, or end of file, when no client is in hand.  *)
LEMMA DropShapes ==
    ASSUME Shapes, NEW c \in Subs, Drop(c)
    PROVE  /\ clients' = clients \ {c} /\ log' \in Seq(Events) /\ buf' = << >> /\ cur' = {}
           /\ UNCHANGED subs
<1> DEFINE e == [kind |-> "end", client |-> c]
<1>1. e \in Events
  BY DEF Events, Shapes, ServerShapes
<1>2. log' = Append(log, e)
  BY DEF Drop
<1> HIDE DEF e
<1>3. log' \in Seq(Events)
  BY <1>1, <1>2, AppendProperties DEF Shapes, ServerShapes
<1> QED BY <1>3 DEF Drop

LEMMA SendFailsShapes == Shapes /\ SendFails => Shapes'
<1> SUFFICES ASSUME Shapes, SendFails PROVE Shapes'
  OBVIOUS
<1>1. PICK x \in Subs \X Events : x = Head(outbox)
  BY HeadTailProperties DEF SendFails, Shapes, ServerShapes
<1>2. PICK c \in Subs : c = x[1]
  OBVIOUS
<1>3. /\ Drop(c) /\ x[2].kind # "pub" /\ outbox # << >> /\ outbox' = Tail(outbox)
      /\ UNCHANGED <<pc, hot, udpq, datagrams, toSub, toServer, subscribers>>
  BY <1>1, <1>2 DEF SendFails, channels
<1>4. outbox' \in Seq(Subs \X Events) /\ Placed(x, hot, cur) /\ AllPlaced(outbox', hot, cur)
  BY <1>1, <1>3, HeadTailProperties, RestPlaced DEF Shapes, ServerShapes
<1>5. c \notin hot
  BY <1>2, <1>3, <1>4 DEF Placed
<1>6. AllPlaced(outbox', hot, {})
  BY <1>4 DEF AllPlaced, Placed
<1>7. /\ clients' = clients \ {c} /\ log' \in Seq(Events) /\ buf' = << >> /\ cur' = {}
      /\ subs' = subs /\ << >> \in Seq(Ops)
  BY <1>3, DropShapes
<1>8. pc # "poll"
  BY <1>3 DEF Shapes, ServerShapes
<1>9. ServerShapes'
  BY <1>3, <1>4, <1>5, <1>6, <1>7, <1>8 DEF Shapes, ServerShapes
<1> QED BY <1>3, <1>9 DEF Shapes, ConnectionShapes, SubscriberShapes, subscribers, input

LEMMA ScanShapes == ASSUME NEW c \in Subs PROVE Shapes /\ Scan(c) => Shapes'
<1> SUFFICES ASSUME Shapes, Scan(c) PROVE Shapes'
  OBVIOUS
<1>0. /\ pc = "scan" /\ cur = {} /\ c \in hot /\ c \in clients /\ hot' = hot \ {c}
      /\ outbox = << >> /\ outbox' = outbox
      /\ UNCHANGED <<pc, udpq, datagrams, toSub, subscribers>>
  BY DEF Scan, Shapes, ServerShapes
<1>3. AllPlaced(outbox', hot', cur')
  BY <1>0, NonePlaced
<1>1. CASE toServer[c] # << >>
  <2>1. PICK n \in 1 .. Len(toServer[c]) :
           /\ buf' = SubSeq(toServer[c], 1, n)
           /\ toServer' = [toServer EXCEPT ![c] = SubSeq(@, n + 1, Len(@))]
    BY <1>1 DEF Scan
  <2>2. cur' = {c} /\ UNCHANGED <<clients, log, subs, outbox>>
    BY <1>1 DEF Scan
  <2>3. toServer[c] \in Seq(Ops) /\ Len(toServer[c]) \in Nat /\ n \in Nat /\ 0 <= n
        /\ n <= Len(toServer[c]) /\ 1 <= n /\ Len(toServer[c]) <= Len(toServer[c])
    BY LenProperties DEF Shapes, ConnectionShapes
  <2> DEFINE a == SubSeq(toServer[c], 1, n)
             b == SubSeq(toServer[c], n + 1, Len(toServer[c]))
  <2>4. a \in Seq(Ops) /\ Len(a) = n
    <3>1. \A i \in 1 .. n : toServer[c][i] \in Ops
      BY <2>3
    <3>2. Len(a) = IF 1 <= n THEN n - 1 + 1 ELSE 0
      BY <2>3, <3>1, SubSeqProperties
    <3>3. a \in Seq(Ops)
      BY <2>3, <3>1, SubSeqProperties
    <3> HIDE DEF a
    <3> QED BY <2>3, <3>2, <3>3
  <2>5. b \in Seq(Ops) /\ Len(b) = Len(toServer[c]) - n
    BY <2>3, PieceOf
  <2> HIDE DEF a, b
  <2>6. buf' = a /\ toServer' = [toServer EXCEPT ![c] = b]
    BY <2>1 DEF a, b
  <2>7. a # << >>
    BY <2>3, <2>4, EmptySeq
  <2>8. ServerShapes'
    BY <1>0, <1>3, <2>2, <2>4, <2>6, <2>7 DEF Shapes, ServerShapes
  <2>9. ConnectionShapes'
    <3>1. Len(b) <= Capacity
      BY <2>3, <2>5, BrokerAssumption DEF Shapes, ConnectionShapes
    <3> QED BY <1>0, <2>5, <2>6, <3>1 DEF Shapes, ConnectionShapes
  <2> QED BY <1>0, <2>8, <2>9 DEF Shapes, SubscriberShapes, subscribers, input
<1>2. CASE toServer[c] = << >>
  <2>1. Drop(c) /\ UNCHANGED toServer
    BY <1>2 DEF Scan
  <2>2. ServerShapes'
    BY <1>0, <1>3, <2>1, DropShapes, EmptySeq DEF Shapes, ServerShapes
  <2> QED BY <1>0, <2>1, <2>2 DEF Shapes, ConnectionShapes, SubscriberShapes, subscribers, input
<1> QED BY <1>1, <1>2

(* What carrying out a command does.                                       *)
LEMMA CarryShapes ==
    ASSUME Shapes, NEW c \in clients, NEW op \in {"sub", "unsub"}, Possible(c, op), Carry(c, op),
           buf # << >>
    PROVE  /\ subs' \in [Subs -> Nat]
           /\ subs' = [subs EXCEPT ![c] = @ + (IF op = "sub" THEN 1 ELSE -1)]
           /\ [kind |-> op, client |-> c] \in Events
           /\ log' = Append(log, [kind |-> op, client |-> c]) /\ log' \in Seq(Events)
           /\ outbox' = <<<<c, [kind |-> op, client |-> c]>>>> /\ outbox' \in Seq(Subs \X Events)
           /\ buf' = Tail(buf) /\ buf' \in Seq(Ops)
           /\ cur' = IF buf' = << >> THEN {} ELSE cur
           /\ clients' = clients
<1> DEFINE e == [kind |-> op, client |-> c]
<1>1. c \in Subs /\ e \in Events
  BY DEF Events, Shapes, ServerShapes
<1>2. log' = Append(log, e)
  BY DEF Carry
<1> HIDE DEF e
<1>3. log' \in Seq(Events) /\ Last(log') = e
  <2>1. log' \in Seq(Events) /\ Len(log') = Len(log) + 1 /\ log'[Len(log) + 1] = e
    BY <1>1, <1>2, AppendProperties DEF Shapes, ServerShapes
  <2> QED BY <2>1 DEF Last
<1>4. outbox' = <<<<c, e>>>>
  BY <1>3 DEF Carry
<1>5. outbox' \in Seq(Subs \X Events)
  BY <1>1, <1>4
<1>6. subs[c] \in Nat /\ (op = "sub" \/ subs[c] > 0)
  BY <1>1 DEF Possible, Shapes, ServerShapes
<1>7. subs' = [subs EXCEPT ![c] = @ + (IF op = "sub" THEN 1 ELSE -1)]
  BY DEF Carry
<1>8. subs' \in [Subs -> Nat]
  <2>1. subs[c] + (IF op = "sub" THEN 1 ELSE -1) \in Nat
    BY <1>6
  <2> QED BY <1>7, <2>1 DEF Shapes, ServerShapes
<1>9. buf' = Tail(buf) /\ buf' \in Seq(Ops)
  BY HeadTailProperties DEF Carry, Shapes, ServerShapes
<1> QED BY <1>1, <1>2, <1>3, <1>4, <1>5, <1>7, <1>8, <1>9 DEF Carry, e

LEMMA HandleFrameShapes == ASSUME NEW c \in Subs PROVE Shapes /\ HandleFrame(c) => Shapes'
<1> SUFFICES ASSUME Shapes, HandleFrame(c) PROVE Shapes'
  OBVIOUS
<1>0. /\ pc = "scan" /\ cur = {c} /\ c \in clients /\ buf # << >>
      /\ UNCHANGED <<pc, hot, udpq, datagrams, channels, subscribers>>
  BY DEF HandleFrame, Shapes, ServerShapes
<1>1. CASE Possible(c, Head(buf)) /\ Carry(c, Head(buf))
  <2>1. PICK op \in {"sub", "unsub"} : op = Head(buf)
    BY <1>1 DEF Possible
  <2>2. /\ subs' \in [Subs -> Nat] /\ log' \in Seq(Events) /\ outbox' \in Seq(Subs \X Events)
        /\ buf' \in Seq(Ops) /\ cur' = (IF buf' = << >> THEN {} ELSE cur)
        /\ clients' = clients
    <3>1. Possible(c, op) /\ Carry(c, op)
      BY <1>1, <2>1
    <3>2. op \in {"sub", "unsub"} /\ c \in clients /\ buf # << >>
      BY <1>0
    <3> QED BY <3>1, <3>2, CarryShapes
  <2>3. AllPlaced(outbox', hot', cur')
    <3> DEFINE x == <<c, [kind |-> op, client |-> c]>>
    <3>1. outbox' = <<x>> /\ x[1] = c
      BY <1>0, <1>1, <2>1, CarryShapes
    <3>2. c \notin hot' /\ cur' \subseteq {c}
      BY <1>0, <2>2 DEF Shapes, ServerShapes
    <3> HIDE DEF x
    <3>3. Len(<<x>>) = 1 /\ <<x>>[1] = x
      OBVIOUS
    <3> QED BY <3>1, <3>2, <3>3 DEF AllPlaced, Placed
  <2>4. ServerShapes'
    BY <1>0, <2>2, <2>3 DEF Shapes, ServerShapes
  <2> QED BY <1>0, <2>4 DEF Shapes, ConnectionShapes, SubscriberShapes, channels, subscribers, input
<1>2. CASE Drop(c) /\ outbox' = outbox
  <2>1. c \notin hot
    BY <1>0 DEF Shapes, ServerShapes
  <2>2. /\ clients' = clients \ {c} /\ log' \in Seq(Events) /\ buf' = << >> /\ cur' = {}
        /\ subs' = subs
    BY <1>0, <1>2, DropShapes
  <2>3. << >> \in Seq(Ops) /\ outbox = << >> /\ AllPlaced(<< >>, hot, {})
    BY NonePlaced DEF HandleFrame
  <2>4. ServerShapes'
    BY <1>0, <1>2, <2>1, <2>2, <2>3 DEF Shapes, ServerShapes
  <2> QED BY <1>0, <2>4 DEF Shapes, ConnectionShapes, SubscriberShapes, channels, subscribers, input
<1> QED BY <1>1, <1>2 DEF HandleFrame

LEMMA EndRoundShapes == Shapes /\ EndRound => Shapes'
  BY DEF EndRound, Shapes, ServerShapes, ConnectionShapes, SubscriberShapes, channels, subscribers, input

-----------------------------------------------------------------------------
(* The steps of a subscriber keep the types *)

(* Taking the first of a sequence of lines.                                *)
LEMMA GetsShapes ==
    ASSUME Shapes, NEW c \in Subs, Gets(c)
    PROVE  /\ line' \in [Subs -> Lines] /\ stdio' \in [Subs -> Seq(Lines)]
           /\ pipe' \in [Subs -> Seq(Lines)]
           /\ \A d \in Subs : d # c => line'[d] = line[d] /\ stdio'[d] = stdio[d] /\ pipe'[d] = pipe[d]
<1>0. /\ stdio[c] \in Seq(Lines) /\ pipe[c] \in Seq(Lines) /\ LinesAt(c) \in Seq(Lines)
      /\ line \in [Subs -> Lines] /\ stdio \in [Subs -> Seq(Lines)] /\ pipe \in [Subs -> Seq(Lines)]
  BY DEF Shapes, SubscriberShapes, LinesAt
<1>1. CASE LinesAt(c) = << >>
  <2>1. line' \in {line, [line EXCEPT ![c] = "other"]} /\ stdio' = stdio /\ pipe' = pipe
    BY <1>1 DEF Gets
  <2>2. "other" \in Lines
    BY DEF Lines
  <2> QED BY <1>0, <2>1, <2>2
<1>2. CASE LinesAt(c) # << >>
  <2>1. Head(LinesAt(c)) \in Lines /\ Tail(LinesAt(c)) \in Seq(Lines)
    BY <1>0, <1>2, HeadTailProperties
  <2>2. /\ line' = [line EXCEPT ![c] = Head(LinesAt(c))]
        /\ stdio' = [stdio EXCEPT ![c] = Tail(LinesAt(c))]
        /\ pipe' \in {pipe, [pipe EXCEPT ![c] = << >>]}
    BY <1>2 DEF Gets
  <2> QED BY <1>0, <2>1, <2>2, EmptySeq
<1> QED BY <1>1, <1>2

LEMMA SelectShapes == ASSUME NEW c \in Subs PROVE Shapes /\ Select(c) => Shapes'
<1> SUFFICES ASSUME Shapes, Select(c) PROVE Shapes'
  OBVIOUS
<1>0. UNCHANGED <<server, udpq, datagrams, channels, script, typed, sentBy, seen>>
  BY DEF Select
<1>1. /\ line' \in [Subs -> Lines] /\ stdio' \in [Subs -> Seq(Lines)] /\ pipe' \in [Subs -> Seq(Lines)]
      /\ \A d \in Subs : d # c => line'[d] = line[d]
  BY GetsShapes DEF Select, Shapes, SubscriberShapes
<1>2. /\ stage' \in [Subs -> {"select", "send", "sock", "ended"}]
      /\ \A d \in Subs : stage'[d] = "send" => line'[d] \in {"sub", "unsub", "short"}
  <2>1. stage' = [stage EXCEPT ![c] = "sock"]
        \/ stage' = [stage EXCEPT ![c] = CASE line'[c] = "exit" -> "ended"
                                           [] line'[c] = "other" -> "sock"
                                           [] OTHER -> "send"]
    BY DEF Select, Goto
  <2>2. line'[c] \in {"sub", "unsub", "exit", "short", "other"}
    BY <1>1 DEF Lines
  <2>3. stage \in [Subs -> {"select", "send", "sock", "ended"}]
        /\ \A d \in Subs : stage[d] = "send" => line[d] \in {"sub", "unsub", "short"}
    BY DEF Shapes, SubscriberShapes
  <2> QED BY <1>1, <2>1, <2>2, <2>3
<1> QED BY <1>0, <1>1, <1>2 DEF Shapes, ServerShapes, ConnectionShapes, SubscriberShapes, server, channels

(* What a line that is sent is sent as.                                    *)
LEMMA FrameOp == \A l \in {"sub", "unsub", "short"} : Frame(l) \in Ops
  BY DEF Frame, Ops

LEMMA SendShapes == ASSUME NEW c \in Subs PROVE Shapes /\ Send(c) => Shapes'
<1> SUFFICES ASSUME Shapes, Send(c) PROVE Shapes'
  OBVIOUS
<1>0. UNCHANGED <<server, udpq, datagrams, toSub, script, typed, pipe, stdio, line, seen>>
  BY DEF Send, input
<1>1. PICK f \in Ops : f = Frame(line[c])
  BY FrameOp DEF Send, Shapes, SubscriberShapes
<1>2. sentBy' \in [Subs -> Seq(Ops)]
  <2>1. sentBy' = [sentBy EXCEPT ![c] = Append(sentBy[c], f)]
    BY <1>1 DEF Send
  <2>2. Append(sentBy[c], f) \in Seq(Ops)
    BY AppendProperties DEF Shapes, SubscriberShapes
  <2> QED BY <2>1, <2>2 DEF Shapes, SubscriberShapes
<1>3. stage' = [stage EXCEPT ![c] = "ended"] \/ stage' = [stage EXCEPT ![c] = "sock"]
  BY DEF Send, Goto
<1>4. SubscriberShapes'
  BY <1>0, <1>2, <1>3 DEF Shapes, SubscriberShapes
<1>5. ConnectionShapes'
  <2>1. CASE toServer' = toServer
    BY <1>0, <2>1 DEF Shapes, ConnectionShapes
  <2>2. CASE Len(toServer[c]) < Capacity /\ toServer' = [toServer EXCEPT ![c] = Append(toServer[c], f)]
    <3>1. /\ Append(toServer[c], f) \in Seq(Ops)
          /\ Len(Append(toServer[c], f)) = Len(toServer[c]) + 1
          /\ Len(toServer[c]) \in Nat
      BY AppendProperties, LenProperties DEF Shapes, ConnectionShapes
    <3> QED BY <1>0, <2>2, <3>1, BrokerAssumption DEF Shapes, ConnectionShapes
  <2> QED BY <1>1, <2>1, <2>2 DEF Send
<1> QED BY <1>0, <1>4, <1>5 DEF Shapes, ServerShapes, server

LEMMA ReceiveShapes == ASSUME NEW c \in Subs PROVE Shapes /\ Receive(c) => Shapes'
<1> SUFFICES ASSUME Shapes, Receive(c) PROVE Shapes'
  OBVIOUS
<1>0. UNCHANGED <<server, udpq, datagrams, toServer, script, typed, pipe, stdio, line, sentBy>>
  BY DEF Receive, input
<1>1. stage' = [stage EXCEPT ![c] = "ended"] \/ stage' = [stage EXCEPT ![c] = "select"]
  BY DEF Receive, Goto, HangUp
<1>2. /\ seen' \in [Subs -> Seq(Events)] /\ toSub' \in [Subs -> Seq(Events)]
      /\ \A d \in Subs : Len(toSub'[d]) <= Capacity
  <2>1. CASE seen' = seen /\ toSub' = toSub
    BY <2>1 DEF Shapes, ConnectionShapes, SubscriberShapes
  <2>2. CASE /\ toSub[c] # << >> /\ seen' = [seen EXCEPT ![c] = Append(@, Head(toSub[c]))]
             /\ toSub' = [toSub EXCEPT ![c] = Tail(@)]
    <3>1. /\ Head(toSub[c]) \in Events /\ Tail(toSub[c]) \in Seq(Events)
          /\ Len(Tail(toSub[c])) = Len(toSub[c]) - 1 /\ Len(toSub[c]) \in Nat
      BY <2>2, HeadTailProperties, LenProperties DEF Shapes, ConnectionShapes
    <3>2. Append(seen[c], Head(toSub[c])) \in Seq(Events)
      BY <3>1, AppendProperties DEF Shapes, SubscriberShapes
    <3> QED BY <2>2, <3>1, <3>2, BrokerAssumption DEF Shapes, ConnectionShapes, SubscriberShapes
  <2> QED BY <2>1, <2>2 DEF Receive
<1>3. SubscriberShapes' /\ ConnectionShapes'
  BY <1>0, <1>1, <1>2 DEF Shapes, SubscriberShapes, ConnectionShapes
<1> QED BY <1>0, <1>3 DEF Shapes, ServerShapes, server

LEMMA NextShapes == Shapes /\ [Next]_vars => Shapes'
<1> SUFFICES ASSUME Shapes, [Next]_vars PROVE Shapes'
  OBVIOUS
<1>1. CASE UNCHANGED vars
  BY <1>1 DEF Shapes, ServerShapes, ConnectionShapes, SubscriberShapes, vars, server, channels,
              subscribers, input
<1> QED BY <1>1, SendDatagramShapes, TypeShapes, RoundShapes, SendNextShapes, SendFailsShapes,
           ScanShapes, HandleFrameShapes, EndRoundShapes, SelectShapes, SendShapes, ReceiveShapes
        DEF Next, ServerNext, SubscriberNext

(* However subscribers and server interleave, no connection holds more     *)
(* than it can and no count of subscriptions goes below zero.              *)
THEOREM BrokerTypeCorrect == Spec => []TypeOK
<1>1. Shapes => TypeOK
  BY DEF Shapes, ServerShapes, ConnectionShapes, SubscriberShapes, TypeOK
<1> QED BY <1>1, InitShapes, NextShapes, PTL DEF Spec

-----------------------------------------------------------------------------
(* The history and what it shows, as operators of a history *)

CountOf(l, c, kind, n) ==
    Cardinality({i \in 1 .. n - 1 : l[i].kind = kind /\ l[i].client = c})

ConcernsOf(l, c, n) ==
    /\ CountOf(l, c, "end", n) = 0
    /\ \/ l[n].kind \in {"sub", "unsub"} /\ l[n].client = c
       \/ l[n].kind = "pub" /\ CountOf(l, c, "sub", n) > CountOf(l, c, "unsub", n)

Shown(l, c, n) == IF ConcernsOf(l, c, n) THEN <<l[n]>> ELSE << >>

ViewOf(l, c) == FlattenSeq([n \in 1 .. Len(l) |-> Shown(l, c, n)])

(* How often something happened.                                           *)
Times(l, c, kind) == CountOf(l, c, kind, Len(l) + 1)

(* What the next event e shows to c after history l.                       *)
News(l, c, e) ==
    IF /\ Times(l, c, "end") = 0
       /\ \/ e.kind \in {"sub", "unsub"} /\ e.client = c
          \/ e.kind = "pub" /\ Times(l, c, "sub") > Times(l, c, "unsub")
    THEN <<e>> ELSE << >>

LEMMA TimesType == ASSUME NEW l \in Seq(Events), NEW c, NEW kind PROVE Times(l, c, kind) \in Nat
<1> DEFINE T == {i \in 1 .. Len(l) : l[i].kind = kind /\ l[i].client = c}
<1>1. Len(l) \in Int /\ 1 \in Int /\ (Len(l) + 1) - 1 = Len(l)
  BY LenProperties
<1>2. IsFiniteSet(1 .. Len(l))
  BY <1>1, FS_Interval
<1>3. T \in SUBSET (1 .. Len(l))
  OBVIOUS
<1> HIDE DEF T
<1>4. Cardinality(T) \in Nat
  BY <1>2, <1>3, FS_Subset, FS_CardinalityType
<1> QED BY <1>1, <1>4 DEF Times, CountOf, T

(* An event leaves the counts before it alone ...                          *)
LEMMA CountStays ==
    ASSUME NEW l \in Seq(Events), NEW e \in Events, NEW c, NEW kind, NEW n \in 1 .. Len(l) + 1
    PROVE  CountOf(Append(l, e), c, kind, n) = CountOf(l, c, kind, n)
<1>1. \A i \in 1 .. Len(l) : Append(l, e)[i] = l[i]
  BY AppendProperties
<1>2. \A i \in 1 .. n - 1 : i \in 1 .. Len(l)
  BY LenProperties
<1>3. {i \in 1 .. n - 1 : Append(l, e)[i].kind = kind /\ Append(l, e)[i].client = c}
         = {i \in 1 .. n - 1 : l[i].kind = kind /\ l[i].client = c}
  BY <1>1, <1>2
<1> QED BY <1>3 DEF CountOf

(* ... and counts itself.                                                  *)
LEMMA TimesGrow ==
    ASSUME NEW l \in Seq(Events), NEW e \in Events, NEW c, NEW kind
    PROVE  Times(Append(l, e), c, kind)
              = Times(l, c, kind) + (IF e.kind = kind /\ e.client = c THEN 1 ELSE 0)
<1> DEFINE N == Len(l)
           T == {i \in 1 .. N : l[i].kind = kind /\ l[i].client = c}
           m == Append(l, e)
           U == {i \in 1 .. N + 1 : m[i].kind = kind /\ m[i].client = c}
<1>1. N \in Nat /\ (N + 1) - 1 = N /\ ((N + 1) + 1) - 1 = N + 1
  BY LenProperties
<1>2. /\ Len(m) = N + 1 /\ m[N + 1] = e /\ \A i \in 1 .. N : m[i] = l[i]
  BY AppendProperties
<1>3. IsFiniteSet(T) /\ Cardinality(T) \in Nat
  <2>1. 1 \in Int /\ N \in Int
    BY <1>1
  <2>2. IsFiniteSet(1 .. N)
    BY <2>1, FS_Interval
  <2>3. T \in SUBSET (1 .. N)
    OBVIOUS
  <2> HIDE DEF T
  <2> QED BY <2>2, <2>3, FS_Subset, FS_CardinalityType
<1>4. Times(l, c, kind) = Cardinality(T)
  BY <1>1 DEF Times, CountOf
<1>5. Times(m, c, kind) = Cardinality(U)
  BY <1>1, <1>2 DEF Times, CountOf
<1>6. N + 1 \notin T
  BY <1>1
<1>7. U = IF e.kind = kind /\ e.client = c THEN T \cup {N + 1} ELSE T
  <2> HIDE DEF m
  <2>1. \A i : i \in 1 .. N + 1 <=> i \in 1 .. N \/ i = N + 1
    BY <1>1
  <2> QED BY <1>2, <2>1, <1>6
<1> HIDE DEF T, U, m
<1>8. Cardinality(T \cup {N + 1}) = Cardinality(T) + 1
  BY <1>3, <1>6, FS_AddElement
<1> QED BY <1>3, <1>4, <1>5, <1>7, <1>8 DEF m

(* It adds to a view what it shows, at the end.                            *)
ViewAppends(l, c, e) == ViewOf(Append(l, e), c) = ViewOf(l, c) \o News(l, c, e)

LEMMA ViewGrows ==
    ASSUME NEW l \in Seq(Events), NEW e \in Events, NEW c
    PROVE  /\ ViewOf(l, c) \in Seq(Events) /\ News(l, c, e) \in Seq(Events)
           /\ ViewAppends(l, c, e)
<1> DEFINE N == Len(l)
           m == Append(l, e)
           S == Seq(Events)
<1>1. N \in Nat /\ \A i \in 1 .. N : l[i] \in Events
  BY LenProperties
<1>2. /\ m \in Seq(Events) /\ Len(m) = N + 1 /\ m[N + 1] = e
      /\ \A i \in 1 .. N : m[i] = l[i]
  BY AppendProperties
<1>3. ASSUME NEW q \in Seq(Events), NEW n \in 1 .. Len(q) PROVE Shown(q, c, n) \in S
  <2>1. q[n] \in Events
    OBVIOUS
  <2>2. <<q[n]>> \in S /\ << >> \in S
    BY <2>1
  <2> QED BY <2>2 DEF Shown
<1>4. News(l, c, e) \in S
  <2>1. <<e>> \in S /\ << >> \in S
    OBVIOUS
  <2> QED BY <2>1 DEF News
<1>5. ASSUME NEW n \in 1 .. N PROVE Shown(m, c, n) = Shown(l, c, n)
  <2>1. n \in 1 .. N + 1 /\ m[n] = l[n]
    BY <1>1, <1>2
  <2>2. \A kind : CountOf(m, c, kind, n) = CountOf(l, c, kind, n)
    BY <2>1, CountStays
  <2> HIDE DEF m
  <2>3. ConcernsOf(m, c, n) <=> ConcernsOf(l, c, n)
    BY <2>1, <2>2 DEF ConcernsOf
  <2> QED BY <2>1, <2>3 DEF Shown
<1>6. Shown(m, c, N + 1) = News(l, c, e)
  <2>1. N + 1 \in 1 .. N + 1
    BY <1>1
  <2>2. \A kind : CountOf(m, c, kind, N + 1) = Times(l, c, kind)
    BY <2>1, CountStays DEF Times
  <2> HIDE DEF m
  <2>3. ConcernsOf(m, c, N + 1) <=>
          /\ Times(l, c, "end") = 0
          /\ \/ e.kind \in {"sub", "unsub"} /\ e.client = c
             \/ e.kind = "pub" /\ Times(l, c, "sub") > Times(l, c, "unsub")
    BY <1>2, <2>2 DEF ConcernsOf
  <2> QED BY <1>2, <2>3 DEF Shown, News
<1> DEFINE a == [n \in 1 .. N |-> Shown(l, c, n)]
           b == [n \in 1 .. N + 1 |-> Shown(m, c, n)]
<1> HIDE DEF S
<1>7. a \in Seq(S) /\ Len(a) = N /\ \A n \in 1 .. N : a[n] = Shown(l, c, n)
  BY <1>1, <1>3
<1>8. b \in Seq(S) /\ Len(b) = N + 1 /\ \A n \in 1 .. N + 1 : b[n] = Shown(m, c, n)
  <2> HIDE DEF m
  <2>1. \A n \in 1 .. N + 1 : Shown(m, c, n) \in S
    BY <1>2, <1>3
  <2> QED BY <1>1, <2>1
<1> HIDE DEF a, b, m
<1>9. b = Append(a, News(l, c, e))
  <2>1. /\ Append(a, News(l, c, e)) \in Seq(S) /\ Len(Append(a, News(l, c, e))) = N + 1
        /\ \A n \in 1 .. N : Append(a, News(l, c, e))[n] = a[n]
        /\ Append(a, News(l, c, e))[N + 1] = News(l, c, e)
    BY <1>4, <1>7, AppendProperties
  <2>2. ASSUME NEW n \in 1 .. N + 1 PROVE b[n] = Append(a, News(l, c, e))[n]
    <3>1. n \in 1 .. N \/ n = N + 1
      BY <1>1
    <3> QED BY <1>5, <1>6, <1>7, <1>8, <2>1, <3>1
  <2> QED BY <1>8, <2>1, <2>2, SeqEqual
<1>10. FlattenSeq(b) = FlattenSeq(a) \o News(l, c, e)
  <2>1. a \in Seq(Seq(Events)) /\ News(l, c, e) \in Seq(Events)
    BY <1>4, <1>7 DEF S
  <2> QED BY <1>9, <2>1, FlattenAppend
<1>11. FlattenSeq(a) \in Seq(Events)
  <2>1. a \in Seq(Seq(Events))
    BY <1>7 DEF S
  <2> QED BY <2>1, FlattenType
<1>12. ViewOf(l, c) = FlattenSeq(a) /\ ViewOf(m, c) = FlattenSeq(b)
  BY <1>2 DEF ViewOf, a, b
<1> QED BY <1>4, <1>10, <1>11, <1>12 DEF ViewAppends, S, m

-----------------------------------------------------------------------------
(* The server's table is what the history says *)

(* A subscriber is a client until the history ends its connection, and has *)
(* the entries that the history gave it.                                   *)
Logged ==
    \A c \in Subs :
        /\ c \in clients <=> Times(log, c, "end") = 0
        /\ subs[c] = Times(log, c, "sub") - Times(log, c, "unsub")

(* Whatever is added to the history.                                       *)
LEMMA LoggedGrows ==
    ASSUME Shapes, Logged, NEW e \in Events, log' = Append(log, e),
           \A c \in Subs :
              /\ c \in clients' <=> c \in clients /\ ~(e.kind = "end" /\ e.client = c)
              /\ subs'[c] = subs[c] + (IF e.kind = "sub" /\ e.client = c THEN 1 ELSE 0)
                                    - (IF e.kind = "unsub" /\ e.client = c THEN 1 ELSE 0)
    PROVE  Logged'
<1> SUFFICES ASSUME NEW c \in Subs
             PROVE  /\ c \in clients' <=> Times(log', c, "end") = 0
                    /\ subs'[c] = Times(log', c, "sub") - Times(log', c, "unsub")
  BY DEF Logged
<1>1. log \in Seq(Events)
  BY DEF Shapes, ServerShapes
<1>2. PICK x \in Nat, y \in Nat, z \in Nat :
         Times(log, c, "end") = x /\ Times(log, c, "sub") = y /\ Times(log, c, "unsub") = z
  BY <1>1, TimesType
<1>3. /\ Times(log', c, "end") = x + (IF e.kind = "end" /\ e.client = c THEN 1 ELSE 0)
      /\ Times(log', c, "sub") = y + (IF e.kind = "sub" /\ e.client = c THEN 1 ELSE 0)
      /\ Times(log', c, "unsub") = z + (IF e.kind = "unsub" /\ e.client = c THEN 1 ELSE 0)
  BY <1>1, <1>2, TimesGrow
<1>4. (c \in clients <=> x = 0) /\ subs[c] = y - z
  BY <1>2 DEF Logged
<1> QED BY <1>3, <1>4

LEMMA InitLogged == Init => Logged
<1> SUFFICES ASSUME Init PROVE Logged
  OBVIOUS
<1>1. ASSUME NEW c \in Subs, NEW kind PROVE Times(log, c, kind) = 0
  <2>1. {i \in 1 .. (Len(log) + 1) - 1 : log[i].kind = kind /\ log[i].client = c} = {}
    BY DEF Init
  <2> QED BY <2>1, FS_EmptySet DEF Times, CountOf
<1>2. \A c \in Subs : c \in clients /\ subs[c] = 0
  BY DEF Init
<1> QED BY <1>1, <1>2 DEF Logged

(* Ends are recorded as such.                                              *)
LEMMA DropLogged ==
    ASSUME Shapes, Logged, NEW c \in Subs, Drop(c)
    PROVE  /\ Logged'
           /\ [kind |-> "end", client |-> c] \in Events
           /\ log' = Append(log, [kind |-> "end", client |-> c])
<1> DEFINE e == [kind |-> "end", client |-> c]
<1>1. e \in Events
  BY DEF Events, Shapes, ServerShapes
<1>2. log' = Append(log, e) /\ clients' = clients \ {c} /\ subs' = subs
  BY DEF Drop
<1>3. e.kind = "end" /\ e.client = c
  OBVIOUS
<1>4. \A d \in Subs : subs[d] \in Nat
  BY DEF Shapes, ServerShapes
<1> HIDE DEF e
<1>5. Logged'
  BY <1>1, <1>2, <1>3, <1>4, LoggedGrows
<1> QED BY <1>1, <1>2, <1>5 DEF e

LEMMA CarryLogged ==
    ASSUME Shapes, Logged, NEW c \in clients, NEW op \in {"sub", "unsub"},
           Possible(c, op), Carry(c, op), buf # << >>
    PROVE  Logged'
<1> DEFINE e == [kind |-> op, client |-> c]
<1>1. /\ e \in Events /\ log' = Append(log, e) /\ clients' = clients
      /\ subs' = [subs EXCEPT ![c] = @ + (IF op = "sub" THEN 1 ELSE -1)]
  BY CarryShapes
<1>2. e.kind = op /\ e.client = c
  OBVIOUS
<1>3. subs \in [Subs -> Nat] /\ c \in Subs
  BY DEF Shapes, ServerShapes
<1> HIDE DEF e
<1>4. ASSUME NEW d \in Subs
      PROVE  subs'[d] = subs[d] + (IF e.kind = "sub" /\ e.client = d THEN 1 ELSE 0)
                                - (IF e.kind = "unsub" /\ e.client = d THEN 1 ELSE 0)
  BY <1>1, <1>2, <1>3
<1>5. \A d \in Subs : d \in clients' <=> d \in clients /\ ~(e.kind = "end" /\ e.client = d)
  BY <1>1, <1>2
<1> QED BY <1>1, <1>4, <1>5, LoggedGrows

LEMMA RoundLogged == Shapes /\ Logged /\ (Poll \/ PollExit) => Logged'
<1> SUFFICES ASSUME Shapes, Logged, NEW stop \in BOOLEAN, Round(stop) PROVE Logged'
  BY DEF Poll, PollExit
<1>1. clients' = clients /\ subs' = subs /\ \A d \in Subs : subs[d] \in Nat
  BY DEF Round, Shapes, ServerShapes
<1>2. CASE udpq = << >>
  BY <1>1, <1>2 DEF Round, Logged
<1>3. CASE udpq # << >>
  <2>1. PICK e \in Publications : e = Head(udpq)
    BY <1>3, HeadTailProperties DEF Shapes, ServerShapes
  <2>2. e \in Events /\ e.kind = "pub"
    BY DEF Events, Publications
  <2>3. log' = Append(log, e)
    BY <1>3, <2>1 DEF Round
  <2> QED BY <1>1, <2>2, <2>3, LoggedGrows
<1> QED BY <1>2, <1>3

-----------------------------------------------------------------------------
(* What was printed, what is on the connection and what is being sent is   *)
(* the view of the history                                                 *)

Mine(c) == [x \in Subs \X Events |-> IF x[1] = c THEN <<x[2]>> ELSE << >>]

(* The frames for c among the sends under way.                             *)
For(o, c) == Gathered(Mine(c), o)

AllShown(a, b, r, v) == (a \o b) \o r = v

Flow ==
    \A c \in Subs :
        IF Ended(c) THEN IsPrefix(seen[c], ViewOf(log, c))
        ELSE AllShown(seen[c], toSub[c], For(outbox, c), ViewOf(log, c))

LEMMA MineType == ASSUME NEW c PROVE Mine(c) \in [Subs \X Events -> Seq(Events)]
<1>1. ASSUME NEW x \in Subs \X Events
      PROVE  (IF x[1] = c THEN <<x[2]>> ELSE << >>) \in Seq(Events)
  <2>1. x[2] \in Events
    OBVIOUS
  <2>2. <<x[2]>> \in Seq(Events) /\ << >> \in Seq(Events)
    BY <2>1
  <2> QED BY <2>2
<1> QED BY <1>1 DEF Mine

LEMMA ForProps ==
    ASSUME NEW c, NEW o \in Seq(Subs \X Events)
    PROVE  /\ For(o, c) \in Seq(Events)
           /\ For(<< >>, c) = << >>
           /\ \A x \in Subs \X Events :
                 /\ For(<<x>>, c) = IF x[1] = c THEN <<x[2]>> ELSE << >>
                 /\ For(<<x>> \o o, c) = (IF x[1] = c THEN <<x[2]>> ELSE << >>) \o For(o, c)
<1> DEFINE D == Subs \X Events
           g == Mine(c)
<1>1. g \in [D -> Seq(Events)] /\ \A x \in D : g[x] = IF x[1] = c THEN <<x[2]>> ELSE << >>
  BY MineType DEF Mine
<1>2. << >> \in Seq(D) /\ o \in Seq(D)
  OBVIOUS
<1> HIDE DEF D, g
<1>3. ASSUME NEW x \in D, NEW q \in Seq(D) PROVE GathersWell(g, q, x, Events)
  BY <1>1, GatheredProps, Zenon
<1>4. ASSUME NEW x \in D
      PROVE  /\ Gathered(g, <<x>>) = g[x]
             /\ Gathered(g, <<x>> \o o) = g[x] \o Gathered(g, o)
  <2>1. Gathered(g, <<x>> \o o) = g[x] \o Gathered(g, o)
    <3>1. GathersWell(g, o, x, Events)
      BY <1>2, <1>3
    <3> QED BY <3>1 DEF GathersWell
  <2>2. Gathered(g, <<x>> \o << >>) = g[x] \o Gathered(g, << >>) /\ Gathered(g, << >>) = << >>
    <3>1. GathersWell(g, << >>, x, Events)
      BY <1>2, <1>3
    <3> QED BY <3>1, Zenon DEF GathersWell
  <2>3. <<x>> \o << >> = <<x>>
    OBVIOUS
  <2>4. g[x] \in Seq(Events)
    BY <1>1
  <2>5. g[x] \o << >> = g[x]
    BY <2>4, ConcatEmptySeq
  <2> QED BY <2>1, <2>2, <2>3, <2>5
<1>5. Gathered(g, o) \in Seq(Events) /\ Gathered(g, << >>) = << >>
  <2>1. Gathered(g, << >>) = << >>
    <3>1. [n \in DOMAIN << >> |-> g[<< >>[n]]] = << >>
      OBVIOUS
    <3>2. FlattenSeq(<< >>) = << >>
      BY DEF FlattenSeq
    <3> QED BY <3>1, <3>2 DEF Gathered
  <2>2. CASE o = << >>
    <3>1. << >> \in Seq(Events)
      OBVIOUS
    <3> QED BY <2>1, <2>2, <3>1
  <2>3. CASE o # << >>
    <3>1. Head(o) \in D
      BY <1>2, <2>3, HeadTailProperties
    <3>2. GathersWell(g, o, Head(o), Events)
      BY <1>2, <1>3, <3>1
    <3> QED BY <2>1, <3>2 DEF GathersWell
  <2> QED BY <2>1, <2>2, <2>3
<1> QED BY <1>1, <1>4, <1>5 DEF For, D, g

(* A publication is under way to just those it is shown to.                *)
LEMMA PublishFor ==
    ASSUME Shapes, Logged, NEW e \in Publications, Publish(e), NEW c \in Subs
    PROVE  For(outbox', c) = News(log, c, e)
<1> DEFINE T == {d \in clients : subs[d] > 0}
           R == SetToSeq(T)
           N == Len(R)
<1>1. /\ R \in Seq(T) /\ N \in Nat /\ DOMAIN R = 1 .. N
      /\ \A i, j \in 1 .. N : R[i] = R[j] => i = j
      /\ \A d \in T : \E i \in 1 .. N : R[i] = d
  <2>1. T \in SUBSET Subs
    BY DEF Shapes, ServerShapes
  <2>2. IsFiniteSet(T)
    BY <2>1, FiniteParts
  <2> HIDE DEF T
  <2>3. /\ R \in Seq(T) /\ \A i, j \in 1 .. N : R[i] = R[j] => i = j
        /\ \A d \in T : \E i \in 1 .. N : R[i] = d
    BY <2>2, SetToSeqProps
  <2> QED BY <2>3, LenProperties
<1>2. outbox' = [n \in 1 .. N |-> <<R[n], e>>]
  BY <1>1 DEF Publish
<1>3. T \subseteq Subs /\ e \in Events /\ e.kind = "pub"
  BY DEF Shapes, ServerShapes, Publications, Events
<1>4. News(log, c, e) = IF c \in T THEN <<e>> ELSE << >>
  <2>1. log \in Seq(Events)
    BY DEF Shapes, ServerShapes
  <2>2. PICK y \in Nat, z \in Nat : Times(log, c, "sub") = y /\ Times(log, c, "unsub") = z
    BY <2>1, TimesType
  <2>3. (c \in clients <=> Times(log, c, "end") = 0) /\ subs[c] = y - z
    BY <2>2 DEF Logged
  <2>4. y > z <=> subs[c] > 0
    BY <2>3
  <2>5. c \in T <=> Times(log, c, "end") = 0 /\ y > z
    BY <2>3, <2>4
  <2> HIDE DEF T, R
  <2> QED BY <1>3, <2>2, <2>5 DEF News
<1> HIDE DEF R, T
<1>5. ASSUME NEW n \in 1 .. N PROVE R[n] \in T
  BY <1>1, <1>5
<1> HIDE DEF N
<1> DEFINE ss == [n \in 1 .. N |-> IF R[n] = c THEN <<e>> ELSE << >>]
<1>6. For(outbox', c) = FlattenSeq(ss)
  <2> DEFINE o == [n \in 1 .. N |-> <<R[n], e>>]
  <2>1. DOMAIN o = 1 .. N /\ \A n \in 1 .. N : o[n] = <<R[n], e>> /\ o[n] \in Subs \X Events
    BY <1>3, <1>5
  <2> HIDE DEF o
  <2>2. \A n \in 1 .. N : Mine(c)[o[n]] = IF R[n] = c THEN <<e>> ELSE << >>
    BY <2>1 DEF Mine
  <2>3. [n \in DOMAIN o |-> Mine(c)[o[n]]] = ss
    BY <2>1, <2>2
  <2>4. outbox' = o
    BY <1>2 DEF o
  <2> HIDE DEF ss
  <2> QED BY <2>3, <2>4 DEF For, Gathered
<1>7. ss \in Seq(Seq(Events)) /\ Len(ss) = N
      /\ \A n \in 1 .. N : ss[n] = IF R[n] = c THEN <<e>> ELSE << >>
  <2> DEFINE S == Seq(Events)
  <2>1. <<e>> \in S /\ << >> \in S
    BY <1>3
  <2> HIDE DEF S
  <2>2. ss \in Seq(S) /\ Len(ss) = N
    BY <1>1, <2>1
  <2> QED BY <2>2 DEF S
<1> HIDE DEF ss
<1>8. CASE c \in T
  <2>1. PICK k \in 1 .. N : R[k] = c
    BY <1>1, <1>8
  <2>2. \A i \in 1 .. N : i # k => ss[i] = << >>
    BY <1>1, <1>7, <2>1
  <2>3. FlattenSeq(ss) = ss[k]
    BY <1>7, <2>2, FlattenSingle
  <2> QED BY <1>4, <1>6, <1>7, <1>8, <2>1, <2>3
<1>9. CASE c \notin T
  <2>1. \A i \in 1 .. N : ss[i] = << >>
    BY <1>5, <1>7, <1>9
  <2>2. FlattenSeq(ss) = << >>
    BY <1>7, <2>1, FlattenNone
  <2> QED BY <1>4, <1>6, <1>9, <2>2
<1> QED BY <1>8, <1>9

(* How frames move on: an event adds what it shows, a frame goes onto the  *)
(* connection, a frame is printed.                                         *)
LEMMA FramesMove ==
    ASSUME NEW S, NEW a \in Seq(S), NEW b \in Seq(S), NEW r \in Seq(S), NEW v \in Seq(S)
    PROVE  /\ AllShown(a, b, << >>, v) => AllShown(a, b, r, v \o r)
           /\ \A f \in S : AllShown(a, b, <<f>> \o r, v) => AllShown(a, Append(b, f), r, v)
           /\ b # << >> /\ AllShown(a, b, r, v) => AllShown(Append(a, Head(b)), Tail(b), r, v)
           /\ AllShown(a, b, r, v) => IsPrefix(a, v)
<1>1. ASSUME AllShown(a, b, << >>, v) PROVE AllShown(a, b, r, v \o r)
  <2>1. a \o b \in Seq(S)
    BY ConcatProperties
  <2>2. a \o b = v
    BY <1>1, <2>1, ConcatEmptySeq DEF AllShown
  <2> QED BY <2>2 DEF AllShown
<1>2. ASSUME NEW f \in S, AllShown(a, b, <<f>> \o r, v) PROVE AllShown(a, Append(b, f), r, v)
  <2>1. PICK x \in Seq(S) : x = <<f>>
    <3>1. <<f>> \in Seq(S)
      OBVIOUS
    <3> QED BY <3>1
  <2>2. PICK y \in Seq(S) : y = Append(b, f) /\ y = b \o x
    BY <2>1, AppendProperties, AppendIsConcat
  <2>3. PICK ab \in Seq(S) : ab = a \o b
    BY ConcatProperties
  <2>4. Regroups(ab, x, r) /\ Regroups(a, b, x)
    BY Regroup, Zenon
  <2>5. ab \o (x \o r) = v
    BY <1>2, <2>1, <2>3, Zenon DEF AllShown
  <2>6. ab \o (x \o r) = (ab \o x) \o r /\ ab \o x = a \o y
    BY <2>2, <2>3, <2>4, Zenon DEF Regroups
  <2> QED BY <2>2, <2>5, <2>6, Zenon DEF AllShown
<1>3. ASSUME b # << >>, AllShown(a, b, r, v) PROVE AllShown(Append(a, Head(b)), Tail(b), r, v)
  <2>1. (a \o b) \o r = (Append(a, Head(b)) \o Tail(b)) \o r
    BY <1>3, MoveHead, SMTT(30)
  <2> QED BY <1>3, <2>1, Zenon DEF AllShown
<1>4. ASSUME AllShown(a, b, r, v) PROVE IsPrefix(a, v)
  <2>1. PICK w \in Seq(S) : w = b \o r
    BY ConcatProperties
  <2>2. Regroups(a, b, r)
    BY Regroup, Zenon
  <2>3. a \o w = v
    BY <1>4, <2>1, <2>2, Zenon DEF Regroups, AllShown
  <2>4. IsPrefix(a, a \o w)
    BY PrefixOfConcat
  <2> QED BY <2>3, <2>4, Zenon
<1> QED BY <1>1, <1>2, <1>3, <1>4

(* A prefix stays one when the longer sequence is continued.               *)
LEMMA PrefixContinues ==
    ASSUME NEW S, NEW a \in Seq(S), NEW v \in Seq(S), NEW r \in Seq(S), IsPrefix(a, v)
    PROVE  IsPrefix(a, v \o r)
<1>1. /\ Len(a) <= Len(v) /\ \A i \in 1 .. Len(a) : a[i] = v[i]
  BY PrefixByElement
<1>2. PICK w \in Seq(S) : w = v \o r
  BY ConcatProperties
<1>3. Len(w) = Len(v) + Len(r) /\ \A i \in 1 .. Len(v) + Len(r) : w[i] =
         IF i <= Len(v) THEN v[i] ELSE r[i - Len(v)]
  BY <1>2, ConcatProperties
<1>4. Len(a) \in Nat /\ Len(v) \in Nat /\ Len(r) \in Nat
  BY LenProperties
<1>5. Len(a) <= Len(w) /\ \A i \in 1 .. Len(a) : a[i] = w[i]
  BY <1>1, <1>3, <1>4
<1>6. IsPrefix(a, w)
  BY <1>5, PrefixByElement
<1> QED BY <1>2, <1>6

LEMMA FlowTypes ==
    ASSUME Shapes, NEW c \in Subs
    PROVE  /\ seen[c] \in Seq(Events) /\ toSub[c] \in Seq(Events)
           /\ For(outbox, c) \in Seq(Events) /\ ViewOf(log, c) \in Seq(Events)
           /\ log \in Seq(Events) /\ outbox \in Seq(Subs \X Events)
<1>1. /\ seen[c] \in Seq(Events) /\ toSub[c] \in Seq(Events)
      /\ log \in Seq(Events) /\ outbox \in Seq(Subs \X Events)
  BY DEF Shapes, ServerShapes, ConnectionShapes, SubscriberShapes
<1>2. [kind |-> "end", client |-> c] \in Events
  BY DEF Events
<1> QED BY <1>1, <1>2, ForProps, ViewGrows

(* An event happens when nothing is under way.                             *)
LEMMA EventFlow ==
    ASSUME Shapes, Flow, NEW e \in Events, log' = Append(log, e), outbox = << >>,
           UNCHANGED <<toSub, stage, seen>>,
           \A c \in Subs : For(outbox', c) = News(log, c, e)
    PROVE  Flow'
<1> SUFFICES ASSUME NEW c \in Subs
             PROVE  IF Ended(c) THEN IsPrefix(seen[c], ViewOf(log', c))
                    ELSE AllShown(seen[c], toSub[c], For(outbox', c), ViewOf(log', c))
  BY DEF Flow, Ended
<1>1. /\ ViewOf(log, c) \in Seq(Events) /\ News(log, c, e) \in Seq(Events)
      /\ ViewAppends(log, c, e) /\ seen[c] \in Seq(Events) /\ toSub[c] \in Seq(Events)
  BY FlowTypes, ViewGrows
<1>2. PICK v \in Seq(Events), n \in Seq(Events) : v = ViewOf(log, c) /\ n = News(log, c, e)
  BY <1>1
<1>3. ViewOf(log', c) = v \o n /\ For(outbox', c) = n
  BY <1>1, <1>2, Zenon DEF ViewAppends
<1>4. CASE Ended(c)
  <2>1. IsPrefix(seen[c], v)
    BY <1>2, <1>4 DEF Flow
  <2>2. IsPrefix(seen[c], v \o n)
    BY <1>1, <2>1, PrefixContinues
  <2> QED BY <1>3, <1>4, <2>2, Zenon
<1>5. CASE ~Ended(c)
  <2>1. For(outbox, c) = << >>
    BY ForProps, EmptySeq
  <2>2. AllShown(seen[c], toSub[c], << >>, v)
    BY <1>2, <1>5, <2>1, Zenon DEF Flow
  <2>3. AllShown(seen[c], toSub[c], n, v \o n)
    BY <1>1, <2>2, FramesMove
  <2> QED BY <1>3, <1>5, <2>3, Zenon
<1> QED BY <1>4, <1>5

(* Nothing moves.  A subscriber may end, and leave what it was sent.       *)
LEMMA QuietFlow ==
    ASSUME Shapes, Flow, UNCHANGED <<log, outbox, toSub, seen>>,
           \A c \in Subs : Ended(c) => Ended(c)'
    PROVE  Flow'
<1> SUFFICES ASSUME NEW c \in Subs
             PROVE  IF Ended(c)' THEN IsPrefix(seen[c], ViewOf(log, c))
                    ELSE AllShown(seen[c], toSub[c], For(outbox, c), ViewOf(log, c))
  BY DEF Flow
<1>1. AllShown(seen[c], toSub[c], For(outbox, c), ViewOf(log, c)) => IsPrefix(seen[c], ViewOf(log, c))
  BY FlowTypes, FramesMove
<1> QED BY <1>1 DEF Flow

LEMMA InitFlow == Init => Flow
<1> SUFFICES ASSUME Init, NEW c \in Subs
             PROVE  ~Ended(c) /\ AllShown(seen[c], toSub[c], For(outbox, c), ViewOf(log, c))
  BY DEF Flow
<1>1. ~Ended(c) /\ seen[c] = << >> /\ toSub[c] = << >> /\ outbox = << >> /\ log = << >>
  BY DEF Init, Ended
<1>2. For(<< >>, c) = << >>
  BY ForProps, EmptySeq
<1>3. ViewOf(<< >>, c) = << >>
  <2>1. [n \in 1 .. Len(<< >>) |-> Shown(<< >>, c, n)] = << >>
    OBVIOUS
  <2>2. FlattenSeq(<< >>) = << >>
    BY DEF FlattenSeq
  <2> QED BY <2>1, <2>2 DEF ViewOf
<1>4. (<< >> \o << >>) \o << >> = << >>
  OBVIOUS
<1> QED BY <1>1, <1>2, <1>3, <1>4, Zenon DEF AllShown

LEMMA DropFlow ==
    ASSUME Shapes, Logged, Flow, NEW c \in clients, Drop(c), outbox = << >>,
           UNCHANGED <<outbox, toSub, stage, seen>>
    PROVE  Flow'
<1> DEFINE e == [kind |-> "end", client |-> c]
<1>1. e \in Events /\ log' = Append(log, e) /\ outbox' = << >>
  BY DropLogged, c \in Subs DEF Shapes, ServerShapes
<1>2. e.kind = "end"
  OBVIOUS
<1> HIDE DEF e
<1>3. ASSUME NEW d \in Subs PROVE For(outbox', d) = News(log, d, e)
  <2>1. For(<< >>, d) = << >>
    BY ForProps, EmptySeq
  <2>2. News(log, d, e) = << >>
    BY <1>2 DEF News
  <2> QED BY <1>1, <2>1, <2>2
<1> QED BY <1>1, <1>3, EventFlow

LEMMA CarryFlow ==
    ASSUME Shapes, Logged, Flow, NEW c \in clients, NEW op \in {"sub", "unsub"},
           Possible(c, op), Carry(c, op), buf # << >>, outbox = << >>,
           UNCHANGED <<toSub, stage, seen>>
    PROVE  Flow'
<1> DEFINE e == [kind |-> op, client |-> c]
<1>1. e \in Events /\ log' = Append(log, e) /\ outbox' = <<<<c, e>>>>
  BY CarryShapes
<1>2. e.kind = op /\ e.client = c /\ c \in Subs
  BY DEF Shapes, ServerShapes
<1> HIDE DEF e
<1>3. ASSUME NEW d \in Subs PROVE For(outbox', d) = News(log, d, e)
  <2>1. For(<<<<c, e>>>>, d) = IF c = d THEN <<e>> ELSE << >>
    <3>1. <<c, e>> \in Subs \X Events /\ << >> \in Seq(Subs \X Events)
      BY <1>1, <1>2
    <3>2. For(<<<<c, e>>>>, d) = IF <<c, e>>[1] = d THEN <<<<c, e>>[2]>> ELSE << >>
      BY <3>1, ForProps
    <3> QED BY <3>2
  <2>2. Times(log, c, "end") = 0
    BY <1>2 DEF Logged
  <2>3. News(log, d, e) = IF c = d THEN <<e>> ELSE << >>
    BY <1>2, <2>2 DEF News
  <2> QED BY <1>1, <2>1, <2>3
<1> QED BY <1>1, <1>3, EventFlow

LEMMA RoundFlow == Shapes /\ Logged /\ Flow /\ (Poll \/ PollExit) => Flow'
<1> SUFFICES ASSUME Shapes, Logged, Flow, NEW stop \in BOOLEAN, Round(stop) PROVE Flow'
  BY DEF Poll, PollExit
<1>1. UNCHANGED <<toSub, stage, seen>> /\ outbox = << >>
  BY DEF Round, Shapes, ServerShapes, channels, subscribers
<1>2. CASE udpq = << >>
  <2>1. UNCHANGED <<log, outbox>>
    BY <1>2 DEF Round
  <2>2. \A c \in Subs : Ended(c) => Ended(c)'
    BY <1>1 DEF Ended
  <2> QED BY <1>1, <2>1, <2>2, QuietFlow
<1>3. CASE udpq # << >>
  <2>1. PICK e \in Publications : e = Head(udpq)
    BY <1>3, HeadTailProperties DEF Shapes, ServerShapes
  <2>2. e \in Events
    BY DEF Events
  <2>3. log' = Append(log, e) /\ Publish(e)
    BY <1>3, <2>1 DEF Round
  <2>4. \A c \in Subs : For(outbox', c) = News(log, c, e)
    BY <2>3, PublishFor
  <2> QED BY <1>1, <2>2, <2>3, <2>4, EventFlow
<1> QED BY <1>2, <1>3

LEMMA ScanFlow == ASSUME NEW c \in Subs PROVE Shapes /\ Logged /\ Flow /\ Scan(c) => Flow' /\ Logged'
<1> SUFFICES ASSUME Shapes, Logged, Flow, Scan(c) PROVE Flow' /\ Logged'
  OBVIOUS
<1>1. UNCHANGED <<toSub, stage, seen>> /\ outbox = << >> /\ c \in clients
  BY DEF Scan, Shapes, ServerShapes, subscribers
<1>2. CASE UNCHANGED <<clients, log, subs, outbox>>
  <2>1. \A d \in Subs : Ended(d) => Ended(d)'
    BY <1>1 DEF Ended
  <2> QED BY <1>1, <1>2, <2>1, QuietFlow DEF Logged
<1>3. CASE Drop(c) /\ outbox' = outbox
  BY <1>1, <1>3, DropFlow, DropLogged
<1> QED BY <1>2, <1>3 DEF Scan

LEMMA HandleFrameFlow ==
    ASSUME NEW c \in Subs PROVE Shapes /\ Logged /\ Flow /\ HandleFrame(c) => Flow' /\ Logged'
<1> SUFFICES ASSUME Shapes, Logged, Flow, HandleFrame(c) PROVE Flow' /\ Logged'
  OBVIOUS
<1>1. /\ UNCHANGED <<toSub, stage, seen>> /\ outbox = << >> /\ c \in clients /\ buf # << >>
  BY DEF HandleFrame, Shapes, ServerShapes, channels, subscribers
<1>2. CASE Possible(c, Head(buf)) /\ Carry(c, Head(buf))
  <2>1. PICK op \in {"sub", "unsub"} : op = Head(buf)
    BY <1>2 DEF Possible
  <2>2. Possible(c, op) /\ Carry(c, op)
    BY <1>2, <2>1
  <2> QED BY <1>1, <2>2, CarryFlow, CarryLogged
<1>3. CASE Drop(c) /\ outbox' = outbox
  BY <1>1, <1>3, DropFlow, DropLogged
<1> QED BY <1>2, <1>3 DEF HandleFrame

LEMMA HeadOff ==
    ASSUME NEW q \in Seq(Subs \X Events), q # << >>
    PROVE  /\ Head(q) \in Subs \X Events /\ Tail(q) \in Seq(Subs \X Events)
           /\ q = <<Head(q)>> \o Tail(q)
<1>1. Head(q) \in Subs \X Events /\ Tail(q) \in Seq(Subs \X Events)
  BY HeadTailProperties
<1>2. q = <<Head(q)>> \o Tail(q)
  OBVIOUS
<1> QED BY <1>1, <1>2

LEMMA SendNextFlow == Shapes /\ Flow /\ SendNext => Flow'
<1> SUFFICES ASSUME Shapes, Flow, SendNext PROVE Flow'
  OBVIOUS
<1>1. PICK x \in Subs \X Events, o \in Seq(Subs \X Events) :
         x = Head(outbox) /\ o = Tail(outbox) /\ outbox = <<x>> \o o
  BY HeadOff DEF SendNext, Shapes, ServerShapes
<1>2. /\ x[1] \in Subs /\ x[2] \in Events
      /\ outbox' = o /\ UNCHANGED <<log, stage, seen>>
      /\ \/ ~Ended(x[1]) /\ toSub' = [toSub EXCEPT ![x[1]] = Append(@, x[2])]
         \/ Ended(x[1]) /\ toSub' = toSub
  BY <1>1 DEF SendNext, Put, subscribers
<1> SUFFICES ASSUME NEW c \in Subs, ~Ended(c)
             PROVE  AllShown(seen[c], toSub'[c], For(o, c), ViewOf(log, c))
  BY <1>2 DEF Flow, Ended
<1>3. /\ seen[c] \in Seq(Events) /\ toSub[c] \in Seq(Events) /\ ViewOf(log, c) \in Seq(Events)
      /\ toSub \in [Subs -> Seq(Events)]
  BY FlowTypes DEF Shapes, ConnectionShapes
<1>4. For(o, c) \in Seq(Events)
      /\ For(<<x>> \o o, c) = (IF x[1] = c THEN <<x[2]>> ELSE << >>) \o For(o, c)
  BY ForProps
<1>5. AllShown(seen[c], toSub[c], (IF x[1] = c THEN <<x[2]>> ELSE << >>) \o For(o, c), ViewOf(log, c))
  <2>1. AllShown(seen[c], toSub[c], For(<<x>> \o o, c), ViewOf(log, c))
    BY <1>1, Zenon DEF Flow
  <2> QED BY <1>4, <2>1, Zenon
<1>6. CASE x[1] = c
  <2>1. AllShown(seen[c], toSub[c], <<x[2]>> \o For(o, c), ViewOf(log, c))
    BY <1>5, <1>6, Zenon
  <2>2. AllShown(seen[c], Append(toSub[c], x[2]), For(o, c), ViewOf(log, c))
    BY <1>2, <1>3, <1>4, <2>1, FramesMove
  <2>3. toSub'[c] = Append(toSub[c], x[2])
    BY <1>2, <1>3, <1>6
  <2> QED BY <2>2, <2>3, Zenon
<1>7. CASE x[1] # c
  <2>1. << >> \o For(o, c) = For(o, c)
    BY <1>4, ConcatEmptySeq
  <2>2. AllShown(seen[c], toSub[c], For(o, c), ViewOf(log, c))
    BY <1>5, <1>7, <2>1, Zenon
  <2>3. toSub'[c] = toSub[c]
    BY <1>2, <1>3, <1>7
  <2> QED BY <2>2, <2>3, Zenon
<1> QED BY <1>6, <1>7

(* A frame is printed, which is the next one of the view.                  *)
LEMMA PrintsNext ==
    ASSUME Shapes, Flow, NEW c \in Subs, ~Ended(c), toSub[c] # << >>
    PROVE  /\ AllShown(Append(seen[c], Head(toSub[c])), Tail(toSub[c]), For(outbox, c), ViewOf(log, c))
           /\ Len(seen[c]) < Len(ViewOf(log, c))
           /\ Head(toSub[c]) = ViewOf(log, c)[Len(seen[c]) + 1]
<1>1. PICK a \in Seq(Events), b \in Seq(Events), r \in Seq(Events), v \in Seq(Events) :
         a = seen[c] /\ b = toSub[c] /\ r = For(outbox, c) /\ v = ViewOf(log, c)
  BY FlowTypes
<1>2. AllShown(a, b, r, v)
  BY <1>1, Zenon DEF Flow
<1>3. b # << >>
  BY <1>1
<1>4. AllShown(Append(a, Head(b)), Tail(b), r, v)
  BY <1>2, <1>3, FramesMove
<1>5. Head(b) \in Events /\ Tail(b) \in Seq(Events) /\ Append(a, Head(b)) \in Seq(Events)
      /\ Len(Append(a, Head(b))) = Len(a) + 1 /\ Append(a, Head(b))[Len(a) + 1] = Head(b)
  BY <1>3, HeadTailProperties, AppendProperties
<1>6. PICK p \in Seq(Events) : p = Append(a, Head(b))
  BY <1>5
<1>7. IsPrefix(p, v)
  <2>1. AllShown(p, Tail(b), r, v)
    BY <1>4, <1>6, Zenon
  <2> QED BY <1>5, <2>1, FramesMove
<1>8. Len(p) <= Len(v) /\ \A i \in 1 .. Len(p) : p[i] = v[i]
  BY <1>7, PrefixByElement
<1>9. Len(p) = Len(a) + 1 /\ p[Len(a) + 1] = Head(b) /\ Len(a) \in Nat /\ Len(v) \in Nat
  BY <1>5, <1>6, LenProperties
<1>10. Len(a) < Len(v) /\ Head(b) = v[Len(a) + 1]
  BY <1>8, <1>9
<1> QED BY <1>1, <1>4, <1>10, Zenon

LEMMA ReceiveFlow == ASSUME NEW c \in Subs PROVE Shapes /\ Flow /\ Receive(c) => Flow'
<1> SUFFICES ASSUME Shapes, Flow, Receive(c) PROVE Flow'
  OBVIOUS
<1>1. ~Ended(c) /\ UNCHANGED <<log, outbox>> /\ stage \in [Subs -> {"select", "send", "sock", "ended"}]
      /\ \E s \in {"select", "ended"} : stage' = [stage EXCEPT ![c] = s]
  BY DEF Receive, Ended, server, Shapes, SubscriberShapes, Goto, HangUp
<1>2. CASE UNCHANGED <<toSub, seen>>
  <2>1. \A d \in Subs : Ended(d) => Ended(d)'
    BY <1>1 DEF Ended
  <2> QED BY <1>1, <1>2, <2>1, QuietFlow
<1>3. CASE /\ toSub[c] # << >>
           /\ seen' = [seen EXCEPT ![c] = Append(@, Head(toSub[c]))]
           /\ toSub' = [toSub EXCEPT ![c] = Tail(@)]
           /\ Goto(c, "select")
  <2>1. /\ seen \in [Subs -> Seq(Events)] /\ toSub \in [Subs -> Seq(Events)]
        /\ stage' = [stage EXCEPT ![c] = "select"]
    BY <1>3 DEF Shapes, ConnectionShapes, SubscriberShapes, Goto
  <2> SUFFICES ASSUME NEW d \in Subs
               PROVE  IF Ended(d)' THEN IsPrefix(seen'[d], ViewOf(log, d))
                      ELSE AllShown(seen'[d], toSub'[d], For(outbox, d), ViewOf(log, d))
    BY <1>1 DEF Flow
  <2>2. CASE d # c
    <3>1. seen'[d] = seen[d] /\ toSub'[d] = toSub[d] /\ (Ended(d)' <=> Ended(d))
      BY <1>1, <1>3, <2>1, <2>2 DEF Ended
    <3> QED BY <3>1, Zenon DEF Flow
  <2>3. CASE d = c
    <3>1. /\ seen'[c] = Append(seen[c], Head(toSub[c])) /\ toSub'[c] = Tail(toSub[c])
          /\ ~Ended(c)'
      BY <1>1, <1>3, <2>1 DEF Ended
    <3>2. AllShown(Append(seen[c], Head(toSub[c])), Tail(toSub[c]), For(outbox, c), ViewOf(log, c))
      BY <1>1, <1>3, PrintsNext
    <3> QED BY <2>3, <3>1, <3>2, Zenon
  <2> QED BY <2>2, <2>3
<1> QED BY <1>2, <1>3 DEF Receive

(* The steps that move no frames.                                          *)
(* An acknowledgement that could not be sent: its subscriber has ended.    *)
LEMMA SendFailsFlow == Shapes /\ Logged /\ Flow /\ SendFails => Flow' /\ Logged'
<1> SUFFICES ASSUME Shapes, Logged, Flow, SendFails PROVE Flow' /\ Logged'
  OBVIOUS
<1>1. PICK x \in Subs \X Events, o \in Seq(Subs \X Events) :
         x = Head(outbox) /\ o = Tail(outbox) /\ outbox = <<x>> \o o
  BY HeadOff DEF SendFails, Shapes, ServerShapes
<1>2. PICK c \in Subs : c = x[1]
  OBVIOUS
<1> DEFINE e == [kind |-> "end", client |-> c]
<1>3. /\ Ended(c) /\ Drop(c) /\ outbox' = o /\ UNCHANGED <<toSub, stage, seen>>
      /\ x[2] \in Events
  BY <1>1, <1>2 DEF SendFails, channels, subscribers
<1>4. Logged' /\ e \in Events /\ log' = Append(log, e)
  BY <1>3, DropLogged
<1>5. e.kind = "end"
  OBVIOUS
<1> HIDE DEF e
<1>6. ASSUME NEW d \in Subs
      PROVE  IF Ended(d) THEN IsPrefix(seen[d], ViewOf(log', d))
             ELSE AllShown(seen[d], toSub[d], For(o, d), ViewOf(log', d))
  <2>1. /\ ViewOf(log, d) \in Seq(Events) /\ ViewAppends(log, d, e)
        /\ For(<<x>> \o o, d) = (IF x[1] = d THEN <<x[2]>> ELSE << >>) \o For(o, d)
        /\ For(o, d) \in Seq(Events)
    BY <1>3, <1>4, FlowTypes, ViewGrows, ForProps
  <2>2. News(log, d, e) = << >>
    BY <1>5 DEF News
  <2>3. ViewOf(log', d) = ViewOf(log, d)
    <3>1. ViewOf(log, d) \o << >> = ViewOf(log, d)
      BY <2>1, ConcatEmptySeq
    <3> QED BY <1>4, <2>1, <2>2, <3>1, Zenon DEF ViewAppends
  <2>4. CASE Ended(d)
    BY <2>3, <2>4 DEF Flow
  <2>5. CASE ~Ended(d)
    <3>1. << >> \o For(o, d) = For(o, d) /\ x[1] # d
      BY <1>2, <1>3, <2>1, <2>5, ConcatEmptySeq
    <3>2. AllShown(seen[d], toSub[d], For(outbox, d), ViewOf(log, d))
      BY <2>5 DEF Flow
    <3> QED BY <1>1, <2>1, <2>3, <2>5, <3>1, <3>2, Zenon
  <2> QED BY <2>4, <2>5
<1> QED BY <1>3, <1>4, <1>6 DEF Flow, Ended

LEMMA OthersFlow ==
    ASSUME Shapes, Flow, Logged,
           \/ SendDatagram \/ EndRound \/ \E c \in Subs : Type(c) \/ Select(c) \/ Send(c)
           \/ UNCHANGED vars
    PROVE  Flow' /\ Logged'
<1>1. UNCHANGED <<log, outbox, toSub, seen, clients, subs>>
  BY DEF SendDatagram, EndRound, Type, Select, Send, vars, server, channels, subscribers
<1>2. \A c \in Subs : Ended(c) => Ended(c)'
  BY DEF SendDatagram, EndRound, Type, Select, Send, Goto, vars, subscribers, Ended, Shapes,
         SubscriberShapes
<1>3. Flow'
  BY <1>1, <1>2, QuietFlow
<1> QED BY <1>1, <1>3 DEF Logged

HistoryInv == Shapes /\ Logged /\ Flow

LEMMA NextHistory == HistoryInv /\ [Next]_vars => HistoryInv'
<1> SUFFICES ASSUME Shapes, Logged, Flow, [Next]_vars PROVE Logged' /\ Flow'
  BY NextShapes DEF HistoryInv
<1>1. CASE Poll \/ PollExit
  BY <1>1, RoundFlow, RoundLogged
<1>2. CASE SendNext
  BY <1>2, SendNextFlow DEF SendNext, Logged
<1>6. CASE SendFails
  BY <1>6, SendFailsFlow
<1>3. CASE \E c \in Subs : Scan(c) \/ HandleFrame(c)
  BY <1>3, ScanFlow, HandleFrameFlow
<1>4. CASE \E c \in Subs : Receive(c)
  BY <1>4, ReceiveFlow DEF Receive, Logged, server
<1>5. CASE \/ SendDatagram \/ EndRound \/ \E c \in Subs : Type(c) \/ Select(c) \/ Send(c)
           \/ UNCHANGED vars
  BY <1>5, OthersFlow
<1> QED BY <1>1, <1>2, <1>3, <1>4, <1>5, <1>6 DEF Next, ServerNext, SubscriberNext

-----------------------------------------------------------------------------
(* The refinement of module History *)

LEMMA ViewIsView == ASSUME NEW c PROVE Promise!View(c) = ViewOf(log, c)
<1>1. \A n, kind : Promise!Count(c, kind, n) = CountOf(log, c, kind, n)
  BY DEF Promise!Count, CountOf, Cardinality, Promise!Cardinality
<1>2. \A n : Promise!Concerns(c, n) <=> ConcernsOf(log, c, n)
  BY <1>1 DEF Promise!Concerns, Promise!Subscribed, ConcernsOf
<1>3. [n \in 1 .. Len(log) |-> IF Promise!Concerns(c, n) THEN <<log[n]>> ELSE << >>]
         = [n \in 1 .. Len(log) |-> Shown(log, c, n)]
  BY <1>2 DEF Shown
<1> DEFINE shown == [n \in 1 .. Len(log) |-> Shown(log, c, n)]
<1>4. Promise!View(c) = Promise!FlattenSeq(shown) /\ ViewOf(log, c) = FlattenSeq(shown)
  BY <1>3, Zenon DEF Promise!View, ViewOf
<1> HIDE DEF shown
<1>5. Promise!FlattenSeq(shown) = FlattenSeq(shown)
  BY DEF FlattenSeq, Promise!FlattenSeq
<1> QED BY <1>4, <1>5

LEMMA EventHappens ==
    ASSUME Shapes, NEW e \in Events, log' = Append(log, e), seen' = seen
    PROVE  Promise!Happen
<1>1. log \in Seq(Events) /\ Len(log) \in Nat
  BY LenProperties DEF Shapes, ServerShapes
<1>2. PICK m \in Seq(Events) : m = Append(log, e)
  BY <1>1, AppendProperties
<1>3. Len(m) = Len(log) + 1 /\ \A i \in 1 .. Len(log) : m[i] = log[i]
  BY <1>1, <1>2, AppendProperties
<1>4. IsPrefix(log, m)
  <2>1. Len(log) <= Len(m)
    BY <1>1, <1>3
  <2> QED BY <1>1, <1>3, <2>1, PrefixByElement
<1>5. SubSeq(m, 1, Len(log)) = log
  <2>1. SubSeq(log, 1, Len(log)) = log
    BY <1>1, SubSeqFull
  <2> QED BY <1>4, <2>1 DEF IsPrefix
<1> QED BY <1>2, <1>3, <1>5 DEF Promise!Happen

LEMMA StepIsStep == HistoryInv /\ [Next]_vars => [Promise!Next]_(Promise!historyVars)
<1> SUFFICES ASSUME Shapes, Logged, Flow, [Next]_vars
             PROVE  Promise!Happen \/ (\E c \in Subs : Promise!See(c)) \/ (log' = log /\ seen' = seen)
  BY DEF HistoryInv, Promise!Next, Promise!historyVars
<1>1. CASE Poll \/ PollExit
  <2>1. PICK stop \in BOOLEAN : Round(stop)
    BY <1>1 DEF Poll, PollExit
  <2>2. seen' = seen
    BY <2>1 DEF Round, subscribers
  <2>3. CASE udpq = << >>
    BY <2>1, <2>2, <2>3 DEF Round
  <2>4. CASE udpq # << >>
    <3>1. PICK e \in Publications : e = Head(udpq)
      BY <2>4, HeadTailProperties DEF Shapes, ServerShapes
    <3>2. e \in Events /\ log' = Append(log, e)
      BY <2>1, <2>4, <3>1 DEF Events, Round
    <3> QED BY <2>2, <3>2, EventHappens
  <2> QED BY <2>3, <2>4
<1>2. ASSUME NEW c \in Subs, Scan(c) \/ HandleFrame(c)
      PROVE  Promise!Happen \/ (log' = log /\ seen' = seen)
  <2>1. seen' = seen /\ c \in clients
    BY <1>2 DEF Scan, HandleFrame, subscribers, Shapes, ServerShapes
  <2>2. CASE Drop(c)
    BY <2>1, <2>2, DropLogged, EventHappens
  <2>3. CASE HandleFrame(c) /\ Possible(c, Head(buf)) /\ Carry(c, Head(buf))
    <3>1. PICK op \in {"sub", "unsub"} : op = Head(buf)
      BY <2>3 DEF Possible
    <3>2. Possible(c, op) /\ Carry(c, op) /\ buf # << >>
      BY <2>3, <3>1 DEF HandleFrame, Shapes, ServerShapes
    <3> DEFINE e == [kind |-> op, client |-> c]
    <3>3. e \in Events /\ log' = Append(log, e)
      BY <2>1, <3>2, CarryShapes
    <3> HIDE DEF e
    <3> QED BY <2>1, <3>3, EventHappens
  <2>4. CASE Scan(c) /\ UNCHANGED <<clients, log, subs, outbox>>
    BY <2>1, <2>4
  <2> QED BY <1>2, <2>2, <2>3, <2>4 DEF Scan, HandleFrame
<1>3. ASSUME NEW c \in Subs, Receive(c) PROVE Promise!See(c) \/ (log' = log /\ seen' = seen)
  <2>1. log' = log /\ ~Ended(c)
    BY <1>3 DEF Receive, Ended, server
  <2>2. CASE toSub[c] # << >> /\ seen' = [seen EXCEPT ![c] = Append(@, Head(toSub[c]))]
    <3>1. /\ Len(seen[c]) < Len(ViewOf(log, c))
          /\ Head(toSub[c]) = ViewOf(log, c)[Len(seen[c]) + 1]
      BY <2>1, <2>2, PrintsNext
    <3>2. /\ Len(seen[c]) < Len(Promise!View(c))
          /\ Head(toSub[c]) = Promise!View(c)[Len(seen[c]) + 1]
      BY <3>1, ViewIsView, Zenon
    <3>3. seen' = [seen EXCEPT ![c] = Append(seen[c], Promise!View(c)[Len(seen[c]) + 1])]
      BY <2>2, <3>2
    <3> QED BY <2>1, <3>2, <3>3 DEF Promise!See
  <2>3. CASE seen' = seen
    BY <2>1, <2>3
  <2> QED BY <1>3, <2>2, <2>3 DEF Receive
<1>5. CASE SendFails
  <2>1. PICK x \in Subs \X Events : x = Head(outbox)
    BY <1>5, HeadTailProperties DEF SendFails, Shapes, ServerShapes
  <2>2. PICK c \in Subs : c = x[1]
    OBVIOUS
  <2>3. Drop(c) /\ seen' = seen
    BY <1>5, <2>1, <2>2 DEF SendFails, subscribers
  <2> QED BY <2>3, DropLogged, EventHappens
<1>4. CASE \/ SendDatagram \/ EndRound \/ SendNext \/ \E c \in Subs : Type(c) \/ Select(c) \/ Send(c)
           \/ UNCHANGED vars
  <2>1. log' = log /\ seen' = seen
    BY <1>4 DEF SendDatagram, EndRound, SendNext, Type, Select, Send, vars, server, subscribers
  <2> QED BY <2>1
<1> QED BY <1>1, <1>2, <1>3, <1>4, <1>5 DEF Next, ServerNext, SubscriberNext

(* The server's table, and all that is printed, on a connection or being   *)
(* sent, agree with one history in every reachable state.                  *)
THEOREM HistorySafe == Spec => []HistoryInv
<1>1. Init => HistoryInv
  BY InitShapes, InitLogged, InitFlow DEF HistoryInv
<1> QED BY <1>1, NextHistory, PTL DEF Spec

(* trie_publish and the acknowledgements against handle_received_data: all *)
(* subscribers are shown one history, each its part of it, without a gap   *)
(* and in order, whatever blocks and however commands and datagrams fall.  *)
THEOREM ImplementsHistory == Spec => SharesHistory
<1>1. Init => Promise!Init
  BY DEF Init, Promise!Init
<1> QED BY <1>1, StepIsStep, HistorySafe, PTL DEF Spec, SharesHistory, Promise!Spec

-----------------------------------------------------------------------------
(* Commands *)

Typable == Lines \cup {"eof"}
Sendable == {"sub", "unsub", "short"}

OneCommand == [l \in Typable |-> IF l \in Sendable THEN <<Frame(l)>> ELSE << >>]

(* The commands among the first k lines of s.                              *)
Given(s, k) == Commands(SubSeq(s, 1, k))

LEMMA CommandsGathered == ASSUME NEW q \in Seq(Typable) PROVE Commands(q) = Gathered(OneCommand, q)
<1>1. DOMAIN q = 1 .. Len(q) /\ \A n \in 1 .. Len(q) : q[n] \in Typable
  BY LenProperties
<1>2. [n \in DOMAIN q |-> IF q[n] \in {"sub", "unsub", "short"} THEN <<Frame(q[n])>> ELSE << >>]
         = [n \in DOMAIN q |-> OneCommand[q[n]]]
  BY <1>1 DEF OneCommand, Sendable
<1> QED BY <1>2 DEF Commands, Gathered

LEMMA OneCommandType == OneCommand \in [Typable -> Seq(Ops)]
<1>1. ASSUME NEW l \in Typable
      PROVE  (IF l \in Sendable THEN <<Frame(l)>> ELSE << >>) \in Seq(Ops)
  <2>1. CASE l \in Sendable
    <3>1. Frame(l) \in Ops
      BY <2>1, FrameOp DEF Sendable
    <3> QED BY <2>1, <3>1
  <2> QED BY <2>1
<1> QED BY <1>1 DEF OneCommand

LEMMA NoneGiven == ASSUME NEW s \in Seq(Typable) PROVE Given(s, 0) = << >>
<1>1. SubSeq(s, 1, 0) = << >>
  BY SubSeqEmpty
<1>2. Commands(<< >>) = << >>
  <2>1. FlattenSeq(<< >>) = << >>
    BY DEF FlattenSeq
  <2> QED BY <2>1 DEF Commands
<1> QED BY <1>1, <1>2 DEF Given

(* With one more line there is one command more, or not.                   *)
LEMMA GivenGrows ==
    ASSUME NEW s \in Seq(Typable), NEW k \in 0 .. Len(s) - 1
    PROVE  /\ Given(s, k) \in Seq(Ops) /\ Given(s, k + 1) \in Seq(Ops)
           /\ s[k + 1] \in Sendable =>
                 /\ Len(Given(s, k + 1)) = Len(Given(s, k)) + 1
                 /\ \A i \in 1 .. Len(Given(s, k)) : Given(s, k + 1)[i] = Given(s, k)[i]
                 /\ Given(s, k + 1)[Len(Given(s, k)) + 1] = Frame(s[k + 1])
           /\ s[k + 1] \notin Sendable => Given(s, k + 1) = Given(s, k)
<1>1. PICK q \in Seq(Typable) : q = SubSeq(s, 1, k)
  <2>1. \A i \in 1 .. k : s[i] \in Typable
    BY LenProperties
  <2>2. 1 \in Int /\ k \in Int
    BY LenProperties
  <2>3. SubSeq(s, 1, k) \in Seq(Typable)
    BY <2>1, <2>2, SubSeqProperties
  <2> QED BY <2>3
<1>2. PICK l \in Typable : l = s[k + 1]
  BY LenProperties
<1>3. SubSeq(s, 1, k + 1) = Append(q, l)
  <2>1. 1 \in 1 .. Len(s) /\ k + 1 \in 1 .. Len(s) /\ (k + 1) - 1 = k
    BY LenProperties
  <2>2. SubSeq(s, 1, k + 1) = SubSeq(s, 1, (k + 1) - 1) \o <<s[k + 1]>>
    BY <2>1, SubSeqRecursiveSecond
  <2>3. Append(q, l) = q \o <<l>>
    BY AppendIsConcat
  <2> QED BY <1>1, <1>2, <2>1, <2>2, <2>3
<1>4. GathersWell(OneCommand, q, l, Ops)
  BY OneCommandType, GatheredProps, Zenon
<1>5. Given(s, k) = Gathered(OneCommand, q) /\ Given(s, k + 1) = Gathered(OneCommand, Append(q, l))
  <2>1. Append(q, l) \in Seq(Typable)
    BY AppendProperties
  <2> QED BY <1>1, <1>3, <2>1, CommandsGathered DEF Given
<1>6. PICK a \in Seq(Ops), x \in Seq(Ops) : a = Given(s, k) /\ x = OneCommand[l]
  <2>1. Gathered(OneCommand, q) \in Seq(Ops)
    BY <1>4 DEF GathersWell
  <2> QED BY <1>5, <2>1, OneCommandType
<1>7. Given(s, k + 1) = a \o x
  BY <1>4, <1>5, <1>6, Zenon DEF GathersWell
<1>8. PICK b \in Seq(Ops) : b = Given(s, k + 1) /\ b = a \o x
  BY <1>7, ConcatProperties
<1>9. CASE l \in Sendable
  <2>1. x = <<Frame(l)>>
    BY <1>6, <1>9 DEF OneCommand
  <2>2. Len(x) = 1 /\ x[1] = Frame(l)
    BY <2>1
  <2>3. Len(b) = Len(a) + Len(x) /\ \A i \in 1 .. Len(a) + Len(x) : b[i] =
           IF i <= Len(a) THEN a[i] ELSE x[i - Len(a)]
    BY <1>8, ConcatProperties
  <2>4. Len(a) \in Nat /\ (Len(a) + 1) - Len(a) = 1
    BY LenProperties
  <2>5. Len(b) = Len(a) + 1 /\ (\A i \in 1 .. Len(a) : b[i] = a[i]) /\ b[Len(a) + 1] = Frame(l)
    BY <2>2, <2>3, <2>4
  <2> QED BY <1>2, <1>6, <1>8, <1>9, <2>5
<1>10. CASE l \notin Sendable
  <2>1. x = << >>
    BY <1>6, <1>10 DEF OneCommand
  <2>2. b = a
    BY <1>8, <2>1, ConcatEmptySeq
  <2> QED BY <1>2, <1>6, <1>8, <1>10, <2>2
<1> QED BY <1>9, <1>10

LEMMA GivenType == ASSUME NEW s \in Seq(Typable), NEW k \in 0 .. Len(s) PROVE Given(s, k) \in Seq(Ops)
<1>1. CASE k = Len(s) /\ k # 0
  <2>1. k - 1 \in 0 .. Len(s) - 1 /\ (k - 1) + 1 = k
    BY <1>1, LenProperties
  <2> QED BY <2>1, GivenGrows
<1>2. CASE k # Len(s)
  <2>1. k \in 0 .. Len(s) - 1
    BY <1>2, LenProperties
  <2> QED BY <2>1, GivenGrows
<1>3. CASE k = 0
  BY <1>3, NoneGiven, EmptySeq
<1> QED BY <1>1, <1>2, <1>3

(* Fewer lines have a first part of the commands.                          *)
LEMMA GivenPrefix ==
    ASSUME NEW s \in Seq(Typable), NEW n \in 0 .. Len(s), NEW k \in 0 .. n
    PROVE  /\ Len(Given(s, k)) <= Len(Given(s, n))
           /\ \A i \in 1 .. Len(Given(s, k)) : Given(s, k)[i] = Given(s, n)[i]
<1> DEFINE g == Given(s, k)
           within(m) == /\ Len(g) <= Len(Given(s, k + m))
                        /\ \A i \in 1 .. Len(g) : g[i] = Given(s, k + m)[i]
           A == {m \in 0 .. n - k : within(m)}
<1>0. n - k \in Nat /\ Len(s) \in Nat /\ k \in 0 .. Len(s) /\ k + 0 = k /\ k + (n - k) = n
  BY LenProperties
<1>1. Len(g) \in Nat
  BY <1>0, GivenType, LenProperties
<1>2. 0 \in A
  BY <1>0, <1>1
<1>3. ASSUME NEW m \in 0 .. (n - k) - 1, m \in A PROVE m + 1 \in A
  <2>1. k + m \in 0 .. Len(s) - 1 /\ k + (m + 1) = (k + m) + 1 /\ m + 1 \in 0 .. n - k
    BY <1>0
  <2>2. PICK a \in Seq(Ops), b \in Seq(Ops) : a = Given(s, k + m) /\ b = Given(s, (k + m) + 1)
    BY <2>1, GivenGrows
  <2>3. Len(a) \in Nat /\ Len(b) \in Nat
    BY LenProperties
  <2>4. Len(a) <= Len(b) /\ \A i \in 1 .. Len(a) : b[i] = a[i]
    BY <2>1, <2>2, <2>3, GivenGrows
  <2> HIDE DEF g
  <2>5. Len(g) <= Len(a) /\ \A i \in 1 .. Len(g) : g[i] = a[i]
    BY <1>3, <2>2
  <2>6. Len(g) <= Len(b) /\ \A i \in 1 .. Len(g) : g[i] = b[i]
    BY <1>1, <2>3, <2>4, <2>5
  <2> QED BY <2>1, <2>2, <2>6
<1>4. n - k \in A
  <2>1. \A m \in 0 .. n - k : m \in A
    <3> HIDE DEF A
    <3> QED BY <1>0, <1>2, <1>3, UpTo, Zenon
  <2> HIDE DEF A
  <2> QED BY <1>0, <2>1
<1> QED BY <1>0, <1>4

(* A script: the end of stdin, if it comes, is its last.                   *)
IsScript(s) == s \in Seq(Typable) /\ \A n \in 1 .. Len(s) : s[n] = "eof" => n = Len(s)

EofAt(s, t) == t > 0 /\ s[t] = "eof"
AvailableAt(s, t) == IF EofAt(s, t) THEN t - 1 ELSE t

(* a and b are, one after the other, lines k + 1 to n of s.                *)
Waiting(a, b, s, k, n) ==
    /\ Len(a) + Len(b) = n - k
    /\ \A i \in 1 .. Len(a) : a[i] = s[k + i]
    /\ \A i \in 1 .. Len(b) : b[i] = s[k + Len(a) + i]

LEMMA AvailableBounds ==
    ASSUME NEW s, IsScript(s), NEW t \in 0 .. Len(s)
    PROVE  /\ AvailableAt(s, t) \in 0 .. Len(s) /\ AvailableAt(s, t) <= t
           /\ Len(s) \in Nat
           /\ \A k \in 1 .. AvailableAt(s, t) : s[k] \in Lines
<1>1. Len(s) \in Nat /\ \A k \in 1 .. Len(s) : s[k] \in Typable
  BY LenProperties DEF IsScript
<1>2. \A k \in 1 .. Len(s) : s[k] = "eof" => k = Len(s)
  BY DEF IsScript
<1> QED BY <1>1, <1>2 DEF AvailableAt, EofAt, Typable

LEMMA WaitingMore ==
    ASSUME NEW a \in Seq(Lines), NEW b \in Seq(Lines), NEW s, NEW n \in Nat, NEW k \in 0 .. n,
           Waiting(a, b, s, k, n), s[n + 1] \in Lines
    PROVE  Waiting(a, Append(b, s[n + 1]), s, k, n + 1)
<1>0. PICK x \in Lines : x = s[n + 1]
  OBVIOUS
<1>1. /\ Len(Append(b, x)) = Len(b) + 1 /\ Append(b, x)[Len(b) + 1] = x
      /\ \A i \in 1 .. Len(b) : Append(b, x)[i] = b[i]
  BY AppendProperties
<1>2. Len(a) \in Nat /\ Len(b) \in Nat
  BY LenProperties
<1>3. ASSUME NEW i \in 1 .. Len(b) + 1 PROVE Append(b, x)[i] = s[k + Len(a) + i]
  <2>1. CASE i = Len(b) + 1
    <3>1. k + Len(a) + i = n + 1
      BY <1>2, <2>1 DEF Waiting
    <3> QED BY <1>0, <1>1, <2>1, <3>1
  <2>2. CASE i # Len(b) + 1
    <3>1. i \in 1 .. Len(b)
      BY <1>2, <2>2
    <3> QED BY <1>1, <3>1 DEF Waiting
  <2> QED BY <2>1, <2>2
<1>4. Len(a) + (Len(b) + 1) = (n + 1) - k
  <2>1. Len(a) + Len(b) = n - k
    BY DEF Waiting
  <2> QED BY <1>2, <2>1
<1>5. PICK bx \in Seq(Lines) : bx = Append(b, x)
  BY AppendProperties
<1>6. Waiting(a, bx, s, k, n + 1)
  <2>1. Len(bx) = Len(b) + 1 /\ \A i \in 1 .. Len(bx) : bx[i] = s[k + Len(a) + i]
    BY <1>1, <1>3, <1>5
  <2> QED BY <1>4, <2>1 DEF Waiting
<1> QED BY <1>0, <1>5, <1>6

(* The next line of what was read ahead, or of the pipe.                   *)
LEMMA WaitingNext ==
    ASSUME NEW a \in Seq(Lines), NEW b \in Seq(Lines), NEW s, NEW n \in Nat, NEW k \in 0 .. n,
           Waiting(a, b, s, k, n)
    PROVE  /\ a # << >> => k < n /\ Head(a) = s[k + 1] /\ Waiting(Tail(a), b, s, k + 1, n)
           /\ a = << >> /\ b # << >> =>
                 k < n /\ Head(b) = s[k + 1] /\ Waiting(Tail(b), << >>, s, k + 1, n)
           /\ a = << >> /\ b = << >> => k = n
<1>1. Len(a) \in Nat /\ Len(b) \in Nat
  BY LenProperties
<1>2. CASE a # << >>
  <2>1. /\ Len(a) > 0 /\ Len(Tail(a)) = Len(a) - 1 /\ Head(a) = a[1]
        /\ \A i \in 1 .. Len(a) - 1 : Tail(a)[i] = a[i + 1]
    BY <1>2
  <2>2. \A i \in 1 .. Len(a) - 1 : i + 1 \in 1 .. Len(a) /\ k + (i + 1) = (k + 1) + i
    BY <1>1
  <2>3. \A i \in 1 .. Len(a) - 1 : Tail(a)[i] = s[(k + 1) + i]
    BY <2>1, <2>2 DEF Waiting
  <2>4. \A i \in 1 .. Len(b) : b[i] = s[(k + 1) + (Len(a) - 1) + i]
    <3>1. \A i \in 1 .. Len(b) : (k + 1) + (Len(a) - 1) + i = k + Len(a) + i
      BY <1>1
    <3> QED BY <3>1 DEF Waiting
  <2>5. (Len(a) - 1) + Len(b) = n - (k + 1) /\ k < n
    BY <1>1, <2>1 DEF Waiting
  <2>6. 1 \in 1 .. Len(a)
    BY <1>1, <2>1
  <2>7. Head(a) = s[k + 1]
    BY <2>1, <2>6 DEF Waiting
  <2> QED BY <1>2, <2>1, <2>3, <2>4, <2>5, <2>7 DEF Waiting
<1>3. CASE a = << >> /\ b # << >>
  <2>0. Len(a) = 0
    BY <1>3
  <2>1. /\ Len(b) > 0 /\ Len(Tail(b)) = Len(b) - 1 /\ Head(b) = b[1]
        /\ \A i \in 1 .. Len(b) - 1 : Tail(b)[i] = b[i + 1]
    BY <1>3
  <2>2. \A i \in 1 .. Len(b) - 1 : i + 1 \in 1 .. Len(b) /\ k + 0 + (i + 1) = (k + 1) + i
    BY <1>1
  <2>3. \A i \in 1 .. Len(b) - 1 : Tail(b)[i] = s[(k + 1) + i]
    BY <2>0, <2>1, <2>2 DEF Waiting
  <2>4. (Len(b) - 1) + 0 = n - (k + 1) /\ k < n
    BY <1>1, <2>0, <2>1 DEF Waiting
  <2>5. 1 \in 1 .. Len(b) /\ k + 0 + 1 = k + 1
    BY <1>1, <2>1
  <2>6. Head(b) = s[k + 1]
    BY <2>0, <2>1, <2>5 DEF Waiting
  <2>7. Len(<< >>) = 0
    OBVIOUS
  <2> QED BY <1>3, <2>1, <2>3, <2>4, <2>6, <2>7 DEF Waiting
<1>4. CASE a = << >> /\ b = << >>
  <2>1. Len(a) = 0 /\ Len(b) = 0
    BY <1>4
  <2> QED BY <1>4, <2>1 DEF Waiting
<1> QED BY <1>2, <1>3, <1>4

(* D is G, with nothing but x behind it if more.                           *)
Matches(D, G, x, more) ==
    /\ Len(G) <= Len(D) /\ (more \/ Len(D) = Len(G))
    /\ \A i \in 1 .. Len(G) : D[i] = G[i]
    /\ \A i \in Len(G) + 1 .. Len(D) : D[i] = x

LEMMA MatchesMore ==
    ASSUME NEW D \in Seq(Ops), NEW G \in Seq(Ops), NEW x \in Ops, Matches(D, G, x, TRUE)
    PROVE  Matches(Append(D, x), G, x, TRUE)
<1>1. /\ Len(D) \in Nat /\ Len(G) \in Nat /\ Len(Append(D, x)) = Len(D) + 1
      /\ Append(D, x)[Len(D) + 1] = x
      /\ \A i \in 1 .. Len(D) : Append(D, x)[i] = D[i]
  BY LenProperties, AppendProperties
<1> QED BY <1>1 DEF Matches

LEMMA MatchesLonger ==
    ASSUME NEW D \in Seq(Ops), NEW G \in Seq(Ops), NEW H \in Seq(Ops), NEW f \in Ops,
           Len(H) = Len(G) + 1, H[Len(G) + 1] = f, \A i \in 1 .. Len(G) : H[i] = G[i]
    PROVE  \A x, y, also : Matches(D, G, x, FALSE) => Matches(Append(D, f), H, y, also)
<1>1. /\ Len(D) \in Nat /\ Len(G) \in Nat /\ Len(Append(D, f)) = Len(D) + 1
      /\ Append(D, f)[Len(D) + 1] = f
      /\ \A i \in 1 .. Len(D) : Append(D, f)[i] = D[i]
  BY LenProperties, AppendProperties
<1>2. ASSUME NEW x, NEW y, NEW also, Matches(D, G, x, FALSE)
      PROVE  Matches(Append(D, f), H, y, also)
  <2>1. Len(D) = Len(G) /\ \A i \in 1 .. Len(G) : D[i] = G[i]
    BY <1>2 DEF Matches
  <2> QED BY <1>1, <2>1 DEF Matches
<1> QED BY <1>2

LEMMA MatchesSame ==
    ASSUME NEW D, NEW G, Len(G) \in Nat
    PROVE  \A x, y, also : Matches(D, G, x, FALSE) => Matches(D, G, y, also)
  BY DEF Matches

(* What a subscriber has sent, or is about to.                             *)
DoneOf(st, l, sent) == IF st = "send" THEN Append(sent, Frame(l)) ELSE sent

More(s, t, k) == EofAt(s, t) /\ k = AvailableAt(s, t) /\ k > 0

(* k lines were taken: a and b hold the rest of what was typed, l is the   *)
(* last one if anything, and their commands were sent.                     *)
TakenOf(s, t, a, b, l, st, sent, k) ==
    /\ Waiting(a, b, s, k, AvailableAt(s, t))
    /\ l = "other" \/ (k > 0 /\ l = s[k])
    /\ Matches(DoneOf(st, l, sent), Given(s, k), s[k], More(s, t, k))

InputOf(s, t, a, b, l, st, sent) ==
    /\ \E k \in 0 .. AvailableAt(s, t) : TakenOf(s, t, a, b, l, st, sent, k)
    /\ l = "short" => st \in {"send", "ended"}

(* Where main goes with a line.                                            *)
After(l) == CASE l = "exit" -> "ended" [] l = "other" -> "sock" [] OTHER -> "send"

LEMMA TypedInput ==
    ASSUME NEW s, IsScript(s), NEW t \in 0 .. Len(s) - 1, NEW a \in Seq(Lines), NEW b \in Seq(Lines),
           NEW l, NEW st, NEW sent, InputOf(s, t, a, b, l, st, sent)
    PROVE  /\ s[t + 1] = "eof" => InputOf(s, t + 1, a, b, l, st, sent)
           /\ s[t + 1] # "eof" => /\ s[t + 1] \in Lines
                                  /\ InputOf(s, t + 1, a, Append(b, s[t + 1]), l, st, sent)
<1>0. Len(s) \in Nat /\ t \in Nat /\ t + 1 \in 1 .. Len(s) /\ (t + 1) - 1 = t /\ s \in Seq(Typable)
      /\ s[t + 1] \in Typable
  BY LenProperties DEF IsScript
<1>1. ~EofAt(s, t) /\ AvailableAt(s, t) = t
  BY <1>0 DEF IsScript, EofAt, AvailableAt
<1>2. PICK k \in 0 .. t : TakenOf(s, t, a, b, l, st, sent, k)
  BY <1>1 DEF InputOf
<1>3. Matches(DoneOf(st, l, sent), Given(s, k), s[k], More(s, t + 1, k))
  BY <1>1, <1>2 DEF TakenOf, Matches, More
<1>4. CASE s[t + 1] = "eof"
  <2>1. AvailableAt(s, t + 1) = t
    BY <1>0, <1>4 DEF AvailableAt, EofAt
  <2>2. TakenOf(s, t + 1, a, b, l, st, sent, k)
    BY <1>1, <1>2, <1>3, <2>1 DEF TakenOf
  <2> QED BY <1>2, <1>4, <2>1, <2>2 DEF InputOf
<1>5. CASE s[t + 1] # "eof"
  <2>1. s[t + 1] \in Lines
    BY <1>0, <1>5 DEF Typable
  <2>2. AvailableAt(s, t + 1) = t + 1
    BY <1>5 DEF AvailableAt, EofAt
  <2>3. Waiting(a, Append(b, s[t + 1]), s, k, t + 1)
    <3>1. Waiting(a, b, s, k, t)
      BY <1>1, <1>2 DEF TakenOf
    <3> QED BY <1>0, <2>1, <3>1, WaitingMore
  <2>4. TakenOf(s, t + 1, a, Append(b, s[t + 1]), l, st, sent, k)
    BY <1>2, <1>3, <2>2, <2>3 DEF TakenOf
  <2>5. k \in 0 .. t + 1
    BY <1>0
  <2> QED BY <1>5, <2>1, <2>2, <2>4, <2>5, <1>2 DEF InputOf
<1> QED BY <1>4, <1>5

(* The commands of one line more, when it was taken.                       *)
LEMMA TakesLine ==
    ASSUME NEW s, IsScript(s), NEW k \in 0 .. Len(s) - 1, s[k + 1] \in Lines, NEW sent \in Seq(Ops),
           NEW also \in BOOLEAN, Matches(sent, Given(s, k), s[k], FALSE)
    PROVE  Matches(DoneOf(After(s[k + 1]), s[k + 1], sent), Given(s, k + 1), s[k + 1], also)
<1>1. /\ Given(s, k) \in Seq(Ops) /\ Given(s, k + 1) \in Seq(Ops)
      /\ s[k + 1] \in Sendable =>
            /\ Len(Given(s, k + 1)) = Len(Given(s, k)) + 1
            /\ \A i \in 1 .. Len(Given(s, k)) : Given(s, k + 1)[i] = Given(s, k)[i]
            /\ Given(s, k + 1)[Len(Given(s, k)) + 1] = Frame(s[k + 1])
      /\ s[k + 1] \notin Sendable => Given(s, k + 1) = Given(s, k)
  BY GivenGrows DEF IsScript
<1>2. PICK G \in Seq(Ops), H \in Seq(Ops), h \in Lines :
         G = Given(s, k) /\ H = Given(s, k + 1) /\ h = s[k + 1]
  BY <1>1
<1>3. CASE h \in Sendable
  <2>1. PICK f \in Ops : f = Frame(h)
    BY <1>3, FrameOp DEF Sendable
  <2>2. DoneOf(After(h), h, sent) = Append(sent, f)
    BY <1>3, <2>1 DEF DoneOf, After, Sendable
  <2>3. Len(H) = Len(G) + 1 /\ H[Len(G) + 1] = f /\ \A i \in 1 .. Len(G) : H[i] = G[i]
    BY <1>1, <1>2, <1>3, <2>1
  <2>4. Matches(sent, G, s[k], FALSE)
    BY <1>2
  <2>5. Matches(Append(sent, f), H, h, also)
    <3>1. \A x, y, z : Matches(sent, G, x, FALSE) => Matches(Append(sent, f), H, y, z)
      BY <2>3, MatchesLonger
    <3> QED BY <2>4, <3>1, Zenon
  <2> QED BY <1>2, <2>2, <2>5
<1>4. CASE h \notin Sendable
  <2>1. DoneOf(After(h), h, sent) = sent
    BY <1>2, <1>4 DEF DoneOf, After, Sendable, Lines
  <2>2. Matches(sent, G, s[k], FALSE) /\ H = G
    BY <1>1, <1>2, <1>4
  <2>3. Len(H) \in Nat
    BY LenProperties
  <2>4. Matches(sent, H, h, also)
    <3>1. \A x, y, z : Matches(sent, H, x, FALSE) => Matches(sent, H, y, z)
      BY <2>3, MatchesSame
    <3>2. Matches(sent, H, s[k], FALSE)
      BY <2>2
    <3> QED BY <3>1, <3>2, Zenon
  <2> QED BY <1>2, <2>1, <2>4
<1> QED BY <1>3, <1>4

(* fgets with a line at hand, and what main does with it.                  *)
LEMMA LineInput ==
    ASSUME NEW s, IsScript(s), NEW t \in 0 .. Len(s), NEW a \in Seq(Lines), NEW b \in Seq(Lines),
           NEW l, NEW sent \in Seq(Ops), InputOf(s, t, a, b, l, "select", sent)
    PROVE  /\ a # << >> => InputOf(s, t, Tail(a), b, Head(a), After(Head(a)), sent)
           /\ a = << >> /\ b # << >> => InputOf(s, t, Tail(b), << >>, Head(b), After(Head(b)), sent)
<1>0. Len(s) \in Nat /\ AvailableAt(s, t) \in 0 .. Len(s) /\ \A k \in 1 .. AvailableAt(s, t) : s[k] \in Lines
  BY AvailableBounds
<1>1. PICK n \in 0 .. Len(s) : n = AvailableAt(s, t)
  BY <1>0
<1>2. PICK k \in 0 .. n : TakenOf(s, t, a, b, l, "select", sent, k)
  BY <1>1 DEF InputOf
<1>3. Waiting(a, b, s, k, n) /\ Matches(sent, Given(s, k), s[k], More(s, t, k))
  BY <1>1, <1>2 DEF TakenOf, DoneOf
<1>4. /\ a # << >> => k < n /\ Head(a) = s[k + 1] /\ Waiting(Tail(a), b, s, k + 1, n)
      /\ a = << >> /\ b # << >> =>
            k < n /\ Head(b) = s[k + 1] /\ Waiting(Tail(b), << >>, s, k + 1, n)
  BY <1>3, n \in Nat, WaitingNext
<1>5. ASSUME NEW x, NEW y, Waiting(x, y, s, k + 1, n), k < n
      PROVE  InputOf(s, t, x, y, s[k + 1], After(s[k + 1]), sent)
  <2>1. k \in 0 .. Len(s) - 1 /\ k + 1 \in 1 .. n /\ k + 1 > 0 /\ k # n
    BY <1>0, <1>5
  <2>2. ~More(s, t, k)
    BY <1>1, <2>1 DEF More
  <2>3. Matches(sent, Given(s, k), s[k], FALSE)
    BY <1>3, <2>2 DEF Matches
  <2>4. s[k + 1] \in Lines /\ More(s, t, k + 1) \in BOOLEAN
    BY <1>0, <1>1, <2>1 DEF More, EofAt
  <2>5. Matches(DoneOf(After(s[k + 1]), s[k + 1], sent), Given(s, k + 1), s[k + 1], More(s, t, k + 1))
    BY <2>1, <2>3, <2>4, TakesLine
  <2>6. TakenOf(s, t, x, y, s[k + 1], After(s[k + 1]), sent, k + 1)
    BY <1>1, <1>5, <2>1, <2>5 DEF TakenOf
  <2>7. s[k + 1] = "short" => After(s[k + 1]) \in {"send", "ended"}
    BY DEF After
  <2>8. k + 1 \in 0 .. n
    BY <2>1
  <2> QED BY <1>1, <2>6, <2>7, <2>8 DEF InputOf
<1> QED BY <1>4, <1>5

(* fgets at the end of stdin: nothing is taken.                            *)
LEMMA EndInput ==
    ASSUME NEW s, IsScript(s), NEW t \in 0 .. Len(s), NEW l \in Lines, NEW sent \in Seq(Ops),
           InputOf(s, t, << >>, << >>, l, "select", sent), EofAt(s, t)
    PROVE  \A m \in {l, "other"} : InputOf(s, t, << >>, << >>, m, After(m), sent)
<1> SUFFICES ASSUME NEW m \in {l, "other"} PROVE InputOf(s, t, << >>, << >>, m, After(m), sent)
  OBVIOUS
<1>0. Len(s) \in Nat /\ AvailableAt(s, t) \in 0 .. Len(s) /\ s \in Seq(Typable)
  BY AvailableBounds DEF IsScript
<1>1. PICK n \in 0 .. Len(s) : n = AvailableAt(s, t)
  BY <1>0
<1>2. PICK k \in 0 .. n : TakenOf(s, t, << >>, << >>, l, "select", sent, k)
  BY <1>1 DEF InputOf
<1>3. Waiting(<< >>, << >>, s, k, n) /\ Matches(sent, Given(s, k), s[k], More(s, t, k))
  BY <1>1, <1>2 DEF TakenOf, DoneOf
<1>4. k = n
  BY <1>3, n \in Nat, EmptySeq, WaitingNext
<1>5. l # "short" /\ m # "short"
  BY DEF InputOf
<1>6. CASE m \in {"sub", "unsub"}
  <2>1. m = l /\ k > 0 /\ l = s[k]
    BY <1>2, <1>6 DEF TakenOf
  <2>2. More(s, t, k)
    BY <1>1, <1>4, <2>1 DEF More
  <2>3. After(m) = "send" /\ m \in Ops /\ Frame(m) = m
    BY <1>6 DEF After, Frame, Ops
  <2>4. Given(s, k) \in Seq(Ops)
    <3>1. k \in 0 .. Len(s)
      BY <1>0
    <3> QED BY <1>0, <3>1, GivenType
  <2>5. Matches(Append(sent, m), Given(s, k), m, TRUE)
    <3>1. Matches(sent, Given(s, k), m, TRUE)
      BY <1>3, <2>1, <2>2 DEF Matches
    <3> QED BY <2>3, <2>4, <3>1, MatchesMore
  <2>6. TakenOf(s, t, << >>, << >>, m, After(m), sent, k)
    <3>1. Matches(Append(sent, m), Given(s, k), s[k], More(s, t, k))
      BY <2>1, <2>2, <2>5 DEF Matches
    <3> QED BY <1>1, <1>3, <2>1, <2>3, <3>1 DEF TakenOf, DoneOf
  <2> QED BY <1>1, <1>5, <2>6 DEF InputOf
<1>7. CASE m \notin {"sub", "unsub"}
  <2>1. After(m) \in {"ended", "sock"}
    BY <1>5, <1>7 DEF After, Lines
  <2>2. TakenOf(s, t, << >>, << >>, m, After(m), sent, k)
    BY <1>1, <1>2, <1>3, <2>1 DEF TakenOf, DoneOf
  <2> QED BY <1>1, <1>5, <2>2 DEF InputOf
<1> QED BY <1>6, <1>7

(* The line was sent.                                                      *)
LEMMA SentInput ==
    ASSUME NEW s, NEW t, NEW a, NEW b, NEW l, NEW sent, NEW st,
           InputOf(s, t, a, b, l, "send", sent), st \in {"sock", "ended"}, l = "short" => st = "ended"
    PROVE  InputOf(s, t, a, b, l, st, Append(sent, Frame(l)))
  BY DEF InputOf, TakenOf, DoneOf

(* The socket was dealt with.                                              *)
LEMMA IdleInput ==
    ASSUME NEW s, NEW t, NEW a, NEW b, NEW l, NEW sent, NEW st, NEW st2,
           InputOf(s, t, a, b, l, st, sent), st # "send", st2 # "send",
           st \in {"send", "ended"} => st2 = st
    PROVE  InputOf(s, t, a, b, l, st2, sent)
  BY DEF InputOf, TakenOf, DoneOf

Input(c) == InputOf(script[c], typed[c], stdio[c], pipe[c], line[c], stage[c], sentBy[c])

InputInv == Shapes /\ \A c \in Subs : Input(c)

LEMMA InputTypes ==
    ASSUME Shapes, NEW c \in Subs
    PROVE  /\ IsScript(script[c]) /\ Len(script[c]) \in Nat /\ typed[c] \in 0 .. Len(script[c])
           /\ stdio[c] \in Seq(Lines) /\ pipe[c] \in Seq(Lines) /\ line[c] \in Lines
           /\ sentBy[c] \in Seq(Ops)
           /\ Eof(c) <=> EofAt(script[c], typed[c])
<1>1. script[c] \in Seq(Lines \cup {"eof"}) /\ \A n \in 1 .. Len(script[c]) :
         script[c][n] = "eof" => n = Len(script[c])
  BY BrokerAssumption DEF Shapes, SubscriberShapes
<1>2. Len(script[c]) \in Nat
  BY <1>1, LenProperties
<1> QED BY <1>1, <1>2 DEF Shapes, SubscriberShapes, IsScript, Typable, Eof, EofAt

LEMMA InitInput == Init => InputInv
<1> SUFFICES ASSUME Init PROVE InputInv
  OBVIOUS
<1>1. Shapes
  BY InitShapes
<1>2. ASSUME NEW c \in Subs PROVE Input(c)
  <2>1. PICK s \in Seq(Typable) : s = script[c]
    BY <1>1, InputTypes DEF IsScript
  <2>2. AvailableAt(s, 0) = 0 /\ ~More(s, 0, 0)
    BY DEF AvailableAt, EofAt, More
  <2>3. Waiting(<< >>, << >>, s, 0, AvailableAt(s, 0))
    BY <2>2 DEF Waiting
  <2>4. Matches(<< >>, << >>, s[0], More(s, 0, 0))
    BY DEF Matches
  <2>5. DoneOf("select", "other", << >>) = << >> /\ Given(s, 0) = << >>
    BY NoneGiven DEF DoneOf
  <2>6. TakenOf(s, 0, << >>, << >>, "other", "select", << >>, 0)
    BY <2>3, <2>4, <2>5, Zenon DEF TakenOf
  <2>7. InputOf(s, 0, << >>, << >>, "other", "select", << >>)
    BY <2>2, <2>6 DEF InputOf
  <2>8. /\ typed[c] = 0 /\ stdio[c] = << >> /\ pipe[c] = << >> /\ line[c] = "other"
        /\ stage[c] = "select" /\ sentBy[c] = << >>
    BY DEF Init
  <2> QED BY <2>1, <2>7, <2>8, Zenon DEF Input
<1> QED BY <1>1, <1>2 DEF InputInv

(* What one subscriber does, or is typed at it, is nothing to the others.  *)
LEMMA OthersInput ==
    ASSUME InputInv, Shapes', NEW c \in Subs, Input(c)',
           \A d \in Subs \ {c} :
              /\ script'[d] = script[d] /\ typed'[d] = typed[d] /\ stdio'[d] = stdio[d]
              /\ pipe'[d] = pipe[d] /\ line'[d] = line[d] /\ stage'[d] = stage[d]
              /\ sentBy'[d] = sentBy[d]
    PROVE  InputInv'
<1>1. ASSUME NEW d \in Subs \ {c} PROVE Input(d)'
  BY <1>1 DEF InputInv, Input
<1> QED BY <1>1 DEF InputInv

LEMMA TypeInput == ASSUME InputInv, Shapes', NEW c \in Subs, Type(c) PROVE InputInv'
<1> DEFINE s == script[c]
           t == typed[c]
<1>0. /\ UNCHANGED <<script, stdio, line, stage, sentBy>>
      /\ typed' = [typed EXCEPT ![c] = typed[c] + 1]
      /\ pipe' = IF script[c][typed[c] + 1] = "eof" THEN pipe
                 ELSE [pipe EXCEPT ![c] = Append(pipe[c], script[c][typed[c] + 1])]
      /\ typed \in [Subs -> Nat] /\ pipe \in [Subs -> Seq(Lines)]
  BY DEF Type, InputInv, Shapes, SubscriberShapes
<1>1. IsScript(s) /\ t \in 0 .. Len(s) - 1 /\ stdio[c] \in Seq(Lines) /\ pipe[c] \in Seq(Lines)
  <2>1. typed[c] < Len(script[c])
    BY DEF Type
  <2> QED BY <2>1, InputTypes DEF InputInv
<1>2. InputOf(s, t, stdio[c], pipe[c], line[c], stage[c], sentBy[c])
  BY DEF InputInv, Input
<1> HIDE DEF s, t
<1>3. /\ s[t + 1] = "eof" => InputOf(s, t + 1, stdio[c], pipe[c], line[c], stage[c], sentBy[c])
      /\ s[t + 1] # "eof" =>
            InputOf(s, t + 1, stdio[c], Append(pipe[c], s[t + 1]), line[c], stage[c], sentBy[c])
  BY <1>1, <1>2, TypedInput
<1>4. script'[c] = s /\ typed'[c] = t + 1
      /\ pipe'[c] = IF s[t + 1] = "eof" THEN pipe[c] ELSE Append(pipe[c], s[t + 1])
  BY <1>0 DEF s, t
<1>5. Input(c)'
  BY <1>0, <1>3, <1>4 DEF Input
<1>6. \A d \in Subs \ {c} : typed'[d] = typed[d] /\ pipe'[d] = pipe[d]
  BY <1>0
<1> QED BY <1>0, <1>5, <1>6, OthersInput

LEMMA SelectInput == ASSUME InputInv, Shapes', NEW c \in Subs, Select(c) PROVE InputInv'
<1>0. /\ UNCHANGED <<script, typed, sentBy>> /\ stage[c] = "select"
      /\ stage \in [Subs -> {"select", "send", "sock", "ended"}]
      /\ line \in [Subs -> Lines] /\ stdio \in [Subs -> Seq(Lines)] /\ pipe \in [Subs -> Seq(Lines)]
  BY DEF Select, InputInv, Shapes, SubscriberShapes
<1>1. /\ IsScript(script[c]) /\ typed[c] \in 0 .. Len(script[c]) /\ sentBy[c] \in Seq(Ops)
      /\ stdio[c] \in Seq(Lines) /\ pipe[c] \in Seq(Lines) /\ line[c] \in Lines
      /\ Eof(c) <=> EofAt(script[c], typed[c])
  BY InputTypes DEF InputInv
<1>2. InputOf(script[c], typed[c], stdio[c], pipe[c], line[c], "select", sentBy[c])
  BY <1>0 DEF InputInv, Input
<1>3. CASE ~StdinReady(c) /\ Goto(c, "sock") /\ UNCHANGED <<line, stdio, pipe>>
  <2>1. InputOf(script[c], typed[c], stdio[c], pipe[c], line[c], "sock", sentBy[c])
    BY <1>2, IdleInput
  <2>2. stage'[c] = "sock" /\ \A d \in Subs \ {c} : stage'[d] = stage[d]
    BY <1>0, <1>3 DEF Goto
  <2> QED BY <1>0, <1>3, <2>1, <2>2, OthersInput DEF Input
<1>4. CASE StdinReady(c) /\ Gets(c) /\ Goto(c, After(line'[c]))
  <2>0. /\ stage'[c] = After(line'[c])
        /\ \A d \in Subs \ {c} : stage'[d] = stage[d]
    BY <1>0, <1>4 DEF Goto
  <2>1. \A d \in Subs \ {c} : line'[d] = line[d] /\ stdio'[d] = stdio[d] /\ pipe'[d] = pipe[d]
    BY <1>4, GetsShapes DEF InputInv
  <2>2. CASE stdio[c] # << >>
    <3>1. line'[c] = Head(stdio[c]) /\ stdio'[c] = Tail(stdio[c]) /\ pipe'[c] = pipe[c]
      BY <1>0, <1>4, <2>2 DEF Gets, LinesAt
    <3>2. InputOf(script[c], typed[c], Tail(stdio[c]), pipe[c], Head(stdio[c]),
                  After(Head(stdio[c])), sentBy[c])
      BY <1>1, <1>2, <2>2, LineInput
    <3>3. Input(c)'
      BY <1>0, <2>0, <3>1, <3>2 DEF Input
    <3> QED BY <1>0, <2>0, <2>1, <3>3, OthersInput
  <2>3. CASE stdio[c] = << >> /\ pipe[c] # << >>
    <3>1. line'[c] = Head(pipe[c]) /\ stdio'[c] = Tail(pipe[c]) /\ pipe'[c] = << >>
      BY <1>0, <1>4, <2>3 DEF Gets, LinesAt
    <3>2. InputOf(script[c], typed[c], Tail(pipe[c]), << >>, Head(pipe[c]),
                  After(Head(pipe[c])), sentBy[c])
      BY <1>1, <1>2, <2>3, LineInput
    <3>3. Input(c)'
      BY <1>0, <2>0, <3>1, <3>2 DEF Input
    <3> QED BY <1>0, <2>0, <2>1, <3>3, OthersInput
  <2>4. CASE stdio[c] = << >> /\ pipe[c] = << >>
    <3>1. /\ line'[c] \in {line[c], "other"}
          /\ stdio'[c] = << >> /\ pipe'[c] = << >>
      BY <1>0, <1>4, <2>4 DEF Gets, LinesAt
    <3>2. EofAt(script[c], typed[c])
      BY <1>1, <1>4, <2>4 DEF StdinReady
    <3>3. \A m \in {line[c], "other"} :
             InputOf(script[c], typed[c], << >>, << >>, m, After(m), sentBy[c])
      BY <1>1, <1>2, <2>4, <3>2, EndInput
    <3>4. Input(c)'
      BY <1>0, <2>0, <3>1, <3>3 DEF Input
    <3> QED BY <1>0, <2>0, <2>1, <3>4, OthersInput
  <2> QED BY <2>2, <2>3, <2>4
<1> QED BY <1>3, <1>4 DEF Select, After

LEMMA SendInput == ASSUME InputInv, Shapes', NEW c \in Subs, Send(c) PROVE InputInv'
<1>0. /\ UNCHANGED <<script, typed, stdio, pipe, line>> /\ stage[c] = "send"
      /\ stage \in [Subs -> {"select", "send", "sock", "ended"}] /\ sentBy \in [Subs -> Seq(Ops)]
      /\ sentBy' = [sentBy EXCEPT ![c] = Append(sentBy[c], Frame(line[c]))]
  BY DEF Send, InputInv, Shapes, SubscriberShapes, input
<1>1. /\ stage'[c] \in {"sock", "ended"} /\ (line[c] = "short" => stage'[c] = "ended")
      /\ \A d \in Subs \ {c} : stage'[d] = stage[d]
  BY <1>0 DEF Send, Goto
<1>2. InputOf(script[c], typed[c], stdio[c], pipe[c], line[c], "send", sentBy[c])
  BY <1>0 DEF InputInv, Input
<1>3. InputOf(script[c], typed[c], stdio[c], pipe[c], line[c], stage'[c],
              Append(sentBy[c], Frame(line[c])))
  BY <1>1, <1>2, SentInput
<1>4. /\ sentBy'[c] = Append(sentBy[c], Frame(line[c]))
      /\ \A d \in Subs \ {c} : sentBy'[d] = sentBy[d]
  BY <1>0
<1>5. Input(c)'
  BY <1>0, <1>3, <1>4 DEF Input
<1> QED BY <1>0, <1>1, <1>4, <1>5, OthersInput

LEMMA ReceiveInput == ASSUME InputInv, Shapes', NEW c \in Subs, Receive(c) PROVE InputInv'
<1>0. /\ UNCHANGED <<script, typed, stdio, pipe, line, sentBy>> /\ stage[c] = "sock"
      /\ stage \in [Subs -> {"select", "send", "sock", "ended"}]
  BY DEF Receive, InputInv, Shapes, SubscriberShapes, input
<1>1. stage'[c] \in {"select", "ended"} /\ \A d \in Subs \ {c} : stage'[d] = stage[d]
  BY <1>0 DEF Receive, Goto, HangUp
<1>2. InputOf(script[c], typed[c], stdio[c], pipe[c], line[c], "sock", sentBy[c])
  BY <1>0 DEF InputInv, Input
<1>3. InputOf(script[c], typed[c], stdio[c], pipe[c], line[c], stage'[c], sentBy[c])
  BY <1>1, <1>2, IdleInput
<1> QED BY <1>0, <1>1, <1>3, OthersInput DEF Input

LEMMA NextInput == InputInv /\ [Next]_vars => InputInv'
<1> SUFFICES ASSUME InputInv, [Next]_vars, Shapes' PROVE InputInv'
  BY NextShapes DEF InputInv
<1>1. CASE \E c \in Subs : Type(c) \/ Select(c) \/ Send(c) \/ Receive(c)
  BY <1>1, TypeInput, SelectInput, SendInput, ReceiveInput
<1>2. CASE \/ SendDatagram \/ Poll \/ PollExit \/ SendNext \/ SendFails \/ EndRound
           \/ \E c \in Subs : Scan(c) \/ HandleFrame(c)
           \/ UNCHANGED vars
  <2>1. UNCHANGED <<script, typed, pipe, stdio, line, stage, sentBy>>
    BY <1>2 DEF SendDatagram, Poll, PollExit, Round, SendNext, SendFails, EndRound, Scan, HandleFrame, vars,
                subscribers, input
  <2> QED BY <2>1 DEF InputInv, Input
<1> QED BY <1>1, <1>2 DEF Next, ServerNext, SubscriberNext

LEMMA SentAsTyped ==
    ASSUME NEW s, IsScript(s), NEW t \in 0 .. Len(s), NEW a, NEW b, NEW l,
           NEW st \in {"select", "send", "sock", "ended"}, NEW sent \in Seq(Ops), InputOf(s, t, a, b, l, st, sent), st = "send" => Frame(l) \in Ops
    PROVE  \/ IsPrefix(sent, Given(s, t))
           \/ EofAt(s, t) /\ IsPrefix(Given(s, t), sent)
<1>0. /\ Len(s) \in Nat /\ AvailableAt(s, t) \in 0 .. Len(s) /\ AvailableAt(s, t) <= t
      /\ s \in Seq(Typable)
  BY AvailableBounds DEF IsScript
<1>1. PICK n \in 0 .. t : n = AvailableAt(s, t)
  BY <1>0
<1>2. PICK k \in 0 .. n : TakenOf(s, t, a, b, l, st, sent, k)
  BY <1>1 DEF InputOf
<1>3. Given(s, k) \in Seq(Ops) /\ Given(s, t) \in Seq(Ops)
  BY <1>0, GivenType
<1>4. PICK G \in Seq(Ops), H \in Seq(Ops) : G = Given(s, k) /\ H = Given(s, t)
  BY <1>3
<1>5. /\ Len(G) <= Len(H)
      /\ \A i \in 1 .. Len(G) : G[i] = H[i]
  BY <1>0, <1>4, k \in 0 .. t, GivenPrefix
<1>6. PICK D \in Seq(Ops) : D = DoneOf(st, l, sent)
  BY AppendProperties DEF DoneOf
<1>7. Matches(D, G, s[k], More(s, t, k))
  BY <1>2, <1>4, <1>6 DEF TakenOf
<1>8. /\ Len(sent) \in Nat /\ Len(D) \in Nat /\ Len(G) \in Nat /\ Len(H) \in Nat
      /\ Len(sent) <= Len(D) /\ \A i \in 1 .. Len(sent) : D[i] = sent[i]
  BY <1>6, LenProperties, AppendProperties DEF DoneOf
<1>9. CASE Len(sent) <= Len(G)
  <2>1. \A i \in 1 .. Len(sent) : sent[i] = H[i]
    BY <1>5, <1>7, <1>8, <1>9, SMTT(30) DEF Matches
  <2>2. Len(sent) <= Len(H)
    BY <1>5, <1>8, <1>9
  <2>3. IsPrefix(sent, H)
    BY <2>1, <2>2, PrefixByElement
  <2> QED BY <1>4, <2>3
<1>10. CASE ~(Len(sent) <= Len(G))
  <2>1. More(s, t, k)
    BY <1>7, <1>8, <1>10 DEF Matches
  <2>2. EofAt(s, t) /\ k = t - 1 /\ t > 1 /\ s[t] = "eof"
    BY <2>1, <1>0 DEF More, EofAt, AvailableAt
  <2>3. Given(s, (t - 1) + 1) = Given(s, t - 1)
    <3>1. t - 1 \in 0 .. Len(s) - 1 /\ (t - 1) + 1 = t
      BY <1>0, <2>2
    <3>2. s[(t - 1) + 1] \notin Sendable
      BY <2>2, <3>1 DEF Sendable
    <3> QED BY <1>0, <3>1, <3>2, GivenGrows
  <2>4. H = G
    BY <1>4, <2>2, <2>3, (t - 1) + 1 = t
  <2>5. IsPrefix(G, sent)
    <3>1. Len(G) <= Len(sent) /\ \A i \in 1 .. Len(G) : G[i] = sent[i]
      BY <1>7, <1>8, <1>10 DEF Matches
    <3> QED BY <3>1, PrefixByElement
  <2> QED BY <1>4, <2>2, <2>4, <2>5
<1> QED BY <1>9, <1>10

LEMMA InputCommands == InputInv => CommandsAsTyped
<1> SUFFICES ASSUME InputInv, NEW c \in Subs
             PROVE  LET commands == Commands(SubSeq(script[c], 1, typed[c]))
                    IN  \/ IsPrefix(sentBy[c], commands)
                        \/ Eof(c) /\ IsPrefix(commands, sentBy[c])
  BY DEF CommandsAsTyped
<1>1. /\ IsScript(script[c]) /\ typed[c] \in 0 .. Len(script[c]) /\ sentBy[c] \in Seq(Ops)
      /\ Len(script[c]) \in Nat
      /\ Eof(c) <=> EofAt(script[c], typed[c])
  BY InputTypes DEF InputInv
<1>2. /\ stage[c] \in {"select", "send", "sock", "ended"} /\ (stage[c] = "send" => Frame(line[c]) \in Ops)
      /\ InputOf(script[c], typed[c], stdio[c], pipe[c], line[c], stage[c], sentBy[c])
  <2>1. /\ stage[c] \in {"select", "send", "sock", "ended"}
        /\ stage[c] = "send" => line[c] \in {"sub", "unsub", "short"}
    BY DEF InputInv, Shapes, SubscriberShapes
  <2>2. stage[c] = "send" => Frame(line[c]) \in Ops
    BY <2>1, FrameOp
  <2> QED BY <2>1, <2>2 DEF InputInv, Input
<1> DEFINE s == script[c]
           t == typed[c]
           sent == sentBy[c]
<1>3. \/ IsPrefix(sent, Given(s, t))
      \/ EofAt(s, t) /\ IsPrefix(Given(s, t), sent)
  <2>1. PICK st \in {"select", "send", "sock", "ended"} : st = stage[c]
    BY <1>2
  <2>2. InputOf(s, t, stdio[c], pipe[c], line[c], st, sent) /\ (st = "send" => Frame(line[c]) \in Ops)
    BY <1>2, <2>1
  <2>3. IsScript(s) /\ t \in 0 .. Len(s) /\ sent \in Seq(Ops)
    BY <1>1
  <2> HIDE DEF s, t, sent
  <2> QED BY <2>2, <2>3, SentAsTyped, ZenonT(40)
<1>4. Commands(SubSeq(s, 1, t)) = Given(s, t)
  BY DEF Given
<1> QED BY <1>1, <1>3, <1>4, Zenon

(* subscriber.c 249-281, fgets and select: the commands a subscriber has   *)
(* sent are those among the lines typed, in that order, each once, and     *)
(* nothing else before stdin ends.                                         *)
THEOREM CommandsGoAsTyped == Spec => []CommandsAsTyped
<1>1. Spec => []InputInv
  BY InitInput, NextInput, PTL DEF Spec
<1> QED BY <1>1, InputCommands, PTL

-----------------------------------------------------------------------------
(* Subscribers that behave *)

Words == {"sub", "unsub", "exit", "short", "other", "eof", "bogus"}
Fatal == {"bogus", "short", "eof"}

(* What a word does to the number of entries its client has.               *)
Effect(x) == IF x = "sub" THEN 1 ELSE IF x = "unsub" THEN -1 ELSE 0

(* f counts the entries while the words of q are carried out.              *)
Follows(f, q) == \A i \in 1 .. Len(q) : q[i] \notin Fatal /\ f[i] = f[i - 1] + Effect(q[i])

(* From a entries the words of q lead to b, and never below none.          *)
Walks(q, a, b) ==
    \E f \in [0 .. Len(q) -> Nat] : f[0] = a /\ f[Len(q)] = b /\ Follows(f, q)

LEMMA EffectInt == \A x : Effect(x) \in Int
  BY DEF Effect

LEMMA WalkNone == \A a \in Nat : Walks(<< >>, a, a)
<1> SUFFICES ASSUME NEW a \in Nat PROVE Walks(<< >>, a, a)
  OBVIOUS
<1> DEFINE f == [i \in 0 .. 0 |-> a]
<1>1. f \in [0 .. Len(<< >>) -> Nat] /\ f[0] = a /\ f[Len(<< >>)] = a /\ Follows(f, << >>)
  BY DEF Follows
<1> HIDE DEF f
<1> QED BY <1>1 DEF Walks

LEMMA WalkHead ==
    ASSUME NEW q \in Seq(Words), q # << >>, NEW a \in Nat, NEW b \in Nat, Walks(q, a, b)
    PROVE  /\ Head(q) \notin Fatal /\ a + Effect(Head(q)) \in Nat
           /\ Walks(Tail(q), a + Effect(Head(q)), b)
<1>1. PICK f \in [0 .. Len(q) -> Nat] : f[0] = a /\ f[Len(q)] = b /\ Follows(f, q)
  BY DEF Walks
<1>2. PICK N \in Nat : N + 1 = Len(q)
  <2>1. Len(q) \in Nat /\ Len(q) # 0
    BY LenProperties, EmptySeq
  <2> QED BY <2>1, Len(q) - 1 \in Nat
<1>3. PICK r \in Seq(Words) : r = Tail(q) /\ Len(r) = N /\ \A i \in 1 .. N : r[i] = q[i + 1]
  <2>1. /\ Tail(q) \in Seq(Words) /\ Len(Tail(q)) = Len(q) - 1
        /\ \A i \in 1 .. Len(q) - 1 : Tail(q)[i] = q[i + 1]
    BY HeadTailProperties
  <2> QED BY <1>2, <2>1
<1>4. Head(q) = q[1] /\ 1 \in 1 .. Len(q) /\ 1 \in 0 .. Len(q)
  BY <1>2
<1>5. q[1] \notin Fatal /\ f[1] = a + Effect(q[1]) /\ f[1] \in Nat
  BY <1>1, <1>4 DEF Follows
<1> DEFINE g == [i \in 0 .. N |-> f[i + 1]]
<1>6. g \in [0 .. N -> Nat] /\ g[0] = f[1] /\ g[N] = b
  BY <1>1, <1>2
<1>7. ASSUME NEW i \in 1 .. N PROVE r[i] \notin Fatal /\ g[i] = g[i - 1] + Effect(r[i])
  <2>1. i + 1 \in 1 .. Len(q) /\ (i + 1) - 1 = i /\ i - 1 \in 0 .. N /\ (i - 1) + 1 = i
    BY <1>2
  <2>2. q[i + 1] \notin Fatal /\ f[i + 1] = f[i] + Effect(q[i + 1])
    BY <1>1, <2>1 DEF Follows
  <2>3. g[i] = f[i + 1] /\ g[i - 1] = f[i]
    BY <2>1
  <2> QED BY <1>3, <2>2, <2>3
<1> HIDE DEF g
<1>8. Walks(r, f[1], b)
  BY <1>3, <1>6, <1>7 DEF Walks, Follows
<1> QED BY <1>3, <1>4, <1>5, <1>8

LEMMA WalkAppend ==
    ASSUME NEW q \in Seq(Words), NEW a \in Nat, NEW m \in Nat, Walks(q, a, m),
           NEW x \in Words, x \notin Fatal, NEW n \in Nat, n = m + Effect(x)
    PROVE  Walks(Append(q, x), a, n)
<1>1. PICK f \in [0 .. Len(q) -> Nat] : f[0] = a /\ f[Len(q)] = m /\ Follows(f, q)
  BY DEF Walks
<1>2. PICK N \in Nat : N = Len(q)
  BY LenProperties
<1>3. PICK r \in Seq(Words) : /\ r = Append(q, x) /\ Len(r) = N + 1 /\ r[N + 1] = x
                              /\ \A i \in 1 .. N : r[i] = q[i]
  BY <1>2, AppendProperties
<1> DEFINE g == [i \in 0 .. N + 1 |-> IF i <= N THEN f[i] ELSE n]
<1>4. g \in [0 .. N + 1 -> Nat] /\ g[0] = a /\ g[N + 1] = n /\ g[N] = m
  BY <1>1, <1>2
<1>5. ASSUME NEW i \in 1 .. N + 1 PROVE r[i] \notin Fatal /\ g[i] = g[i - 1] + Effect(r[i])
  <2>1. CASE i = N + 1
    <3>1. i - 1 = N
      BY <2>1
    <3> QED BY <1>3, <1>4, <2>1, <3>1
  <2>2. CASE i # N + 1
    <3>1. i \in 1 .. N /\ i - 1 \in 0 .. N
      BY <2>2
    <3>2. g[i] = f[i] /\ g[i - 1] = f[i - 1]
      BY <3>1
    <3>3. q[i] \notin Fatal /\ f[i] = f[i - 1] + Effect(q[i])
      BY <1>1, <1>2, <3>1 DEF Follows
    <3> QED BY <1>3, <3>1, <3>2, <3>3
  <2> QED BY <2>1, <2>2
<1> HIDE DEF g
<1>6. Walks(r, a, n)
  BY <1>3, <1>4, <1>5, ZenonT(40) DEF Walks, Follows
<1> QED BY <1>3, <1>6

(* The lines of one who behaves can be carried out from no entry on.       *)
CountIn(s, l, n) == Cardinality({k \in 1 .. n : s[k] = l})

LEMMA CountInStep ==
    ASSUME NEW s, NEW l, NEW n \in Nat
    PROVE  /\ CountIn(s, l, n) \in Nat /\ CountIn(s, l, 0) = 0
           /\ CountIn(s, l, n + 1) = IF s[n + 1] = l THEN CountIn(s, l, n) + 1 ELSE CountIn(s, l, n)
<1> DEFINE K(m) == {k \in 1 .. m : s[k] = l}
<1>1. IsFiniteSet(K(n)) /\ K(0) = {}
  <2>1. IsFiniteSet(1 .. n)
    <3>1. 1 \in Int /\ n \in Int
      OBVIOUS
    <3> QED BY <3>1, FS_Interval
  <2> QED BY <2>1, FS_Subset
<1>2. K(n + 1) = IF s[n + 1] = l THEN K(n) \cup {n + 1} ELSE K(n)
  OBVIOUS
<1>3. n + 1 \notin K(n)
  OBVIOUS
<1> HIDE DEF K
<1>4. Cardinality(K(n) \cup {n + 1}) = Cardinality(K(n)) + 1
  BY <1>1, <1>3, FS_AddElement
<1>5. /\ Cardinality(K(n)) \in Nat /\ Cardinality(K(0)) = 0
      /\ Cardinality(K(n + 1)) = IF s[n + 1] = l THEN Cardinality(K(n)) + 1 ELSE Cardinality(K(n))
  BY <1>1, <1>2, <1>4, FS_CardinalityType, FS_EmptySet
<1> QED BY <1>5 DEF K, CountIn

LEMMA WalkFromNone ==
    ASSUME NEW s \in Seq(Words),
           \A n \in 1 .. Len(s) : s[n] \notin Fatal /\ CountIn(s, "unsub", n) <= CountIn(s, "sub", n)
    PROVE  \E b \in Nat : Walks(s, 0, b)
<1>1. PICK N \in Nat : N = Len(s)
  BY LenProperties
<1> DEFINE f == [n \in 0 .. N |-> CountIn(s, "sub", n) - CountIn(s, "unsub", n)]
<1>2. ASSUME NEW n \in 0 .. N PROVE f[n] \in Nat /\ f[0] = 0
  <2>1. /\ CountIn(s, "sub", n) \in Nat /\ CountIn(s, "unsub", n) \in Nat
        /\ CountIn(s, "sub", 0) = 0 /\ CountIn(s, "unsub", 0) = 0
    BY CountInStep, n \in Nat
  <2>2. n # 0 => CountIn(s, "unsub", n) <= CountIn(s, "sub", n)
    BY <1>1
  <2> QED BY <2>1, <2>2
<1>3. ASSUME NEW i \in 1 .. N PROVE s[i] \notin Fatal /\ f[i] = f[i - 1] + Effect(s[i])
  <2>1. PICK n \in 0 .. N : n + 1 = i /\ n = i - 1 /\ n \in Nat
    BY i - 1 \in 0 .. N
  <2>2. \A l : /\ CountIn(s, l, n) \in Nat
               /\ CountIn(s, l, n + 1) = IF s[n + 1] = l THEN CountIn(s, l, n) + 1 ELSE CountIn(s, l, n)
    BY <2>1, CountInStep
  <2>3. f[i] = CountIn(s, "sub", n + 1) - CountIn(s, "unsub", n + 1)
        /\ f[n] = CountIn(s, "sub", n) - CountIn(s, "unsub", n)
    BY <2>1
  <2>4. f[i] = f[n] + Effect(s[n + 1])
    <3>1. /\ CountIn(s, "sub", n) \in Nat /\ CountIn(s, "unsub", n) \in Nat
          /\ CountIn(s, "sub", n + 1) = IF s[n + 1] = "sub" THEN CountIn(s, "sub", n) + 1
                                        ELSE CountIn(s, "sub", n)
          /\ CountIn(s, "unsub", n + 1) = IF s[n + 1] = "unsub" THEN CountIn(s, "unsub", n) + 1
                                          ELSE CountIn(s, "unsub", n)
      BY <2>2
    <3> HIDE DEF f
    <3> QED BY <2>3, <3>1 DEF Effect
  <2> QED BY <1>1, <2>1, <2>4
<1>4. f \in [0 .. N -> Nat] /\ f[0] = 0 /\ f[N] \in Nat
  BY <1>2
<1> HIDE DEF f
<1>5. Walks(s, 0, f[N])
  BY <1>1, <1>3, <1>4 DEF Walks, Follows
<1> QED BY <1>4, <1>5

(* The words of q, then those of r, can be carried out from a entries on.  *)
Provided(q, r, a) == \E m \in Nat : Walks(q, a, m) /\ \E b \in Nat : Walks(r, m, b)

LEMMA ProvidedTake ==
    ASSUME NEW q \in Seq(Words), NEW r, NEW a \in Nat, q # << >>, Provided(q, r, a)
    PROVE  /\ Head(q) \notin Fatal /\ a + Effect(Head(q)) \in Nat
           /\ Provided(Tail(q), r, a + Effect(Head(q)))
<1>1. PICK m \in Nat : Walks(q, a, m) /\ \E b \in Nat : Walks(r, m, b)
  BY DEF Provided
<1> QED BY <1>1, WalkHead DEF Provided

LEMMA ProvidedMove ==
    ASSUME NEW q \in Seq(Words), NEW r \in Seq(Words), NEW a \in Nat, r # << >>, Provided(q, r, a)
    PROVE  /\ Head(r) \in Words \ Fatal
           /\ Provided(Append(q, Head(r)), Tail(r), a)
           /\ Effect(Head(r)) = 0 => Provided(q, Tail(r), a)
<1>1. PICK m \in Nat, b \in Nat : Walks(q, a, m) /\ Walks(r, m, b)
  BY DEF Provided
<1>2. PICK h \in Words : h = Head(r)
  BY HeadTailProperties
<1>3. h \notin Fatal /\ m + Effect(h) \in Nat /\ Walks(Tail(r), m + Effect(h), b)
  BY <1>1, <1>2, WalkHead
<1>4. PICK n \in Nat : n = m + Effect(h)
  BY <1>3
<1>5. Walks(Append(q, h), a, n) /\ Walks(Tail(r), n, b)
  BY <1>1, <1>3, <1>4, WalkAppend
<1>6. Effect(h) = 0 => n = m
  BY <1>4
<1> QED BY <1>1, <1>2, <1>3, <1>5, <1>6 DEF Provided

(* The first element of three sequences, one behind the other.             *)
Firsts(a, b, c) ==
    /\ a # << >> => /\ (a \o b) \o c # << >> /\ Head((a \o b) \o c) = Head(a)
                    /\ Tail((a \o b) \o c) = (Tail(a) \o b) \o c
    /\ a = << >> /\ b # << >> => /\ (a \o b) \o c # << >> /\ Head((a \o b) \o c) = Head(b)
                                 /\ Tail((a \o b) \o c) = (Tail(b) \o << >>) \o c

LEMMA TakeFirst ==
    \A S : \A a, b, c \in Seq(S) : (a \o b) \o c \in Seq(S) /\ Firsts(a, b, c)
<1> SUFFICES ASSUME NEW S, NEW a \in Seq(S), NEW b \in Seq(S), NEW c \in Seq(S)
             PROVE  (a \o b) \o c \in Seq(S) /\ Firsts(a, b, c)
  OBVIOUS
<1>1. ASSUME NEW x \in Seq(S), NEW y \in Seq(S), x # << >>
      PROVE  x \o y # << >> /\ Head(x \o y) = Head(x) /\ Tail(x \o y) = Tail(x) \o y
  <2>1. PICK h \in S, t \in Seq(S) : h = Head(x) /\ t = Tail(x) /\ x = <<h>> \o t
    <3>1. Head(x) \in S /\ Tail(x) \in Seq(S) /\ x = <<Head(x)>> \o Tail(x)
      BY <1>1, HeadTailProperties
    <3> QED BY <3>1
  <2>2. <<h>> \in Seq(S)
    OBVIOUS
  <2>3. x \o y = <<h>> \o (t \o y)
    <3>1. (<<h>> \o t) \o y = <<h>> \o (t \o y)
      BY <2>2, ConcatAssociative, SMTT(30)
    <3> QED BY <2>1, <3>1
  <2>4. t \o y \in Seq(S)
    BY ConcatProperties
  <2>5. PICK z \in Seq(S) : z = t \o y
    BY <2>4
  <2>6. /\ <<h>> \o z # << >> /\ Head(<<h>> \o z) = h /\ Tail(<<h>> \o z) = z
    OBVIOUS
  <2> QED BY <2>1, <2>3, <2>5, <2>6
<1>2. a \o b \in Seq(S) /\ (a \o b) \o c \in Seq(S)
  <2>1. a \o b \in Seq(S)
    BY ConcatProperties
  <2> QED BY <2>1, ConcatProperties
<1>3. CASE a # << >>
  <2>1. a \o b # << >> /\ Head(a \o b) = Head(a) /\ Tail(a \o b) = Tail(a) \o b
    BY <1>1, <1>3
  <2>2. /\ (a \o b) \o c # << >> /\ Head((a \o b) \o c) = Head(a \o b)
        /\ Tail((a \o b) \o c) = Tail(a \o b) \o c
    BY <1>1, <1>2, <2>1
  <2> QED BY <1>2, <1>3, <2>1, <2>2 DEF Firsts
<1>4. CASE a = << >> /\ b # << >>
  <2>1. a \o b = b /\ Tail(b) \in Seq(S)
    BY <1>4, ConcatEmptySeq, HeadTailProperties
  <2>2. b \o c # << >> /\ Head(b \o c) = Head(b) /\ Tail(b \o c) = Tail(b) \o c
    BY <1>1, <1>4
  <2>3. Tail(b) \o << >> = Tail(b)
    BY <2>1, ConcatEmptySeq
  <2> QED BY <1>2, <1>4, <2>1, <2>2, <2>3 DEF Firsts
<1>5. CASE a = << >> /\ b = << >>
  BY <1>2, <1>5 DEF Firsts
<1> QED BY <1>3, <1>4, <1>5

(* What the server is still to hear of c: of what was sent or is being     *)
(* sent, and of what is still to be taken from stdin.                      *)
InHand(c) == IF c \in cur THEN buf ELSE << >>
Pending(c) == IF stage[c] = "send" THEN <<Frame(line[c])>> ELSE << >>
Sent(c) == (InHand(c) \o toServer[c]) \o Pending(c)
Rest(c) == SubSeq(script[c], typed[c] + 1, Len(script[c]))
ToCome(c) == (stdio[c] \o pipe[c]) \o Rest(c)

Good(c) ==
    IF Ended(c) THEN line[c] = "exit"
    ELSE /\ c \in clients /\ (c \in hot => toServer[c] # << >>)
         /\ Provided(Sent(c), ToCome(c), subs[c])

GoodInv == Shapes /\ \A c \in Subs : WellBehaved(c) /\ Up => Good(c)

LEMMA GoodTypes ==
    ASSUME Shapes, NEW c \in Subs
    PROVE  /\ InHand(c) \in Seq(Words) /\ toServer[c] \in Seq(Words)
           /\ stage[c] = "send" => Frame(line[c]) \in Words
           /\ stdio[c] \in Seq(Words) /\ pipe[c] \in Seq(Words)
           /\ script[c] \in Seq(Words) /\ typed[c] \in 0 .. Len(script[c]) /\ Len(script[c]) \in Nat
           /\ subs[c] \in Nat
<1>1. Seq(Ops) \subseteq Seq(Words) /\ Seq(Lines) \subseteq Seq(Words)
      /\ Seq(Typable) \subseteq Seq(Words) /\ Ops \subseteq Words
  BY DEF Ops, Lines, Typable, Words
<1>2. InHand(c) \in Seq(Ops) /\ toServer[c] \in Seq(Ops) /\ subs[c] \in Nat
  BY EmptySeq DEF Shapes, ServerShapes, ConnectionShapes, InHand
<1>3. stage[c] = "send" => Frame(line[c]) \in Ops
  BY FrameOp DEF Shapes, SubscriberShapes
<1>4. /\ script[c] \in Seq(Typable) /\ typed[c] \in 0 .. Len(script[c]) /\ Len(script[c]) \in Nat
      /\ stdio[c] \in Seq(Lines) /\ pipe[c] \in Seq(Lines)
  BY InputTypes DEF IsScript
<1> QED BY <1>1, <1>2, <1>3, <1>4

LEMMA GoodSequences ==
    ASSUME Shapes, NEW c \in Subs
    PROVE  /\ Pending(c) \in Seq(Words) /\ Rest(c) \in Seq(Words)
           /\ Sent(c) \in Seq(Words) /\ ToCome(c) \in Seq(Words)
<1>1. Pending(c) \in Seq(Words)
  <2>1. CASE stage[c] = "send"
    <3>1. PICK f \in Words : f = Frame(line[c])
      BY <2>1, GoodTypes
    <3>2. <<f>> \in Seq(Words)
      OBVIOUS
    <3> QED BY <2>1, <3>1, <3>2 DEF Pending
  <2>2. CASE stage[c] # "send"
    BY <2>2, EmptySeq DEF Pending
  <2> QED BY <2>1, <2>2
<1>2. Rest(c) \in Seq(Words)
  <2>1. PICK s \in Seq(Words) : s = script[c]
    BY GoodTypes
  <2>2. PICK t \in 0 .. Len(s) : t = typed[c]
    BY <2>1, GoodTypes
  <2>3. Len(s) \in Nat /\ \A i \in t + 1 .. Len(s) : s[i] \in Words
    BY LenProperties
  <2>4. SubSeq(s, t + 1, Len(s)) \in Seq(Words)
    BY <2>3, t + 1 \in Int, SubSeqProperties
  <2> QED BY <2>1, <2>2, <2>4 DEF Rest
<1>3. Sent(c) \in Seq(Words)
  BY <1>1, GoodTypes, TakeFirst DEF Sent
<1>4. ToCome(c) \in Seq(Words)
  BY <1>2, GoodTypes, TakeFirst DEF ToCome
<1> QED BY <1>1, <1>2, <1>3, <1>4

Moves(a, b, r, f) ==
    /\ (a \o b) \o (<<f>> \o r) = (a \o Append(b, f)) \o r
    /\ (a \o b) \o <<f>> = (a \o Append(b, f)) \o << >>
    /\ (a \o b) \o <<f>> = Append((a \o b) \o << >>, f)

LEMMA MoveOn ==
    \A S : \A a, b, r \in Seq(S), f \in S : Moves(a, b, r, f)
<1> SUFFICES ASSUME NEW S, NEW a \in Seq(S), NEW b \in Seq(S), NEW r \in Seq(S), NEW f \in S
             PROVE  Moves(a, b, r, f)
  OBVIOUS
<1>1. ASSUME NEW q \in Seq(S) PROVE (a \o b) \o (<<f>> \o q) = (a \o Append(b, f)) \o q
  <2>1. PICK v \in Seq(S) : v = (a \o b) \o (<<f>> \o q)
    <3>1. <<f>> \in Seq(S)
      OBVIOUS
    <3>2. <<f>> \o q \in Seq(S)
      BY <3>1, ConcatProperties
    <3>3. (a \o b) \o (<<f>> \o q) \in Seq(S)
      BY <3>2, TakeFirst
    <3> QED BY <3>3
  <2>2. AllShown(a, b, <<f>> \o q, v)
    BY <2>1 DEF AllShown
  <2>3. AllShown(a, Append(b, f), q, v)
    BY <2>2, FramesMove
  <2> QED BY <2>1, <2>3 DEF AllShown
<1>2. << >> \in Seq(S) /\ <<f>> \o << >> = <<f>>
  OBVIOUS
<1>3. a \o b \in Seq(S)
  BY ConcatProperties
<1>4. PICK w \in Seq(S) : w = a \o b
  BY <1>3
<1>5. w \o <<f>> = Append(w, f) /\ w \o << >> = w
  BY AppendIsConcat, ConcatEmptySeq
<1>6. (a \o b) \o <<f>> = Append((a \o b) \o << >>, f)
  BY <1>4, <1>5
<1>7. (a \o b) \o (<<f>> \o << >>) = (a \o Append(b, f)) \o << >>
  BY <1>1, <1>2
<1> QED BY <1>1, <1>2, <1>6, <1>7 DEF Moves

(* What another does changes nothing for c.                                *)
LEMMA SameGood ==
    ASSUME NEW c \in Subs, Good(c),
           /\ line'[c] = line[c] /\ stage'[c] = stage[c] /\ toServer'[c] = toServer[c]
           /\ stdio'[c] = stdio[c] /\ pipe'[c] = pipe[c] /\ typed'[c] = typed[c]
           /\ script'[c] = script[c] /\ subs'[c] = subs[c]
           /\ InHand(c)' = InHand(c),
           ~Ended(c) /\ c \in clients => c \in clients' /\ (c \in hot' => c \in hot \/ toServer[c] # << >>)
    PROVE  Good(c)'
<1>1. Ended(c)' <=> Ended(c)
  BY DEF Ended
<1>2. Sent(c)' = Sent(c)
  BY DEF Sent, Pending
<1>3. ToCome(c)' = ToCome(c)
  BY DEF ToCome, Rest
<1> QED BY <1>1, <1>2, <1>3 DEF Good

LEMMA BehavedLines ==
    ASSUME NEW c \in Subs, WellBehaved(c), NEW n \in 1 .. Len(script[c])
    PROVE  /\ script[c][n] \notin {"short", "eof"}
           /\ CountIn(script[c], "unsub", n) <= CountIn(script[c], "sub", n)
  BY DEF WellBehaved, CountIn

LEMMA TypeGood ==
    ASSUME Shapes, NEW c \in Subs, WellBehaved(c), Good(c), Type(c)
    PROVE  Good(c)'
<1>0. /\ UNCHANGED <<line, stage, toServer, stdio, script, subs, clients, hot, cur, buf>>
      /\ typed[c] < Len(script[c])
  BY DEF Type, server, channels
<1>1. PICK s \in Seq(Words) : s = script[c] /\ Len(s) \in Nat
  BY GoodTypes
<1>2. PICK t \in 0 .. Len(s) - 1 : t = typed[c] /\ t + 1 \in 1 .. Len(s)
  BY <1>0, <1>1, GoodTypes, SMTT(30)
<1>3. PICK x \in Words : x = s[t + 1] /\ x # "eof"
  <2>1. s[t + 1] \in Words
    BY <1>2
  <2>2. script[c][t + 1] # "eof"
    BY <1>1, <1>2, BehavedLines
  <2> QED BY <1>1, <2>1, <2>2
<1>4. typed'[c] = t + 1 /\ pipe'[c] = Append(pipe[c], x)
  <2>1. /\ typed' = [typed EXCEPT ![c] = typed[c] + 1]
        /\ pipe' = IF script[c][typed[c] + 1] = "eof" THEN pipe
                   ELSE [pipe EXCEPT ![c] = Append(pipe[c], script[c][typed[c] + 1])]
        /\ typed \in [Subs -> Nat] /\ pipe \in [Subs -> Seq(Lines)]
    BY DEF Type, Shapes, SubscriberShapes
  <2>2. script[c][typed[c] + 1] = x
    BY <1>1, <1>2, <1>3
  <2> QED BY <1>2, <1>3, <2>1, <2>2
<1>5. PICK r \in Seq(Words) : r = SubSeq(s, t + 2, Len(s))
  <2>1. t + 2 \in Int /\ \A i \in t + 2 .. Len(s) : s[i] \in Words
    BY <1>1
  <2>2. SubSeq(s, t + 2, Len(s)) \in Seq(Words)
    BY <1>1, <2>1, SubSeqProperties
  <2> QED BY <2>2
<1>6. Rest(c) = <<x>> \o r
  <2>1. t + 1 \in 1 .. Len(s) /\ Len(s) \in t + 1 .. Len(s) /\ (t + 1) + 1 = t + 2
    BY <1>1, <1>2
  <2>2. SubSeq(s, t + 1, Len(s)) = <<s[t + 1]>> \o SubSeq(s, (t + 1) + 1, Len(s))
    BY <2>1, SubSeqRecursiveFirst
  <2> QED BY <1>1, <1>2, <1>3, <1>5, <2>1, <2>2 DEF Rest
<1>7. Rest(c)' = r
  <2>1. (t + 1) + 1 = t + 2
    BY <1>2
  <2> QED BY <1>0, <1>1, <1>4, <1>5, <2>1 DEF Rest
<1>8. ToCome(c)' = ToCome(c)
  <2>1. (stdio[c] \o pipe[c]) \o (<<x>> \o r) = (stdio[c] \o Append(pipe[c], x)) \o r
    <3>1. stdio[c] \in Seq(Words) /\ pipe[c] \in Seq(Words)
      BY GoodTypes
    <3>2. Moves(stdio[c], pipe[c], r, x)
      BY <3>1, MoveOn, Zenon
    <3> QED BY <3>2, Zenon DEF Moves
  <2> QED BY <1>0, <1>4, <1>6, <1>7, <2>1 DEF ToCome
<1>9. Sent(c)' = Sent(c)
  BY <1>0 DEF Sent, InHand, Pending
<1> QED BY <1>0, <1>8, <1>9 DEF Good, Ended

(* A line is taken, and is "exit", or nothing, or goes to the server.      *)
LEMMA LineGood ==
    ASSUME Shapes, NEW c \in Subs, Good(c), stage[c] = "select",
           UNCHANGED <<toServer, subs, clients, hot, cur, buf>>,
           ToCome(c) # << >>, line'[c] = Head(ToCome(c)), ToCome(c)' = Tail(ToCome(c)),
           stage'[c] = After(line'[c])
    PROVE  Good(c)'
<1>0. PICK q \in Seq(Words), r \in Seq(Words), h \in Words, a \in Nat :
         /\ q = Sent(c) /\ r = ToCome(c) /\ r # << >> /\ h = Head(r) /\ a = subs[c]
  BY GoodSequences, GoodTypes, HeadTailProperties
<1>1. /\ c \in clients /\ (c \in hot => toServer[c] # << >>) /\ Provided(q, r, a)
  BY <1>0 DEF Good, Ended
<1>2. h \notin Fatal /\ Provided(Append(q, h), Tail(r), a)
      /\ (Effect(h) = 0 => Provided(q, Tail(r), a))
  BY <1>0, <1>1, ProvidedMove
<1>3. line'[c] = h /\ ToCome(c)' = Tail(r) /\ stage'[c] = After(h)
  BY <1>0
<1>4. q = (InHand(c) \o toServer[c]) \o << >>
  BY <1>0 DEF Sent, Pending
<1>5. CASE h = "exit"
  BY <1>3, <1>5 DEF Good, Ended, After
<1>6. CASE h = "other"
  <2>1. After(h) = "sock" /\ Effect(h) = 0
    BY <1>6 DEF After, Effect
  <2>2. Sent(c)' = q
    BY <1>3, <1>4, <2>1 DEF Sent, InHand, Pending
  <2> QED BY <1>0, <1>1, <1>2, <1>3, <2>1, <2>2 DEF Good, Ended
<1>7. CASE h \in {"sub", "unsub"}
  <2>1. After(h) = "send" /\ Frame(h) = h
    BY <1>7 DEF After, Frame
  <2>2. (InHand(c) \o toServer[c]) \o <<h>> = Append(q, h)
    <3>1. InHand(c) \in Seq(Words) /\ toServer[c] \in Seq(Words)
      BY GoodTypes
    <3>2. Moves(InHand(c), toServer[c], q, h)
      BY <3>1, MoveOn, Zenon
    <3> QED BY <1>4, <3>2, Zenon DEF Moves
  <2>3. Sent(c)' = Append(q, h)
    BY <1>3, <2>1, <2>2 DEF Sent, InHand, Pending
  <2> QED BY <1>0, <1>1, <1>2, <1>3, <2>1, <2>3 DEF Good, Ended
<1>8. h \in {"sub", "unsub", "exit", "other"}
  BY <1>2 DEF Words, Fatal
<1> QED BY <1>5, <1>6, <1>7, <1>8

LEMMA SelectGood ==
    ASSUME Shapes, NEW c \in Subs, WellBehaved(c), Good(c), Select(c)
    PROVE  Good(c)'
<1>0. /\ UNCHANGED <<toServer, subs, clients, hot, cur, buf, script, typed>> /\ stage[c] = "select"
      /\ stage \in [Subs -> {"select", "send", "sock", "ended"}]
      /\ line \in [Subs -> Lines] /\ stdio \in [Subs -> Seq(Lines)] /\ pipe \in [Subs -> Seq(Lines)]
  BY DEF Select, server, channels, Shapes, SubscriberShapes
<1>1. CASE ~StdinReady(c) /\ Goto(c, "sock") /\ UNCHANGED <<line, stdio, pipe>>
  <2>1. stage'[c] = "sock"
    BY <1>0, <1>1 DEF Goto
  <2>2. Sent(c)' = Sent(c) /\ ToCome(c)' = ToCome(c)
    BY <1>0, <1>1, <2>1 DEF Sent, ToCome, InHand, Pending, Rest
  <2> QED BY <1>0, <2>1, <2>2 DEF Good, Ended
<1>2. CASE StdinReady(c) /\ Gets(c) /\ Goto(c, After(line'[c]))
  <2>0. stage'[c] = After(line'[c]) /\ Rest(c)' = Rest(c)
    BY <1>0, <1>2 DEF Goto, Rest
  <2>1. /\ stdio[c] # << >> =>
              /\ ToCome(c) # << >> /\ Head(ToCome(c)) = Head(stdio[c])
              /\ Tail(ToCome(c)) = (Tail(stdio[c]) \o pipe[c]) \o Rest(c)
        /\ stdio[c] = << >> /\ pipe[c] # << >> =>
              /\ ToCome(c) # << >> /\ Head(ToCome(c)) = Head(pipe[c])
              /\ Tail(ToCome(c)) = (Tail(pipe[c]) \o << >>) \o Rest(c)
    <3>1. stdio[c] \in Seq(Words) /\ pipe[c] \in Seq(Words) /\ Rest(c) \in Seq(Words)
      BY GoodTypes, GoodSequences
    <3>2. Firsts(stdio[c], pipe[c], Rest(c))
      BY <3>1, TakeFirst, Zenon
    <3> QED BY <3>2, Zenon DEF Firsts, ToCome
  <2>2. CASE stdio[c] # << >>
    <3>1. line'[c] = Head(stdio[c]) /\ stdio'[c] = Tail(stdio[c]) /\ pipe'[c] = pipe[c]
      BY <1>0, <1>2, <2>2 DEF Gets, LinesAt
    <3>2. line'[c] = Head(ToCome(c)) /\ ToCome(c)' = Tail(ToCome(c))
      BY <2>0, <2>1, <2>2, <3>1 DEF ToCome
    <3> QED BY <1>0, <2>0, <2>1, <2>2, <3>2, LineGood
  <2>3. CASE stdio[c] = << >> /\ pipe[c] # << >>
    <3>1. line'[c] = Head(pipe[c]) /\ stdio'[c] = Tail(pipe[c]) /\ pipe'[c] = << >>
      BY <1>0, <1>2, <2>3 DEF Gets, LinesAt
    <3>2. line'[c] = Head(ToCome(c)) /\ ToCome(c)' = Tail(ToCome(c))
      BY <2>0, <2>1, <2>3, <3>1 DEF ToCome
    <3> QED BY <1>0, <2>0, <2>1, <2>3, <3>2, LineGood
  <2>4. CASE stdio[c] = << >> /\ pipe[c] = << >>
    <3>1. Eof(c)
      BY <1>2, <2>4 DEF StdinReady
    <3>2. typed[c] \in 1 .. Len(script[c])
      BY <3>1, GoodTypes DEF Eof
    <3> QED BY <3>1, <3>2 DEF Eof, WellBehaved
  <2> QED BY <2>2, <2>3, <2>4
<1> QED BY <1>1, <1>2 DEF Select, After

LEMMA SendGood ==
    ASSUME Shapes, NEW c \in Subs, Up, Good(c), Send(c)
    PROVE  Good(c)'
<1>0. /\ UNCHANGED <<subs, clients, hot, cur, buf, script, typed, stdio, pipe, line>>
      /\ stage[c] = "send"
      /\ stage \in [Subs -> {"select", "send", "sock", "ended"}]
      /\ toServer \in [Subs -> Seq(Ops)]
  BY DEF Send, server, input, Shapes, SubscriberShapes, ConnectionShapes
<1>1. /\ c \in clients /\ Provided(Sent(c), ToCome(c), subs[c])
      /\ InHand(c) \in Seq(Words) /\ toServer[c] \in Seq(Words)
  BY <1>0, GoodTypes DEF Good, Ended
<1>2. PICK f \in Words : f = Frame(line[c])
  BY <1>0, GoodTypes
<1>3. /\ toServer' = [toServer EXCEPT ![c] = Append(toServer[c], f)]
      /\ Goto(c, IF line[c] = "short" THEN "ended" ELSE "sock")
  BY <1>1, <1>2 DEF Send, Closed
<1>4. toServer'[c] = Append(toServer[c], f)
      /\ stage'[c] = (IF line[c] = "short" THEN "ended" ELSE "sock")
  BY <1>0, <1>3 DEF Goto
<1>5. Moves(InHand(c), toServer[c], << >>, f)
  BY <1>1, EmptySeq, MoveOn, Zenon
<1>6. Sent(c) = (InHand(c) \o toServer[c]) \o <<f>>
  BY <1>0, <1>2 DEF Sent, Pending
<1>7. line[c] # "short"
  <2>1. PICK q \in Seq(Words), a \in Nat : q = Sent(c) /\ a = subs[c]
    BY GoodSequences, GoodTypes
  <2>2. PICK w \in Seq(Words) : w = InHand(c) \o toServer[c]
    BY <1>1, ConcatProperties
  <2>3. q = w \o <<f>>
    BY <1>6, <2>1, <2>2
  <2>4. PICK m \in Nat : Walks(q, a, m)
    BY <1>1, <2>1 DEF Provided
  <2>5. q[Len(q)] = f /\ Len(q) \in 1 .. Len(q)
    <3>1. Append(w, f) = w \o <<f>> /\ Len(Append(w, f)) = Len(w) + 1 /\ Append(w, f)[Len(w) + 1] = f
      BY AppendIsConcat, AppendProperties
    <3>2. Len(w) \in Nat
      BY LenProperties
    <3> QED BY <2>3, <3>1, <3>2
  <2>6. f \notin Fatal
    BY <2>4, <2>5 DEF Walks, Follows
  <2> QED BY <1>2, <2>6 DEF Frame, Fatal
<1>8. Sent(c)' = Sent(c)
  <2>1. InHand(c)' = InHand(c) /\ Pending(c)' = << >>
    BY <1>0, <1>4, <1>7 DEF InHand, Pending
  <2>2. Sent(c)' = (InHand(c) \o Append(toServer[c], f)) \o << >>
    BY <1>4, <2>1, Zenon DEF Sent
  <2> QED BY <1>5, <1>6, <2>2, Zenon DEF Moves
<1>9. ToCome(c)' = ToCome(c)
  BY <1>0 DEF ToCome, Rest
<1>10. toServer'[c] # << >>
  BY <1>1, <1>4, AppendProperties
<1> QED BY <1>0, <1>1, <1>4, <1>7, <1>8, <1>9, <1>10 DEF Good, Ended

LEMMA ReceiveGood ==
    ASSUME Shapes, NEW c \in Subs, Up, Good(c), Receive(c)
    PROVE  Good(c)'
<1>0. /\ UNCHANGED <<subs, clients, hot, cur, buf, script, typed, stdio, pipe, line, toServer>>
      /\ stage[c] = "sock"
      /\ stage \in [Subs -> {"select", "send", "sock", "ended"}]
  BY DEF Receive, server, input, Shapes, SubscriberShapes
<1>1. c \in clients
  BY <1>0 DEF Good, Ended
<1>2. Goto(c, "select")
  BY <1>1 DEF Receive, Closed
<1>3. stage'[c] = "select"
  BY <1>0, <1>2 DEF Goto
<1>4. Sent(c)' = Sent(c) /\ ToCome(c)' = ToCome(c)
  BY <1>0, <1>3 DEF Sent, ToCome, InHand, Pending, Rest
<1> QED BY <1>0, <1>3, <1>4 DEF Good, Ended

(* The server reads from c.                                                *)
LEMMA ScanGood ==
    ASSUME Shapes, NEW c \in Subs, Good(c), Scan(c)
    PROVE  Good(c)'
<1>0. /\ UNCHANGED <<script, typed, stdio, pipe, line, stage>>
      /\ hot' = hot \ {c} /\ c \in hot /\ cur = {}
      /\ toServer \in [Subs -> Seq(Ops)]
  BY DEF Scan, subscribers, input, Shapes, ConnectionShapes
<1>1. CASE Ended(c)
  BY <1>0, <1>1 DEF Good, Ended
<1>2. CASE ~Ended(c)
  <2>1. /\ toServer[c] # << >> /\ c \in clients /\ Provided(Sent(c), ToCome(c), subs[c])
        /\ toServer[c] \in Seq(Words) /\ InHand(c) = << >>
    BY <1>0, <1>2, GoodTypes DEF Good, InHand
  <2>2. PICK n \in 1 .. Len(toServer[c]) :
           /\ buf' = SubSeq(toServer[c], 1, n)
           /\ toServer' = [toServer EXCEPT ![c] = SubSeq(toServer[c], n + 1, Len(toServer[c]))]
    BY <2>1 DEF Scan
  <2>3. cur' = {c} /\ UNCHANGED <<clients, subs>>
    BY <2>1 DEF Scan
  <2>4. InHand(c)' = SubSeq(toServer[c], 1, n)
        /\ toServer'[c] = SubSeq(toServer[c], n + 1, Len(toServer[c]))
    BY <1>0, <2>2, <2>3 DEF InHand
  <2>5. << >> \o toServer[c] = SubSeq(toServer[c], 1, n) \o SubSeq(toServer[c], n + 1, Len(toServer[c]))
    <3>1. PICK b \in Seq(Words) : b = toServer[c]
      BY <2>1
    <3>2. PICK x \in Seq(Words), y \in Seq(Words) :
             x = SubSeq(b, 1, n) /\ y = SubSeq(b, n + 1, Len(b)) /\ b = x \o y
      <4>1. n \in 1 .. Len(b) /\ << >> \in Seq(Words)
        BY <3>1, EmptySeq
      <4>2. /\ SubSeq(b, 1, n) \in Seq(Words) /\ SubSeq(b, n + 1, Len(b)) \in Seq(Words)
            /\ (<< >> \o << >>) \o b = (<< >> \o SubSeq(b, 1, n)) \o SubSeq(b, n + 1, Len(b))
        BY <4>1, SplitAt
      <4>3. << >> \o b = b /\ << >> \o SubSeq(b, 1, n) = SubSeq(b, 1, n) /\ << >> \o << >> = << >>
        BY <4>2, ConcatEmptySeq
      <4>4. b = SubSeq(b, 1, n) \o SubSeq(b, n + 1, Len(b))
        BY <4>2, <4>3
      <4> QED BY <4>2, <4>4
    <3>3. << >> \o b = b
      BY ConcatEmptySeq
    <3> QED BY <3>1, <3>2, <3>3
  <2>6. Sent(c)' = Sent(c)
    <3>1. Pending(c)' = Pending(c)
      BY <1>0 DEF Pending
    <3>2. InHand(c) \o toServer[c] = InHand(c)' \o toServer'[c]
      BY <2>1, <2>4, <2>5
    <3> QED BY <3>1, <3>2, Zenon DEF Sent
  <2>7. ToCome(c)' = ToCome(c)
    BY <1>0 DEF ToCome, Rest
  <2>8. c \notin hot' /\ stage'[c] # "ended"
    BY <1>0, <1>2 DEF Ended
  <2> QED BY <2>1, <2>3, <2>6, <2>7, <2>8 DEF Good, Ended
<1> QED BY <1>1, <1>2

(* The server carries out a command of c, and finds it possible.           *)
LEMMA HandleFrameGood ==
    ASSUME Shapes, NEW c \in Subs, Good(c), HandleFrame(c)
    PROVE  Good(c)'
<1>0. /\ UNCHANGED <<script, typed, stdio, pipe, line, stage, toServer, hot>>
      /\ cur = {c} /\ c \in clients /\ buf # << >> /\ buf \in Seq(Ops) /\ subs \in [Subs -> Nat]
  BY DEF HandleFrame, channels, subscribers, input, Shapes, ServerShapes
<1>1. CASE Ended(c)
  BY <1>0, <1>1 DEF Good, Ended
<1>2. CASE ~Ended(c)
  <2>1. /\ (c \in hot => toServer[c] # << >>) /\ Provided(Sent(c), ToCome(c), subs[c])
        /\ InHand(c) = buf
    BY <1>0, <1>2 DEF Good, InHand
  <2>2. PICK q \in Seq(Words), a \in Nat : q = Sent(c) /\ a = subs[c]
    BY GoodSequences, GoodTypes
  <2>3. /\ q # << >> /\ Head(q) = Head(buf)
        /\ Tail(q) = (Tail(buf) \o toServer[c]) \o Pending(c)
    <3>1. InHand(c) \in Seq(Words) /\ toServer[c] \in Seq(Words) /\ Pending(c) \in Seq(Words)
      BY GoodTypes, GoodSequences
    <3>2. Firsts(InHand(c), toServer[c], Pending(c))
      BY <3>1, TakeFirst, Zenon
    <3> QED BY <1>0, <2>1, <2>2, <3>2, Zenon DEF Firsts, Sent
  <2>4. /\ Head(q) \notin Fatal /\ a + Effect(Head(q)) \in Nat
        /\ Provided(Tail(q), ToCome(c), a + Effect(Head(q)))
    BY <2>1, <2>2, <2>3, ProvidedTake
  <2>5. PICK op \in {"sub", "unsub"} : op = Head(buf)
    <3>1. Head(buf) \in Ops
      BY <1>0, HeadTailProperties
    <3> QED BY <2>3, <2>4, <3>1 DEF Ops, Fatal
  <2>6. Effect(op) = (IF op = "sub" THEN 1 ELSE -1) /\ a + Effect(op) \in Nat
    BY <2>3, <2>4, <2>5 DEF Effect
  <2>7. Possible(c, op)
    BY <2>2, <2>6 DEF Possible
  <2>8. Carry(c, op)
    BY <2>5, <2>7 DEF HandleFrame
  <2>9. /\ subs'[c] = a + Effect(op) /\ buf' = Tail(buf) /\ clients' = clients
        /\ cur' = IF buf' = << >> THEN {} ELSE cur
    BY <1>0, <2>2, <2>6, <2>8 DEF Carry
  <2>10. InHand(c)' = Tail(buf)
    BY <1>0, <2>9 DEF InHand
  <2>11. Sent(c)' = Tail(q)
    <3>1. Pending(c)' = Pending(c)
      BY <1>0 DEF Pending
    <3> QED BY <1>0, <2>3, <2>10, <3>1, Zenon DEF Sent
  <2>12. ToCome(c)' = ToCome(c)
    BY <1>0 DEF ToCome, Rest
  <2>13. Provided(Sent(c)', ToCome(c)', subs'[c])
    BY <2>3, <2>4, <2>5, <2>9, <2>11, <2>12, Zenon
  <2> QED BY <1>0, <1>2, <2>1, <2>9, <2>13 DEF Good, Ended
<1> QED BY <1>1, <1>2

LEMMA OthersGood ==
    ASSUME Shapes, [Next]_vars, NEW c \in Subs, Up', Good(c),
           ~(Type(c) \/ Select(c) \/ Send(c) \/ Receive(c) \/ Scan(c) \/ HandleFrame(c))
    PROVE  Good(c)'
<1>1. CASE SendDatagram \/ SendNext \/ EndRound \/ UNCHANGED vars
  <2>1. UNCHANGED <<line, stage, toServer, stdio, pipe, typed, script, subs, cur, buf, clients, hot>>
    BY <1>1 DEF SendDatagram, SendNext, EndRound, vars, server, channels, subscribers, input
  <2>2. InHand(c)' = InHand(c)
    BY <2>1 DEF InHand
  <2> QED BY <2>1, <2>2, SameGood
<1>5. CASE SendFails
  <2>1. PICK x \in Subs \X Events : x = Head(outbox)
    BY <1>5, HeadTailProperties DEF SendFails, Shapes, ServerShapes
  <2>2. PICK d \in Subs : d = x[1]
    OBVIOUS
  <2>3. /\ Ended(d) /\ clients' = clients \ {d} /\ cur' = {} /\ x[2].kind # "pub"
        /\ UNCHANGED <<line, stage, toServer, stdio, pipe, typed, script, subs, hot>>
    BY <1>5, <2>1, <2>2 DEF SendFails, Drop, channels, subscribers, input
  <2>4. CASE Ended(c)
    BY <2>3, <2>4 DEF Good, Ended
  <2>5. CASE ~Ended(c)
    <3>1. Placed(x, hot, cur)
      BY <1>5, <2>1, RestPlaced DEF SendFails, Shapes, ServerShapes
    <3>2. c # d /\ c \notin cur
      BY <2>2, <2>3, <2>5, <3>1 DEF Placed
    <3>3. InHand(c)' = InHand(c)
      BY <2>3, <3>2 DEF InHand
    <3> QED BY <2>3, <3>2, <3>3, SameGood
  <2> QED BY <2>4, <2>5
<1>2. CASE Poll \/ PollExit
  <2>1. UNCHANGED <<line, stage, toServer, stdio, pipe, typed, script, subs, cur, buf, clients>>
    BY <1>2 DEF Poll, PollExit, Round, channels, subscribers, input
  <2>2. InHand(c)' = InHand(c)
    BY <2>1 DEF InHand
  <2>3. ~Ended(c) /\ c \in hot' => toServer[c] # << >>
    BY <1>2 DEF Poll, PollExit, Round, Readable
  <2> QED BY <2>1, <2>2, <2>3, SameGood
<1>3. CASE \E d \in Subs \ {c} : Scan(d) \/ HandleFrame(d)
  <2>1. PICK d \in Subs \ {c} : Scan(d) \/ HandleFrame(d)
    BY <1>3
  <2>2. /\ UNCHANGED <<line, stage, stdio, pipe, typed, script>>
        /\ cur \subseteq {d} /\ cur' \subseteq {d} /\ hot' \subseteq hot
        /\ subs \in [Subs -> Nat] /\ toServer \in [Subs -> Seq(Ops)]
    BY <2>1 DEF Scan, HandleFrame, Carry, Drop, channels, subscribers, input, Shapes, ServerShapes,
                ConnectionShapes
  <2>3. InHand(c)' = InHand(c)
    BY <2>1, <2>2 DEF InHand
  <2>4. subs'[c] = subs[c] /\ (c \in clients => c \in clients')
    BY <2>1, <2>2 DEF Scan, HandleFrame, Carry, Drop
  <2>5. toServer'[c] = toServer[c]
    BY <2>1, <2>2 DEF Scan, HandleFrame, channels
  <2> QED BY <2>2, <2>3, <2>4, <2>5, SameGood
<1>4. CASE \E d \in Subs \ {c} : Type(d) \/ Select(d) \/ Send(d) \/ Receive(d)
  <2>1. PICK d \in Subs \ {c} : Type(d) \/ Select(d) \/ Send(d) \/ Receive(d)
    BY <1>4
  <2>2. /\ UNCHANGED <<script, subs, cur, buf, clients, hot>>
        /\ typed \in [Subs -> Nat] /\ pipe \in [Subs -> Seq(Lines)]
        /\ stage \in [Subs -> {"select", "send", "sock", "ended"}]
        /\ toServer \in [Subs -> Seq(Ops)]
    BY <2>1 DEF Type, Select, Send, Receive, server, input, Shapes, SubscriberShapes, ConnectionShapes
  <2>3. line'[c] = line[c] /\ stdio'[c] = stdio[c] /\ pipe'[c] = pipe[c]
    <3>1. CASE Select(d)
      BY <3>1, GetsShapes DEF Select
    <3>2. CASE Type(d) \/ Send(d) \/ Receive(d)
      BY <2>2, <3>2 DEF Type, Send, Receive, input
    <3> QED BY <2>1, <3>1, <3>2
  <2>4. stage'[c] = stage[c] /\ typed'[c] = typed[c] /\ toServer'[c] = toServer[c]
    BY <2>1, <2>2 DEF Type, Select, Send, Receive, Goto, HangUp, channels, input
  <2>5. InHand(c)' = InHand(c)
    BY <2>2 DEF InHand
  <2> QED BY <2>2, <2>3, <2>4, <2>5, SameGood
<1> QED BY <1>1, <1>2, <1>3, <1>4, <1>5 DEF Next, ServerNext, SubscriberNext

LEMMA InitGood == Init => GoodInv
<1> SUFFICES ASSUME Init PROVE GoodInv
  OBVIOUS
<1>1. Shapes
  BY InitShapes
<1>2. ASSUME NEW c \in Subs, WellBehaved(c) PROVE Good(c)
  <2>1. PICK s \in Seq(Words) : s = script[c]
    BY <1>1, GoodTypes
  <2>2. \A n \in 1 .. Len(s) : s[n] \notin Fatal /\ CountIn(s, "unsub", n) <= CountIn(s, "sub", n)
    <3>1. \A n \in 1 .. Len(s) : s[n] \in Typable
      <4>1. script[c] \in Seq(Typable)
        BY <1>1, InputTypes DEF IsScript
      <4> QED BY <2>1, <4>1, LenProperties
    <3>2. \A n \in 1 .. Len(s) : s[n] \notin {"short", "eof"}
                                /\ CountIn(s, "unsub", n) <= CountIn(s, "sub", n)
      BY <1>2, <2>1, BehavedLines
    <3> QED BY <3>1, <3>2 DEF Typable, Lines, Fatal
  <2>3. PICK b \in Nat : Walks(s, 0, b)
    BY <2>2, WalkFromNone
  <2>4. /\ typed[c] = 0 /\ stdio[c] = << >> /\ pipe[c] = << >> /\ toServer[c] = << >>
        /\ stage[c] = "select" /\ cur = {} /\ hot = {} /\ clients = Subs /\ subs[c] = 0
    BY DEF Init
  <2>5. Sent(c) = << >>
    <3>1. InHand(c) = << >> /\ Pending(c) = << >>
      BY <2>4 DEF InHand, Pending
    <3>2. (<< >> \o << >>) \o << >> = << >>
      OBVIOUS
    <3> QED BY <2>4, <3>1, <3>2, Zenon DEF Sent
  <2>6. ToCome(c) = s
    <3>1. SubSeq(s, 1, Len(s)) = s /\ 0 + 1 = 1
      BY SubSeqFull
    <3>2. Rest(c) = s
      BY <2>1, <2>4, <3>1 DEF Rest
    <3>3. (<< >> \o << >>) \o s = s
      <4>1. << >> \o << >> = << >>
        OBVIOUS
      <4>2. << >> \o s = s
        BY ConcatEmptySeq
      <4> QED BY <4>1, <4>2
    <3> QED BY <2>4, <3>2, <3>3, Zenon DEF ToCome
  <2>7. Provided(Sent(c), ToCome(c), 0)
    <3>1. Walks(<< >>, 0, 0)
      BY WalkNone
    <3> QED BY <2>3, <2>5, <2>6, <3>1 DEF Provided
  <2> QED BY <2>4, <2>7 DEF Good, Ended
<1> QED BY <1>1, <1>2 DEF GoodInv

LEMMA NextGood == GoodInv /\ [Next]_vars => GoodInv'
<1> SUFFICES ASSUME GoodInv, [Next]_vars, NEW c \in Subs, WellBehaved(c)', Up' PROVE Good(c)'
  BY NextShapes DEF GoodInv
<1>1. Shapes
  BY DEF GoodInv
<1>2. script' = script
  BY DEF Next, ServerNext, SubscriberNext, SendDatagram, Poll, PollExit, Round, SendNext, SendFails, EndRound,
         Scan, HandleFrame, Drop, Type, Select, Send, Receive, vars, subscribers, input
<1>3. WellBehaved(c)
  BY <1>2 DEF WellBehaved
<1>4. Up
  <2>1. pc' = pc \/ pc \in {"poll", "scan"} \/ Up
    BY DEF Next, ServerNext, SubscriberNext, SendDatagram, Poll, PollExit, Round, SendNext, SendFails, EndRound,
           Scan, HandleFrame, Type, Select, Send, Receive, vars, server
  <2> QED BY <2>1 DEF Up
<1>5. Good(c)
  BY <1>3, <1>4 DEF GoodInv
<1>6. CASE Type(c)
  BY <1>1, <1>3, <1>5, <1>6, TypeGood
<1>7. CASE Select(c)
  BY <1>1, <1>3, <1>5, <1>7, SelectGood
<1>8. CASE Send(c)
  BY <1>1, <1>4, <1>5, <1>8, SendGood
<1>9. CASE Receive(c)
  BY <1>1, <1>4, <1>5, <1>9, ReceiveGood
<1>10. CASE Scan(c)
  BY <1>1, <1>5, <1>10, ScanGood
<1>11. CASE HandleFrame(c)
  BY <1>1, <1>5, <1>11, HandleFrameGood
<1>12. CASE ~(Type(c) \/ Select(c) \/ Send(c) \/ Receive(c) \/ Scan(c) \/ HandleFrame(c))
  BY <1>1, <1>5, <1>12, OthersGood
<1> QED BY <1>6, <1>7, <1>8, <1>9, <1>10, <1>11, <1>12

(* client_handle_data and handle_received_data: a subscriber that types no *)
(* short line, takes back only what it subscribed to and leaves its stdin  *)
(* open ends by "exit" or with the server, whatever the others do.         *)
THEOREM GoodSafe == Spec => []GoodOnesStay
<1>1. Spec => []GoodInv
  BY InitGood, NextGood, PTL DEF Spec
<1>2. GoodInv => GoodOnesStay
  BY DEF GoodInv, GoodOnesStay, Good
<1> QED BY <1>1, <1>2, PTL

=============================================================================
