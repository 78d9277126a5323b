-------------------------- MODULE ReadBufferProofs -------------------------
(***************************************************************************)
(* Proofs about module ReadBuffer, for every buffer size and whatever the  *)
(* peers send.  First Inv: RoomLeft is not inductive alone; that the loop  *)
(* leaves room follows from where it stopped, so the offset is bounded     *)
(* with it.  Then StepInv, which says of the contents what InStep says of  *)
(* a pause of the parser, at each of its steps: what was handled, and that *)
(* the rest of the bytes, but for one that a terminator took the place of, *)
(* is the encoding of the frames that were not.                            *)
(***************************************************************************)
EXTENDS ReadBuffer, SequenceLemmas

Inv == TypeOK /\ InBuffer /\ RoomLeft

(* What send_message puts on the wire are bytes.                           *)
LEMMA EncodedType == ASSUME NEW m \in Frames PROVE Encoded(m) \in Seq(Nat)
<1>1. m.type \in Nat /\ m.body \in Seq(Nat) /\ Len(m.body) \in Nat
  <2>1. m.type \in 0 .. 255 /\ m.body \in Seq(Nat)
    BY BufferAssumption
  <2>2. Len(m.body) \in Nat
    BY <2>1, LenProperties
  <2>3. \A x \in 0 .. 255 : x \in Nat
    OBVIOUS
  <2> QED BY <2>1, <2>2, <2>3, Zenon
<1>2. <<0, m.type, Len(m.body)>> \in Seq(Nat)
  BY <1>1
<1> QED BY <1>1, <1>2, ConcatProperties DEF Encoded

(* A piece of a sequence of bytes.                                         *)
LEMMA Piece ==
    ASSUME NEW s \in Seq(Nat), NEW m \in Nat, NEW n \in Nat, m >= 1, n <= Len(s)
    PROVE  /\ SubSeq(s, m, n) \in Seq(Nat)
           /\ Len(SubSeq(s, m, n)) = IF m <= n THEN n - m + 1 ELSE 0
<1>1. \A i \in m .. n : s[i] \in Nat
  BY LenProperties
<1> QED BY <1>1, SubSeqProperties

(* A new client has an empty buffer.                                       *)
LEMMA InitInv == Init => Inv
<1> SUFFICES ASSUME Init PROVE Inv
  OBVIOUS
<1>1. << >> \in Seq(Nat) /\ Len(<< >>) = 0
  BY EmptySeq
<1>2. ReadBufSize \in Nat /\ ReadBufSize > 0
  BY BufferAssumption DEF HdrSize
<1>3. TypeOK
  BY <1>1 DEF Init, TypeOK, Reasons
<1> QED BY <1>1, <1>2, <1>3 DEF Init, Inv, InBuffer, RoomLeft, read_buf_len

(* When the loop takes a frame, its payload lies in the buffer.            *)
LEMMA FrameInside ==
    ASSUME Inv, pc = "parse", HasHeader, ~Bogus, Complete
    PROVE  /\ len \in Nat /\ type \in Nat
           /\ off + HdrSize + len <= read_buf_len
           /\ read_buf_len \in Nat
           /\ Terminated \in Seq(Nat) /\ Len(Terminated) = read_buf_len
           /\ Frame \in [type : Nat, body : Seq(Nat)]
<1>1. read_buf \in Seq(Nat) /\ off \in Nat /\ read_buf_len \in Nat /\ read_buf_len = Len(read_buf)
  BY LenProperties DEF Inv, TypeOK, read_buf_len
<1>2. off + 3 \in 1 .. Len(read_buf) /\ off + 2 \in 1 .. Len(read_buf) /\ off + 1 \in 1 .. Len(read_buf)
  BY <1>1 DEF HasHeader, HdrSize
<1>3. len \in Nat /\ type \in Nat
  BY <1>1, <1>2 DEF len, type
<1>4. off + HdrSize + len <= read_buf_len
  BY <1>1, <1>3 DEF Complete, HdrSize
<1>5. \A i \in 1 .. read_buf_len : read_buf[i] \in Nat
  BY <1>1
<1>6. Terminated \in [1 .. read_buf_len -> Nat]
  BY <1>5 DEF Terminated
<1>7. Terminated \in Seq(Nat) /\ Len(Terminated) = read_buf_len
  BY <1>1, <1>6
<1>8. SubSeq(read_buf, off + HdrSize + 1, off + HdrSize + len) \in Seq(Nat)
  BY <1>1, <1>3, <1>4, Piece DEF HdrSize
<1>9. Frame \in [type : Nat, body : Seq(Nat)]
  BY <1>3, <1>8 DEF Frame
<1> QED BY <1>1, <1>3, <1>4, <1>7, <1>9

(* Every step keeps the buffer within bounds.                              *)
LEMMA NextInv == Inv /\ [Next]_vars => Inv'
<1> SUFFICES ASSUME Inv, [Next]_vars PROVE Inv'
  OBVIOUS
<1>0. /\ read_buf \in Seq(Nat) /\ wire \in Seq(Nat) /\ off \in Nat /\ nul \in Nat
      /\ read_buf_len = Len(read_buf) /\ read_buf_len \in Nat
      /\ ReadBufSize \in Nat /\ ReadBufSize >= HdrSize /\ HdrSize = 3
  BY BufferAssumption, LenProperties DEF Inv, TypeOK, read_buf_len, HdrSize
<1>1. ASSUME NEW m \in Frames, Send(m) PROVE Inv'
  <2>1. sent' \in Seq(Frames)
    BY <1>1, AppendProperties DEF Send, Inv, TypeOK
  <2>2. wire' \in Seq(Nat)
    BY <1>0, <1>1, EncodedType, ConcatProperties DEF Send
  <2> QED BY <1>1, <2>1, <2>2 DEF Send, Inv, TypeOK, InBuffer, RoomLeft, read_buf_len
<1>2. CASE Close
  BY <1>2 DEF Close, Inv, TypeOK, InBuffer, RoomLeft, read_buf_len
<1>3. CASE Receive
  <2>1. PICK r \in 1 .. Len(wire) :
            /\ r <= ReadBufSize - read_buf_len
            /\ read_buf' = read_buf \o SubSeq(wire, 1, r)
            /\ wire' = SubSeq(wire, r + 1, Len(wire))
    BY <1>3 DEF Receive
  <2>2. r \in Nat /\ r <= Len(wire) /\ Len(wire) \in Nat
    BY <1>0, <2>1, LenProperties
  <2>3. SubSeq(wire, 1, r) \in Seq(Nat) /\ Len(SubSeq(wire, 1, r)) = r
    BY <1>0, <2>1, <2>2, Piece
  <2>4. wire' \in Seq(Nat)
    BY <1>0, <2>1, <2>2, Piece, SMTT(30)
  <2>5. read_buf' \in Seq(Nat) /\ Len(read_buf') = read_buf_len + r
    BY <1>0, <2>1, <2>3, ConcatProperties
  <2> QED BY <1>0, <1>3, <2>1, <2>2, <2>4, <2>5
          DEF Receive, Inv, TypeOK, InBuffer, RoomLeft, read_buf_len
<1>4. CASE ReceiveNothing
  BY <1>0, <1>4 DEF ReceiveNothing, Drop, Inv, TypeOK, InBuffer, RoomLeft, read_buf_len, Reasons
<1>5. CASE BogusLength
  BY <1>5 DEF BogusLength, Drop, Inv, TypeOK, InBuffer, RoomLeft, read_buf_len, Reasons
<1>6. CASE HandleFrame
  <2>1. pc = "parse" /\ HasHeader /\ ~Bogus /\ Complete
    BY <1>6 DEF HandleFrame
  <2>2. /\ Terminated \in Seq(Nat) /\ Len(Terminated) = read_buf_len
        /\ off + HdrSize + len \in Nat /\ off + HdrSize + len <= read_buf_len
        /\ Frame \in [type : Nat, body : Seq(Nat)]
    BY <1>0, <2>1, FrameInside, SMTT(30)
  <2>3. handled' \in Seq([type : Nat, body : Seq(Nat)])
    <3>1. handled \in Seq([type : Nat, body : Seq(Nat)])
      BY DEF Inv, TypeOK
    <3>2. Append(handled, Frame) \in Seq([type : Nat, body : Seq(Nat)])
      BY <2>2, <3>1, AppendProperties
    <3> QED BY <1>6, <3>1, <3>2 DEF HandleFrame
  <2>4. read_buf' = Terminated /\ nul' = off + HdrSize + len
    BY <1>6 DEF HandleFrame
  <2>5. InBuffer' /\ RoomLeft'
    BY <1>0, <1>6, <2>1, <2>2, <2>4 DEF HandleFrame, Inv, InBuffer, RoomLeft, read_buf_len
  <2>6. TypeOK'
    BY <1>6, <2>2, <2>3, <2>4 DEF HandleFrame, Inv, TypeOK, Reasons
  <2> QED BY <2>5, <2>6 DEF Inv
<1>7. CASE RefuseFrame
  <2>1. pc = "parse" /\ HasHeader /\ ~Bogus /\ Complete
    BY <1>7 DEF RefuseFrame
  <2>2. /\ Terminated \in Seq(Nat) /\ Len(Terminated) = read_buf_len
        /\ off + HdrSize + len \in Nat /\ off + HdrSize + len <= read_buf_len
        /\ Frame \in [type : Nat, body : Seq(Nat)]
    BY <1>0, <2>1, FrameInside, SMTT(30)
  <2>3. handled' \in Seq([type : Nat, body : Seq(Nat)])
    <3>1. handled \in Seq([type : Nat, body : Seq(Nat)])
      BY DEF Inv, TypeOK
    <3>2. Append(handled, Frame) \in Seq([type : Nat, body : Seq(Nat)])
      BY <2>2, <3>1, AppendProperties
    <3> QED BY <1>7, <3>1, <3>2 DEF RefuseFrame
  <2>4. read_buf' = Terminated /\ nul' = off + HdrSize + len
    BY <1>7 DEF RefuseFrame
  <2>5. InBuffer' /\ RoomLeft'
    BY <1>0, <1>7, <2>1, <2>2, <2>4 DEF RefuseFrame, Drop, Inv, InBuffer, RoomLeft, read_buf_len
  <2>6. TypeOK'
    BY <1>7, <2>2, <2>3, <2>4 DEF RefuseFrame, Drop, Inv, TypeOK, Reasons
  <2> QED BY <2>5, <2>6 DEF Inv
<1>8. CASE Compact
  <2>1. off <= read_buf_len /\ read_buf_len <= ReadBufSize
    BY <1>8 DEF Compact, Inv, InBuffer
  <2>2. read_buf' \in Seq(Nat) /\ Len(read_buf') = read_buf_len - off
    BY <1>0, <1>8, <2>1, Piece, SMTT(30) DEF Compact
  <2>3. read_buf_len - off < ReadBufSize
    <3>1. CASE ~HasHeader
      BY <1>0, <2>1, <3>1 DEF HasHeader
    <3>2. CASE HasHeader /\ ~Bogus /\ ~Complete
      <4>1. len \in Nat
        BY <1>0, <3>2 DEF HasHeader, len
      <4> QED BY <1>0, <2>1, <3>2, <4>1 DEF Bogus, Complete
    <3> QED BY <1>8, <3>1, <3>2 DEF Compact
  <2> QED BY <1>0, <1>8, <2>1, <2>2, <2>3
          DEF Compact, Inv, TypeOK, InBuffer, RoomLeft, read_buf_len
<1>9. CASE Reconnect
  <2>1. << >> \in Seq(Nat) /\ Len(<< >>) = 0
    BY EmptySeq
  <2> QED BY <1>0, <1>9, <2>1
          DEF Reconnect, Inv, TypeOK, InBuffer, RoomLeft, read_buf_len, Reasons
<1>10. CASE UNCHANGED vars
  BY <1>10 DEF vars, Inv, TypeOK, InBuffer, RoomLeft, read_buf_len
<1> QED BY <1>1, <1>2, <1>3, <1>4, <1>5, <1>6, <1>7, <1>8, <1>9, <1>10 DEF Next

(* The buffer of a client never fills up and is never overrun, for every   *)
(* size of it, whatever bytes arrive in whatever pieces.                   *)
THEOREM BufferSafe == Spec => []Inv
<1> QED BY InitInv, NextInv, PTL DEF Spec

(* recv is never offered a buffer of size 0.                               *)
THEOREM RoomAlways == Spec => []RoomLeft
<1>1. Inv => RoomLeft
  BY DEF Inv
<1> QED BY <1>1, BufferSafe, PTL

(* Parsing stays inside the bytes received, and writes at most one byte    *)
(* behind the buffer.                                                      *)
THEOREM InBufferAlways == Spec => []InBuffer
<1>1. Inv => InBuffer
  BY DEF Inv
<1> QED BY <1>1, BufferSafe, PTL

-----------------------------------------------------------------------------
(* Frames as bytes *)

(* The bytes of a sequence of frames, built from either end.               *)
LEMMA EncodingsProps ==
    ASSUME NEW s \in Seq(Frames), NEW m \in Frames
    PROVE  /\ Encodings(<< >>) = << >>
           /\ Encodings(s) \in Seq(Nat)
           /\ Encodings(Append(s, m)) = Encodings(s) \o Encoded(m)
           /\ Encodings(<<m>> \o s) = Encoded(m) \o Encodings(s)
<1> DEFINE g == [f \in Frames |-> Encoded(f)]
<1>1. g \in [Frames -> Seq(Nat)] /\ g[m] = Encoded(m)
  BY EncodedType
<1>2. ASSUME NEW q \in Seq(Frames) PROVE Encodings(q) = Gathered(g, q)
  <2>1. \A n \in DOMAIN q : q[n] \in Frames
    OBVIOUS
  <2>2. [n \in DOMAIN q |-> Encoded(q[n])] = [n \in DOMAIN q |-> g[q[n]]]
    BY <2>1
  <2> QED BY <2>2 DEF Encodings, Gathered
<1>3. << >> \in Seq(Frames) /\ Append(s, m) \in Seq(Frames) /\ <<m>> \o s \in Seq(Frames)
  OBVIOUS
<1> HIDE DEF g
<1>4. /\ Gathered(g, << >>) = << >> /\ Gathered(g, s) \in Seq(Nat)
      /\ Gathered(g, Append(s, m)) = Gathered(g, s) \o g[m]
      /\ Gathered(g, <<m>> \o s) = g[m] \o Gathered(g, s)
  <2>1. GathersWell(g, s, m, Nat)
    BY <1>1, GatheredProps, Zenon
  <2> QED BY <2>1 DEF GathersWell
<1> QED BY <1>1, <1>2, <1>3, <1>4, Zenon

(* The frames that count, with one more.                                   *)
LEMMA SelectedProps ==
    ASSUME NEW s \in Seq(Frames), NEW m \in Frames
    PROVE  /\ Selected(<< >>) = << >>
           /\ Selected(s) \in Seq(Frames)
           /\ Selected(Append(s, m)) = IF m \in Known THEN Append(Selected(s), m)
                                       ELSE Selected(s)
<1> DEFINE kept(f) == IF f \in Known THEN <<f>> ELSE << >>
           g == [f \in Frames |-> kept(f)]
<1>1. g \in [Frames -> Seq(Frames)] /\ g[m] = kept(m)
  OBVIOUS
<1>2. ASSUME NEW q \in Seq(Frames) PROVE Selected(q) = Gathered(g, q)
  <2>1. \A n \in DOMAIN q : q[n] \in Frames
    OBVIOUS
  <2>2. [n \in DOMAIN q |-> kept(q[n])] = [n \in DOMAIN q |-> g[q[n]]]
    BY <2>1
  <2> QED BY <2>2 DEF Selected, Gathered
<1>3. << >> \in Seq(Frames) /\ Append(s, m) \in Seq(Frames)
  OBVIOUS
<1> HIDE DEF g
<1>4. /\ Selected(<< >>) = << >> /\ Selected(s) \in Seq(Frames)
      /\ Selected(Append(s, m)) = Selected(s) \o g[m]
  <2>1. /\ Gathered(g, << >>) = << >> /\ Gathered(g, s) \in Seq(Frames)
        /\ Gathered(g, Append(s, m)) = Gathered(g, s) \o g[m]
    <3>1. GathersWell(g, s, m, Frames)
      BY <1>1, GatheredProps, Zenon
    <3> QED BY <3>1 DEF GathersWell
  <2> QED BY <1>2, <1>3, <2>1, Zenon
<1>5. CASE m \in Known
  <2>1. Append(Selected(s), m) = Selected(s) \o <<m>>
    BY <1>4, AppendIsConcat
  <2> QED BY <1>1, <1>4, <1>5, <2>1
<1>6. CASE m \notin Known
  <2>1. Selected(s) \o << >> = Selected(s)
    BY <1>4, ConcatEmptySeq
  <2> QED BY <1>1, <1>4, <1>6, <2>1
<1> QED BY <1>4, <1>5, <1>6

(* A frame on the wire: its header, then its body.                         *)
LEMMA EncodedBytes ==
    ASSUME NEW m \in Frames
    PROVE  /\ m.body \in Seq(Nat) /\ Len(m.body) \in Nat /\ m.type \in 0 .. 255
           /\ Encoded(m) \in Seq(Nat) /\ Len(Encoded(m)) = 3 + Len(m.body)
           /\ Encoded(m)[1] = 0 /\ Encoded(m)[2] = m.type /\ Encoded(m)[3] = Len(m.body)
           /\ \A i \in 1 .. Len(m.body) : Encoded(m)[3 + i] = m.body[i]
<1>1. m.body \in Seq(Nat) /\ Len(m.body) \in Nat /\ m.type \in 0 .. 255
  <2>1. m.body \in Seq(Nat) /\ m.type \in 0 .. 255
    BY BufferAssumption
  <2> QED BY <2>1, LenProperties
<1> DEFINE h == <<0, m.type, Len(m.body)>>
<1>2. h \in Seq(Nat) /\ Len(h) = 3 /\ h[1] = 0 /\ h[2] = m.type /\ h[3] = Len(m.body)
  <2>1. \A x, y, z \in Nat : /\ <<x, y, z>> \in Seq(Nat) /\ Len(<<x, y, z>>) = 3
                              /\ <<x, y, z>>[1] = x /\ <<x, y, z>>[2] = y /\ <<x, y, z>>[3] = z
    OBVIOUS
  <2>2. \A x \in 0 .. 255 : x \in Nat
    OBVIOUS
  <2>3. 0 \in Nat
    OBVIOUS
  <2> QED BY <1>1, <2>1, <2>2, <2>3, Zenon
<1> HIDE DEF h
<1>3. /\ h \o m.body \in Seq(Nat) /\ Len(h \o m.body) = 3 + Len(m.body)
      /\ \A i \in 1 .. 3 + Len(m.body) :
            (h \o m.body)[i] = IF i <= 3 THEN h[i] ELSE m.body[i - 3]
  <2>1. /\ h \o m.body \in Seq(Nat) /\ Len(h \o m.body) = Len(h) + Len(m.body)
        /\ \A i \in 1 .. Len(h) + Len(m.body) :
              (h \o m.body)[i] = IF i <= Len(h) THEN h[i] ELSE m.body[i - Len(h)]
    BY <1>1, <1>2, ConcatProperties, Zenon
  <2> QED BY <1>2, <2>1, Zenon
<1>4. ASSUME NEW i \in 1 .. Len(m.body) PROVE (h \o m.body)[3 + i] = m.body[i]
  <2>1. 3 + i \in 1 .. 3 + Len(m.body) /\ ~(3 + i <= 3) /\ (3 + i) - 3 = i
    BY <1>1
  <2> QED BY <1>3, <2>1
<1>5. 1 \in 1 .. 3 + Len(m.body) /\ 2 \in 1 .. 3 + Len(m.body) /\ 3 \in 1 .. 3 + Len(m.body)
  BY <1>1
<1> QED BY <1>1, <1>2, <1>3, <1>4, <1>5 DEF h, Encoded

(* What lies behind offset o, and then on the wire, position by position.  *)
IsAhead(e, b, o, w) == e = SubSeq(b, o + 1, Len(b)) \o w

Positions(e, b, o, w) == /\ Len(e) = (Len(b) - o) + Len(w)
                         /\ \A i \in 1 .. Len(b) - o : e[i] = b[o + i]
                         /\ \A i \in 1 .. Len(w) : e[(Len(b) - o) + i] = w[i]

LEMMA SomethingAhead ==
    ASSUME NEW b \in Seq(Nat), NEW w \in Seq(Nat), NEW o \in Nat, o <= Len(b)
    PROVE  \E e \in Seq(Nat) : IsAhead(e, b, o, w) /\ Positions(e, b, o, w)
<1> DEFINE r == SubSeq(b, o + 1, Len(b))
<1>1. Len(b) \in Nat /\ Len(w) \in Nat
  BY LenProperties
<1>2. r \in Seq(Nat) /\ Len(r) = Len(b) - o /\ \A i \in 1 .. Len(b) - o : r[i] = b[o + i]
  BY <1>1, PieceOf
<1> HIDE DEF r
<1>3. /\ r \o w \in Seq(Nat) /\ Len(r \o w) = Len(r) + Len(w)
      /\ \A i \in 1 .. Len(r) + Len(w) :
            (r \o w)[i] = IF i <= Len(r) THEN r[i] ELSE w[i - Len(r)]
  BY <1>2, ConcatProperties
<1>4. ASSUME NEW i \in 1 .. Len(w) PROVE (r \o w)[(Len(b) - o) + i] = w[i]
  <2>1. /\ (Len(b) - o) + i \in 1 .. Len(r) + Len(w) /\ ~((Len(b) - o) + i <= Len(r))
        /\ ((Len(b) - o) + i) - Len(r) = i
    BY <1>1, <1>2
  <2> QED BY <1>3, <2>1
<1>5. ASSUME NEW i \in 1 .. Len(b) - o PROVE (r \o w)[i] = b[o + i]
  <2>1. i \in 1 .. Len(r) + Len(w) /\ i <= Len(r)
    BY <1>1, <1>2
  <2> QED BY <1>2, <1>3, <2>1
<1>6. Positions(r \o w, b, o, w)
  BY <1>2, <1>3, <1>4, <1>5 DEF Positions
<1>7. IsAhead(r \o w, b, o, w)
  BY DEF IsAhead, r
<1> QED BY <1>3, <1>6, <1>7, Zenon

LEMMA BehindOffset ==
    ASSUME NEW b \in Seq(Nat), NEW w \in Seq(Nat), NEW o \in Nat, o <= Len(b),
           NEW e, IsAhead(e, b, o, w)
    PROVE  e \in Seq(Nat) /\ Positions(e, b, o, w)
<1>1. PICK x \in Seq(Nat) : IsAhead(x, b, o, w) /\ Positions(x, b, o, w)
  BY SomethingAhead, Zenon
<1>2. x = e
  BY <1>1 DEF IsAhead
<1> QED BY <1>1, <1>2

(* Nothing sent, nothing on the wire.                                      *)
LEMMA NoFrames == Encodings(<< >>) = << >> /\ Selected(<< >>) = << >>
<1>1. FlattenSeq(<< >>) = << >>
  BY DEF FlattenSeq
<1>2. [n \in DOMAIN << >> |-> Encoded(<< >>[n])] = << >>
  OBVIOUS
<1>3. [n \in DOMAIN << >> |-> IF << >>[n] \in Known THEN << << >>[n]>> ELSE << >>] = << >>
  OBVIOUS
<1> QED BY <1>1, <1>2, <1>3 DEF Encodings, Selected

(* The bytes of a sequence of frames start with those of the first one.    *)
LEMMA FirstBytes ==
    ASSUME NEW s \in Seq(Frames), s # << >>
    PROVE  LET e == Encodings(s)
               m == Head(s)
               rest == Encodings(Tail(s))
           IN  /\ m \in Frames /\ Tail(s) \in Seq(Frames)
               /\ e \in Seq(Nat) /\ rest \in Seq(Nat)
               /\ Len(e) = 3 + Len(m.body) + Len(rest)
               /\ e[1] = 0 /\ e[2] = m.type /\ e[3] = Len(m.body)
               /\ \A i \in 1 .. Len(m.body) : e[3 + i] = m.body[i]
               /\ \A i \in 1 .. Len(rest) : e[3 + Len(m.body) + i] = rest[i]
<1>1. PICK m \in Frames : m = Head(s)
  BY HeadTailProperties
<1>2. PICK t \in Seq(Frames) : t = Tail(s)
  BY HeadTailProperties
<1>3. PICK c \in Seq(Nat) : c = Encoded(m)
  BY EncodedBytes
<1>4. PICK r \in Seq(Nat) : r = Encodings(t)
  BY EncodingsProps
<1>5. Encodings(s) = c \o r
  <2>1. s = <<m>> \o t
    <3>1. s = <<Head(s)>> \o Tail(s)
      OBVIOUS
    <3> QED BY <1>1, <1>2, <3>1
  <2> QED BY <1>3, <1>4, <2>1, EncodingsProps
<1>6. /\ Len(m.body) \in Nat /\ Len(c) = 3 + Len(m.body)
      /\ c[1] = 0 /\ c[2] = m.type /\ c[3] = Len(m.body)
      /\ \A i \in 1 .. Len(m.body) : c[3 + i] = m.body[i]
  BY <1>3, EncodedBytes
<1>7. /\ c \o r \in Seq(Nat) /\ Len(c \o r) = Len(c) + Len(r) /\ Len(r) \in Nat
      /\ \A i \in 1 .. Len(c) + Len(r) : (c \o r)[i] = IF i <= Len(c) THEN c[i] ELSE r[i - Len(c)]
  BY ConcatProperties, LenProperties
<1> DEFINE e == c \o r
           L == Len(m.body)
<1> HIDE DEF e, L
<1>8. ASSUME NEW i \in 1 .. 3 + L PROVE e[i] = c[i]
  <2>1. i \in 1 .. Len(c) + Len(r) /\ i <= Len(c)
    BY <1>6, <1>7 DEF L
  <2> QED BY <1>7, <2>1 DEF e
<1>9. ASSUME NEW i \in 1 .. Len(r) PROVE e[3 + L + i] = r[i]
  <2>1. /\ 3 + L + i \in 1 .. Len(c) + Len(r) /\ ~(3 + L + i <= Len(c))
        /\ (3 + L + i) - Len(c) = i
    <3>1. L \in Nat /\ Len(c) = 3 + L /\ Len(r) \in Nat
      BY <1>6, <1>7 DEF L
    <3> QED BY <3>1
  <2> QED BY <1>7, <2>1 DEF e
<1>10. /\ 1 \in 1 .. 3 + L /\ 2 \in 1 .. 3 + L /\ 3 \in 1 .. 3 + L
       /\ \A i \in 1 .. L : 3 + i \in 1 .. 3 + L
  BY <1>6, SMTT(30) DEF L
<1>11. e[1] = 0 /\ e[2] = m.type /\ e[3] = L /\ \A i \in 1 .. L : e[3 + i] = m.body[i]
  BY <1>6, <1>8, <1>10 DEF L
<1>12. e \in Seq(Nat) /\ Len(e) = 3 + L + Len(r)
  BY <1>6, <1>7 DEF e, L
<1> QED BY <1>1, <1>2, <1>4, <1>5, <1>9, <1>11, <1>12 DEF e, L

(* A parser at the start of a frame reads that frame's header.             *)
LEMMA ReadHeader ==
    ASSUME NEW b \in Seq(Nat), NEW w \in Seq(Nat), NEW o \in Nat,
           NEW s \in Seq(Frames), IsAhead(Encodings(s), b, o, w), o + 3 <= Len(b)
    PROVE  /\ s # << >> /\ Head(s) \in Frames /\ Tail(s) \in Seq(Frames)
           /\ b[o + 1] = 0 /\ b[o + 2] = Head(s).type /\ b[o + 3] = Len(Head(s).body)
<1>1. Len(b) \in Nat /\ Len(w) \in Nat
  BY LenProperties
<1>2. /\ o <= Len(b)
      /\ 1 \in 1 .. Len(b) - o /\ 2 \in 1 .. Len(b) - o /\ 3 \in 1 .. Len(b) - o
  BY <1>1
<1>3. PICK e \in Seq(Nat) : e = Encodings(s) /\ Positions(e, b, o, w)
  BY <1>2, BehindOffset, Zenon
<1>4. s # << >>
  <2>1. s = << >> => Len(e) = 0
    BY <1>3, NoFrames, EmptySeq
  <2>2. Len(e) # 0
    BY <1>1, <1>2, <1>3 DEF Positions
  <2> QED BY <2>1, <2>2
<1>5. e[1] = b[o + 1] /\ e[2] = b[o + 2] /\ e[3] = b[o + 3]
  BY <1>2, <1>3 DEF Positions
<1>6. /\ Head(s) \in Frames /\ Tail(s) \in Seq(Frames)
      /\ e[1] = 0 /\ e[2] = Head(s).type /\ e[3] = Len(Head(s).body)
  BY <1>3, <1>4, FirstBytes
<1> QED BY <1>4, <1>5, <1>6

(* The body of a frame whose bytes e start behind offset o.                *)
HoldsBody(b, o, e, body) == /\ \A i \in 1 .. Len(body) : e[3 + i] = body[i]
                            /\ \A i \in 1 .. Len(b) - o : e[i] = b[o + i]

LEMMA BodyBytes ==
    ASSUME NEW b \in Seq(Nat), NEW o \in Nat, NEW at \in Nat, at <= Len(b),
           NEW e, NEW body \in Seq(Nat), NEW L \in Nat, L = Len(body), at = (o + 3) + L,
           HoldsBody(b, o, e, body)
    PROVE  SubSeq(b, o + 4, at) = body
<1> DEFINE p == SubSeq(b, (o + 3) + 1, at)
<1>1. p \in Seq(Nat) /\ Len(p) = at - (o + 3) /\ \A i \in 1 .. at - (o + 3) : p[i] = b[(o + 3) + i]
  <2>1. o + 3 \in Nat /\ o + 3 <= at
    OBVIOUS
  <2> QED BY <2>1, PieceOf, SMTT(30)
<1>2. at - (o + 3) = L /\ (o + 3) + 1 = o + 4
  OBVIOUS
<1>3. \A i \in 1 .. L : 3 + i \in 1 .. Len(b) - o /\ o + (3 + i) = (o + 3) + i
  <2>1. Len(b) \in Nat
    BY LenProperties
  <2> QED BY <2>1
<1> HIDE DEF p
<1>4. \A i \in 1 .. L : p[i] = body[i]
  <2> TAKE i \in 1 .. L
  <2>1. 3 + i \in 1 .. Len(b) - o /\ o + (3 + i) = (o + 3) + i
    BY <1>3
  <2> QED BY <1>1, <1>2, <2>1 DEF HoldsBody
<1>5. p = body
  BY <1>1, <1>2, <1>4, SeqEqual
<1> QED BY <1>2, <1>5 DEF p

(* A terminator leaves the bytes from there on as they were, but for the   *)
(* first of them.                                                          *)
Zeroed(b, at) == [i \in 1 .. Len(b) |-> IF i = at + 1 THEN 0 ELSE b[i]]

LEMMA ZeroedType ==
    ASSUME NEW b \in Seq(Nat), NEW at \in Nat
    PROVE  /\ Zeroed(b, at) \in Seq(Nat) /\ Len(Zeroed(b, at)) = Len(b)
           /\ \A i \in 1 .. Len(b) : Zeroed(b, at)[i] = IF i = at + 1 THEN 0 ELSE b[i]
<1>1. Len(b) \in Nat /\ \A i \in 1 .. Len(b) : b[i] \in Nat
  OBVIOUS
<1>2. Zeroed(b, at) \in [1 .. Len(b) -> Nat]
  BY <1>1 DEF Zeroed
<1> QED BY <1>1, <1>2 DEF Zeroed

LEMMA ZeroedBytes ==
    ASSUME NEW b \in Seq(Nat), NEW w \in Seq(Nat), NEW at \in Nat, at <= Len(b),
           NEW rest \in Seq(Nat), IsAhead(rest, b, at, w),
           rest # << >> => rest[1] = 0
    PROVE  IsAhead(rest, Zeroed(b, at), at, w)
<1>1. PICK N \in Nat : N = Len(b)
  BY LenProperties
<1>2. PICK M \in Nat : M = Len(w)
  BY LenProperties
<1>3. PICK z \in Seq(Nat) : z = Zeroed(b, at)
  BY ZeroedType
<1>4. Len(z) = N /\ \A i \in 1 .. N : z[i] = IF i = at + 1 THEN 0 ELSE b[i]
  BY <1>1, <1>3, ZeroedType
<1>5. PICK f \in Seq(Nat) : IsAhead(f, z, at, w) /\ Positions(f, z, at, w)
  <2>1. at <= Len(z)
    BY <1>1, <1>4
  <2> QED BY <2>1, SomethingAhead, Zenon
<1>6. /\ Len(f) = (N - at) + M
      /\ \A i \in 1 .. N - at : f[i] = z[at + i]
      /\ \A i \in 1 .. M : f[(N - at) + i] = w[i]
  BY <1>2, <1>4, <1>5 DEF Positions
<1>7. /\ Len(rest) = (N - at) + M
      /\ \A i \in 1 .. N - at : rest[i] = b[at + i]
      /\ \A i \in 1 .. M : rest[(N - at) + i] = w[i]
  <2>1. Positions(rest, b, at, w)
    BY BehindOffset, Zenon
  <2> QED BY <1>1, <1>2, <2>1 DEF Positions
<1>8. \A i \in 1 .. Len(rest) : f[i] = rest[i]
  <2> TAKE i \in 1 .. Len(rest)
  <2>1. i \in 1 .. N - at \/ \E j \in 1 .. M : i = (N - at) + j
    <3>1. i \in Nat /\ i >= 1 /\ i <= (N - at) + M /\ N - at \in Nat
      BY <1>1, <1>7
    <3>2. i > N - at => i - (N - at) \in 1 .. M /\ i = (N - at) + (i - (N - at))
      BY <3>1
    <3> QED BY <3>1, <3>2
  <2>2. CASE i \in 1 .. N - at /\ i = 1
    <3>1. rest # << >> /\ z[at + 1] = 0
      <4>1. at + 1 \in 1 .. N /\ Len(rest) # 0
        BY <1>1, <1>7, <2>2
      <4> QED BY <1>4, <4>1, EmptySeq
    <3> QED BY <1>6, <2>2, <3>1
  <2>3. CASE i \in 1 .. N - at /\ i # 1
    <3>1. at + i \in 1 .. N /\ at + i # at + 1
      BY <1>1, <2>3
    <3> QED BY <1>4, <1>6, <1>7, <2>3, <3>1
  <2>4. CASE \E j \in 1 .. M : i = (N - at) + j
    BY <1>6, <1>7, <2>4
  <2> QED BY <2>1, <2>2, <2>3, <2>4
<1>9. f = rest
  BY <1>6, <1>7, <1>8, SeqEqual
<1> QED BY <1>3, <1>5, <1>9

(* Skipping the first a bytes of what lies behind offset o.                *)
LEMMA Skipped ==
    ASSUME NEW b \in Seq(Nat), NEW w \in Seq(Nat), NEW o \in Nat, NEW a \in Nat, o + a <= Len(b),
           NEW e \in Seq(Nat), IsAhead(e, b, o, w),
           NEW rest \in Seq(Nat), Len(e) = a + Len(rest),
           \A i \in 1 .. Len(rest) : e[a + i] = rest[i]
    PROVE  IsAhead(rest, b, o + a, w)
<1>1. PICK N \in Nat : N = Len(b)
  BY LenProperties
<1>2. PICK M \in Nat : M = Len(w)
  BY LenProperties
<1>3. PICK R \in Nat : R = Len(rest)
  BY LenProperties
<1>4. o + a <= N /\ o <= N /\ o + a \in Nat
  BY <1>1
<1>5. PICK f \in Seq(Nat) : IsAhead(f, b, o + a, w) /\ Positions(f, b, o + a, w)
  <2>1. o + a <= Len(b)
    BY <1>1, <1>4
  <2> QED BY <1>4, <2>1, SomethingAhead, Zenon
<1>6. /\ Len(f) = (N - (o + a)) + M
      /\ \A i \in 1 .. N - (o + a) : f[i] = b[(o + a) + i]
      /\ \A i \in 1 .. M : f[(N - (o + a)) + i] = w[i]
  BY <1>1, <1>2, <1>5 DEF Positions
<1>7. /\ Len(e) = (N - o) + M
      /\ \A i \in 1 .. N - o : e[i] = b[o + i]
      /\ \A i \in 1 .. M : e[(N - o) + i] = w[i]
  <2>1. Positions(e, b, o, w)
    <3>1. o <= Len(b)
      BY <1>1, <1>4
    <3> QED BY <3>1, BehindOffset, Zenon
  <2> QED BY <1>1, <1>2, <2>1 DEF Positions
<1>8. R = (N - (o + a)) + M
  <2>1. a + R = (N - o) + M
    BY <1>3, <1>7
  <2> QED BY <1>4, <2>1
<1>9. \A i \in 1 .. R : f[i] = rest[i]
  <2> TAKE i \in 1 .. R
  <2>1. rest[i] = e[a + i]
    BY <1>3
  <2>2. CASE i <= N - (o + a)
    <3>1. i \in 1 .. N - (o + a) /\ a + i \in 1 .. N - o /\ o + (a + i) = (o + a) + i
      BY <1>4, <2>2
    <3> QED BY <1>6, <1>7, <2>1, <3>1
  <2>3. CASE i > N - (o + a)
    <3>1. PICK j \in 1 .. M : i = (N - (o + a)) + j
      <4>1. i - (N - (o + a)) \in 1 .. M /\ i = (N - (o + a)) + (i - (N - (o + a)))
        BY <1>4, <1>8, <2>3
      <4> QED BY <4>1
    <3>2. a + i = (N - o) + j
      BY <1>4, <3>1
    <3> QED BY <1>6, <1>7, <2>1, <3>1, <3>2
  <2> QED BY <1>4, <2>2, <2>3
<1>10. f = rest
  BY <1>3, <1>6, <1>8, <1>9, SeqEqual
<1> QED BY <1>5, <1>10

(* Having read the header the parser finds the whole body, and the         *)
(* terminator behind that leaves it at the start of the next frame.        *)
FirstBody(s, body, L) == s # << >> /\ body = Head(s).body /\ L = Len(body)

LEMMA ReadBody ==
    ASSUME NEW b \in Seq(Nat), NEW w \in Seq(Nat), NEW o \in Nat,
           NEW s \in Seq(Frames), IsAhead(Encodings(s), b, o, w),
           NEW body \in Seq(Nat), NEW L \in Nat, FirstBody(s, body, L),
           NEW at \in Nat, at = (o + 3) + L, at <= Len(b)
    PROVE  /\ SubSeq(b, o + 4, at) = body
           /\ IsAhead(Encodings(Tail(s)), Zeroed(b, at), at, w)
<1>2. o <= Len(b) /\ 3 + L \in Nat /\ o + (3 + L) = at
  <2>1. Len(b) \in Nat
    BY LenProperties
  <2> QED BY <2>1
<1>3. PICK e \in Seq(Nat) : e = Encodings(s) /\ IsAhead(e, b, o, w) /\ Positions(e, b, o, w)
  BY <1>2, BehindOffset, Zenon
<1>4. PICK rest \in Seq(Nat) : rest = Encodings(Tail(s))
  BY FirstBytes DEF FirstBody
<1>5. /\ Len(e) = (3 + L) + Len(rest)
      /\ \A i \in 1 .. L : e[3 + i] = body[i]
      /\ \A i \in 1 .. Len(rest) : e[(3 + L) + i] = rest[i]
  BY <1>3, <1>4, FirstBytes DEF FirstBody
<1>6. SubSeq(b, o + 4, at) = body
  <2>1. L = Len(body)
    BY DEF FirstBody
  <2>2. HoldsBody(b, o, e, body)
    BY <1>3, <1>5, <2>1 DEF Positions, HoldsBody
  <2> QED BY <2>1, <2>2, BodyBytes, Zenon
<1>7. IsAhead(rest, b, at, w)
  <2>1. IsAhead(rest, b, o + (3 + L), w)
    BY <1>2, <1>3, <1>5, Skipped
  <2> QED BY <1>2, <2>1
<1>8. rest # << >> => rest[1] = 0
  <2>1. Tail(s) \in Seq(Frames) /\ (rest # << >> => Tail(s) # << >>)
    BY <1>4, FirstBytes, NoFrames DEF FirstBody
  <2> QED BY <1>4, <2>1, FirstBytes
<1>9. IsAhead(rest, Zeroed(b, at), at, w)
  BY <1>7, <1>8, ZeroedBytes
<1> QED BY <1>4, <1>6, <1>9

(* The frames sent, divided behind the first n of them.                    *)
LEMMA Divided ==
    ASSUME NEW S, NEW s \in Seq(S), NEW n \in 0 .. Len(s)
    PROVE  LET rest == SubSeq(s, n + 1, Len(s))
           IN  /\ SubSeq(s, 1, n) \in Seq(S) /\ rest \in Seq(S)
               /\ rest = << >> => n = Len(s)
               /\ rest # << >> =>
                     /\ n + 1 \in 1 .. Len(s) /\ Head(rest) = s[n + 1]
                     /\ Tail(rest) = SubSeq(s, n + 2, Len(s))
                     /\ SubSeq(s, 1, n + 1) = Append(SubSeq(s, 1, n), s[n + 1])
<1> DEFINE rest == SubSeq(s, n + 1, Len(s))
           front == SubSeq(s, 1, n)
<1>1. Len(s) \in Nat /\ n \in Nat /\ n <= Len(s) /\ \A i \in 1 .. Len(s) : s[i] \in S
  OBVIOUS
<1>2. /\ front \in Seq(S) /\ Len(front) = n
      /\ \A i \in 1 .. n : front[i] = s[i]
  BY <1>1, SubSeqProperties
<1>3. /\ rest \in Seq(S) /\ Len(rest) = Len(s) - n
      /\ \A i \in 1 .. Len(s) - n : rest[i] = s[n + i]
  <2>1. /\ rest \in Seq(S)
        /\ Len(rest) = IF n + 1 <= Len(s) THEN Len(s) - (n + 1) + 1 ELSE 0
        /\ \A i \in 1 .. Len(s) - (n + 1) + 1 : rest[i] = s[(n + 1) + i - 1]
    <3>1. \A i \in n + 1 .. Len(s) : s[i] \in S
      BY <1>1
    <3> QED BY <1>1, <3>1, SubSeqProperties
  <2> HIDE DEF rest
  <2> QED BY <1>1, <2>1
<1>4. rest = << >> => n = Len(s)
  <2>1. rest = << >> => Len(rest) = 0
    BY EmptySeq
  <2> QED BY <1>1, <1>3, <2>1
<1>5. ASSUME rest # << >>
      PROVE  /\ n + 1 \in 1 .. Len(s) /\ Head(rest) = s[n + 1]
             /\ Tail(rest) = SubSeq(s, n + 2, Len(s))
             /\ SubSeq(s, 1, n + 1) = Append(front, s[n + 1])
  <2>1. Len(rest) >= 1 /\ n + 1 \in 1 .. Len(s)
    BY <1>1, <1>3, <1>5, EmptySeq
  <2> DEFINE t == SubSeq(s, n + 2, Len(s))
             u == SubSeq(s, 1, n + 1)
             v == Append(front, s[n + 1])
  <2>2. /\ t \in Seq(S)
        /\ Len(t) = IF n + 2 <= Len(s) THEN Len(s) - (n + 2) + 1 ELSE 0
        /\ \A i \in 1 .. Len(s) - (n + 2) + 1 : t[i] = s[(n + 2) + i - 1]
    <3>1. \A i \in n + 2 .. Len(s) : s[i] \in S
      BY <1>1
    <3> QED BY <1>1, <3>1, SubSeqProperties
  <2>3. /\ u \in Seq(S) /\ Len(u) = n + 1 /\ \A i \in 1 .. n + 1 : u[i] = s[i]
    <3>1. \A i \in 1 .. n + 1 : s[i] \in S
      BY <1>1, <2>1
    <3> QED BY <1>1, <3>1, SubSeqProperties
  <2>4. /\ v \in Seq(S) /\ Len(v) = n + 1 /\ v[n + 1] = s[n + 1]
        /\ \A i \in 1 .. n : v[i] = front[i]
    BY <1>1, <1>2, <2>1, AppendProperties
  <2>5. /\ Head(rest) = rest[1] /\ Tail(rest) \in Seq(S) /\ Len(Tail(rest)) = Len(rest) - 1
        /\ \A i \in 1 .. Len(rest) - 1 : Tail(rest)[i] = rest[i + 1]
    BY <1>3, <1>5, HeadTailProperties
  <2> HIDE DEF rest, front, t, u, v
  <2>6. u = v
    <3>1. \A i \in 1 .. n + 1 : u[i] = v[i]
      <4> TAKE i \in 1 .. n + 1
      <4>1. i \in 1 .. n \/ i = n + 1
        BY <1>1
      <4> QED BY <1>2, <2>3, <2>4, <4>1
    <3> QED BY <2>3, <2>4, <3>1, SeqEqual
  <2>7. Tail(rest) = t
    <3>1. Len(Tail(rest)) = Len(t) /\ Len(t) = Len(s) - n - 1
      <4>1. Len(t) = Len(s) - n - 1
        BY <1>1, <2>1, <2>2
      <4>2. Len(Tail(rest)) = (Len(s) - n) - 1
        BY <1>3, <2>5
      <4> QED BY <1>1, <4>1, <4>2
    <3>2. ASSUME NEW i \in 1 .. Len(t) PROVE Tail(rest)[i] = t[i]
      <4>1. i \in 1 .. Len(s) - (n + 2) + 1 /\ i \in 1 .. Len(rest) - 1 /\ i + 1 \in 1 .. Len(s) - n
            /\ (n + 2) + i - 1 = n + (i + 1)
        BY <1>1, <1>3, <3>1
      <4> QED BY <1>3, <2>2, <2>5, <4>1
    <3> QED BY <2>2, <2>5, <3>1, <3>2, SeqEqual
  <2>8. Head(rest) = s[n + 1]
    <3>1. 1 \in 1 .. Len(s) - n
      BY <1>1, <2>1
    <3> QED BY <1>3, <2>5, <3>1
  <2> QED BY <2>1, <2>6, <2>7, <2>8 DEF t, u, v
<1> QED BY <1>2, <1>3, <1>4, <1>5

-----------------------------------------------------------------------------
(* Frames in step *)

(* What the peer sends comes behind what was ahead ...                     *)
LEMMA AheadSent ==
    ASSUME NEW b \in Seq(Nat), NEW w \in Seq(Nat), NEW o \in Nat, o <= Len(b),
           NEW e \in Seq(Nat), IsAhead(e, b, o, w), NEW c \in Seq(Nat)
    PROVE  IsAhead(e \o c, b, o, w \o c)
<1>1. PICK r \in Seq(Nat) : r = SubSeq(b, o + 1, Len(b))
  <2>1. Len(b) \in Nat
    BY LenProperties
  <2>2. SubSeq(b, o + 1, Len(b)) \in Seq(Nat)
    BY <2>1, PieceOf
  <2> QED BY <2>2
<1>2. (r \o w) \o c = r \o (w \o c)
  <2>1. Regroups(r, w, c)
    BY Regroup, Zenon
  <2> QED BY <2>1, Zenon DEF Regroups
<1>3. e = r \o w
  BY <1>1 DEF IsAhead
<1> QED BY <1>1, <1>2, <1>3 DEF IsAhead

(* ... and neither receiving some of it ...                                *)
LEMMA AheadReceived ==
    ASSUME NEW b \in Seq(Nat), NEW w \in Seq(Nat), NEW r \in 1 .. Len(w),
           NEW e \in Seq(Nat), IsAhead(e, b, 0, w)
    PROVE  IsAhead(e, b \o SubSeq(w, 1, r), 0, SubSeq(w, r + 1, Len(w)))
<1>1. PICK x \in Seq(Nat) : x = SubSeq(w, 1, r)
  BY SplitAt
<1>2. PICK y \in Seq(Nat) : y = SubSeq(w, r + 1, Len(w))
  BY SplitAt
<1>3. b \o w = (b \o x) \o y
  <2>1. (b \o << >>) \o w = (b \o x) \o y
    BY <1>1, <1>2, SplitAt, ZenonT(40)
  <2>2. b \o << >> = b
    BY ConcatEmptySeq
  <2> QED BY <2>1, <2>2
<1>4. b \o x \in Seq(Nat)
  BY ConcatProperties
<1>5. \A q \in Seq(Nat) : SubSeq(q, 0 + 1, Len(q)) = q
  BY SubSeqFull
<1>6. e = b \o w
  BY <1>5 DEF IsAhead
<1> QED BY <1>1, <1>2, <1>3, <1>4, <1>5, <1>6 DEF IsAhead

(* ... nor moving it to the start of the buffer changes what is ahead.     *)
LEMMA AheadMoved ==
    ASSUME NEW b \in Seq(Nat), NEW w \in Seq(Nat), NEW o \in Nat, o <= Len(b),
           NEW e \in Seq(Nat), IsAhead(e, b, o, w)
    PROVE  IsAhead(e, SubSeq(b, o + 1, Len(b)), 0, w)
<1>1. SubSeq(b, o + 1, Len(b)) \in Seq(Nat)
  <2>1. Len(b) \in Nat
    BY LenProperties
  <2> QED BY <2>1, PieceOf
<1>2. \A q \in Seq(Nat) : SubSeq(q, 0 + 1, Len(q)) = q
  BY SubSeqFull
<1> QED BY <1>1, <1>2 DEF IsAhead

(* One more frame sent leaves the first n as they were.                    *)
LEMMA FrontStays ==
    ASSUME NEW S, NEW s \in Seq(S), NEW m \in S, NEW n \in 0 .. Len(s)
    PROVE  SubSeq(Append(s, m), 1, n) = SubSeq(s, 1, n)
<1>1. n \in Nat /\ n <= Len(s) /\ Len(s) \in Nat
  OBVIOUS
<1> DEFINE t == Append(s, m)
           x == SubSeq(t, 0 + 1, n)
           y == SubSeq(s, 0 + 1, n)
<1>2. t \in Seq(S) /\ Len(t) = Len(s) + 1 /\ \A i \in 1 .. Len(s) : t[i] = s[i]
  BY AppendProperties
<1> HIDE DEF t
<1>3. x \in Seq(S) /\ Len(x) = n - 0 /\ \A i \in 1 .. n - 0 : x[i] = t[0 + i]
  BY <1>1, <1>2, PieceOf
<1>4. y \in Seq(S) /\ Len(y) = n - 0 /\ \A i \in 1 .. n - 0 : y[i] = s[0 + i]
  BY <1>1, PieceOf
<1> HIDE DEF x, y
<1>5. \A i \in 1 .. n : x[i] = y[i]
  BY <1>1, <1>2, <1>3, <1>4, SMTT(30)
<1>6. x = y
  BY <1>1, <1>3, <1>4, <1>5, SeqEqual
<1> QED BY <1>6 DEF x, y, t

(* When the server waits for more, the loop has taken all it could.        *)
Parsed == pc = "idle" => off = 0 /\ (HasHeader => ~Bogus /\ ~Complete)

(* The parser is behind the first n frames sent.                           *)
Behind(n) == /\ handled = Selected(SubSeq(sent, 1, n))
             /\ IsAhead(Encodings(SubSeq(sent, n + 1, Len(sent))), read_buf, off, wire)

StepInv == /\ Inv /\ Parsed /\ LegalAccepted
           /\ pc # "lost" => \E n \in 0 .. Len(sent) : Behind(n)

LEMMA BehindIsInStep == (pc # "lost" => \E n \in 0 .. Len(sent) : Behind(n)) <=> InStep
<1>1. ASSUME NEW n \in 0 .. Len(sent)
      PROVE  Behind(n) <=>
                /\ handled = Selected(SubSeq(sent, 1, n))
                /\ SubSeq(read_buf, off + 1, read_buf_len) \o wire
                      = Encodings(SubSeq(sent, n + 1, Len(sent)))
  BY DEF Behind, IsAhead, read_buf_len
<1> QED BY <1>1 DEF InStep

(* The header in the buffer is that of the next frame.                     *)
LEMMA HeaderOfNext ==
    ASSUME Inv, off <= read_buf_len, HasHeader, NEW n \in 0 .. Len(sent), Behind(n)
    PROVE  /\ n + 1 \in 1 .. Len(sent) /\ sent[n + 1] \in Frames
           /\ type = sent[n + 1].type /\ len = Len(sent[n + 1].body)
           /\ SubSeq(sent, n + 1, Len(sent)) # << >>
<1>1. sent \in Seq(Frames) /\ read_buf \in Seq(Nat) /\ wire \in Seq(Nat) /\ off \in Nat
  BY DEF Inv, TypeOK
<1>2. PICK s \in Seq(Frames) : s = SubSeq(sent, n + 1, Len(sent))
  BY <1>1, Divided
<1>3. IsAhead(Encodings(s), read_buf, off, wire)
  BY <1>2 DEF Behind
<1>4. off + 3 <= Len(read_buf)
  <2>1. Len(read_buf) \in Nat
    BY <1>1, LenProperties
  <2> QED BY <1>1, <2>1 DEF HasHeader, HdrSize, read_buf_len
<1>5. /\ s # << >> /\ Head(s) \in Frames
      /\ read_buf[off + 1] = 0 /\ read_buf[off + 2] = Head(s).type
      /\ read_buf[off + 3] = Len(Head(s).body)
  BY <1>1, <1>3, <1>4, ReadHeader
<1>6. n + 1 \in 1 .. Len(sent) /\ Head(s) = sent[n + 1]
  BY <1>1, <1>2, <1>5, Divided
<1>7. Head(s).type \in Nat
  <2>1. \A x \in 0 .. 255 : x \in Nat
    OBVIOUS
  <2> QED BY <1>5, <2>1, EncodedBytes, Zenon
<1>8. type = Head(s).type
  BY <1>5, <1>7 DEF type
<1>9. len = Len(Head(s).body)
  BY <1>5 DEF len
<1> QED BY <1>2, <1>5, <1>6, <1>8, <1>9

(* Taking a frame takes the next one, and leaves the parser behind it.     *)
LEMMA TakesNext ==
    ASSUME Inv, off <= read_buf_len, HasHeader, Complete, NEW n \in 0 .. Len(sent), Behind(n)
    PROVE  /\ n + 1 \in 1 .. Len(sent) /\ n + 1 \in 0 .. Len(sent)
           /\ sent[n + 1] \in Frames /\ Frame = sent[n + 1]
           /\ type \in {1, 2} <=> sent[n + 1] \in Known
           /\ Selected(SubSeq(sent, 1, n + 1)) =
                 IF type \in {1, 2} THEN Append(handled, Frame) ELSE handled
           /\ IsAhead(Encodings(SubSeq(sent, (n + 1) + 1, Len(sent))),
                      Terminated, off + HdrSize + len, wire)
<1>1. sent \in Seq(Frames) /\ read_buf \in Seq(Nat) /\ wire \in Seq(Nat) /\ off \in Nat
  BY DEF Inv, TypeOK
<1>2. PICK s \in Seq(Frames) : s = SubSeq(sent, n + 1, Len(sent))
  BY <1>1, Divided
<1>3. /\ n + 1 \in 1 .. Len(sent) /\ sent[n + 1] \in Frames
      /\ type = sent[n + 1].type /\ len = Len(sent[n + 1].body) /\ s # << >>
  BY <1>2, HeaderOfNext
<1>4. /\ Head(s) = sent[n + 1] /\ Tail(s) = SubSeq(sent, n + 2, Len(sent))
      /\ SubSeq(sent, 1, n + 1) = Append(SubSeq(sent, 1, n), sent[n + 1])
      /\ SubSeq(sent, 1, n) \in Seq(Frames)
  BY <1>1, <1>2, <1>3, Divided
<1>5. PICK m \in Frames : m = sent[n + 1]
  BY <1>3
<1>6. PICK body \in Seq(Nat) : body = m.body
  BY EncodedBytes
<1>7. PICK L \in Nat : L = Len(body) /\ L = len
  BY <1>3, <1>5, <1>6, LenProperties
<1>8. PICK at \in Nat : at = (off + 3) + L
  BY <1>1
<1>9. off + HdrSize + len = at /\ at <= Len(read_buf)
  <2>1. Len(read_buf) \in Nat
    BY <1>1, LenProperties
  <2> QED BY <1>1, <1>7, <1>8, <2>1 DEF HdrSize, Complete, read_buf_len
<1>10. FirstBody(s, body, L)
  BY <1>3, <1>4, <1>5, <1>6, <1>7 DEF FirstBody
<1>11. /\ SubSeq(read_buf, off + 4, at) = body
       /\ IsAhead(Encodings(Tail(s)), Zeroed(read_buf, at), at, wire)
  <2>1. IsAhead(Encodings(s), read_buf, off, wire)
    BY <1>2 DEF Behind
  <2> QED BY <1>1, <1>8, <1>9, <1>10, <2>1, ReadBody
<1>12. Frame = m
  <2>1. SubSeq(read_buf, off + HdrSize + 1, off + HdrSize + len) = body
    <3>1. off + HdrSize + 1 = off + 4
      BY <1>1 DEF HdrSize
    <3> QED BY <1>9, <1>11, <3>1
  <2>2. m = [type |-> m.type, body |-> m.body]
    BY BufferAssumption
  <2> QED BY <1>3, <1>5, <1>6, <2>1, <2>2 DEF Frame
<1>13. type \in {1, 2} <=> m \in Known
  BY <1>3, <1>5 DEF Known
<1>14. Terminated = Zeroed(read_buf, at)
  BY <1>9 DEF Terminated, Zeroed, read_buf_len
<1>15. Selected(SubSeq(sent, 1, n + 1)) = IF m \in Known THEN Append(handled, m) ELSE handled
  <2>1. Selected(Append(SubSeq(sent, 1, n), m)) =
           IF m \in Known THEN Append(Selected(SubSeq(sent, 1, n)), m)
           ELSE Selected(SubSeq(sent, 1, n))
    BY <1>4, SelectedProps
  <2>2. handled = Selected(SubSeq(sent, 1, n))
    BY DEF Behind
  <2> QED BY <1>4, <1>5, <2>1, <2>2
<1>16. (n + 1) + 1 = n + 2 /\ n + 1 \in 0 .. Len(sent)
  BY <1>3
<1> QED BY <1>3, <1>4, <1>5, <1>9, <1>11, <1>12, <1>13, <1>14, <1>15, <1>16

(* Nothing sent, nothing received: a parser at the start.                  *)
LEMMA NothingAhead ==
    /\ << >> = Selected(SubSeq(<< >>, 1, 0))
    /\ IsAhead(Encodings(SubSeq(<< >>, 0 + 1, Len(<< >>))), << >>, 0, << >>)
<1>1. SubSeq(<< >>, 1, 0) = << >> /\ SubSeq(<< >>, 0 + 1, Len(<< >>)) = << >>
  OBVIOUS
<1>2. << >> \o << >> = << >>
  OBVIOUS
<1>3. << >> = SubSeq(<< >>, 0 + 1, Len(<< >>)) \o << >>
  BY <1>1, <1>2, Zenon
<1> QED BY <1>1, <1>3, NoFrames, Zenon DEF IsAhead

LEMMA InitStep == Init => StepInv
<1> SUFFICES ASSUME Init PROVE StepInv
  OBVIOUS
<1>1. Inv
  BY InitInv
<1>2. << >> \in Seq(Frames) /\ << >> \in Seq(Nat) /\ Len(<< >>) = 0
  BY EmptySeq
<1>3. sent = << >> /\ handled = << >> /\ read_buf = << >> /\ wire = << >> /\ off = 0
  BY DEF Init
<1>4. 0 \in 0 .. Len(sent) /\ Behind(0)
  <2>1. Behind(0)
    BY <1>3, NothingAhead, Zenon DEF Behind
  <2> QED BY <1>2, <1>3, <2>1
<1>5. Parsed
  BY <1>2, <1>3 DEF Parsed, HasHeader, HdrSize, read_buf_len
<1>6. LegalAccepted
  BY DEF Init, LegalAccepted
<1> QED BY <1>1, <1>4, <1>5, <1>6 DEF StepInv

(* Every step keeps the parser at the start of a frame.                    *)
LEMMA NextStep == StepInv /\ [Next]_vars => StepInv'
<1> SUFFICES ASSUME StepInv, [Next]_vars PROVE StepInv'
  OBVIOUS
<1>0. Inv /\ Inv'
  BY NextInv DEF StepInv
<1>1. /\ sent \in Seq(Frames) /\ read_buf \in Seq(Nat) /\ wire \in Seq(Nat) /\ off \in Nat
      /\ Len(sent) \in Nat /\ Len(read_buf) \in Nat /\ read_buf_len = Len(read_buf)
      /\ pc = "parse" => off <= Len(read_buf)
      /\ pc = "idle" => off = 0
  BY <1>0, LenProperties DEF StepInv, Parsed, Inv, TypeOK, InBuffer, read_buf_len
<1>2. pc # "lost" => off <= Len(read_buf)
  <2>1. pc \in {"idle", "parse", "lost"}
    BY <1>0 DEF Inv, TypeOK
  <2> QED BY <1>1, <2>1
<1>3. ASSUME NEW m \in Frames, Send(m) PROVE StepInv'
  <2>1. PICK n \in 0 .. Len(sent) : Behind(n)
    BY <1>3 DEF Send, StepInv
  <2>2. sent' = Append(sent, m) /\ wire' = wire \o Encoded(m)
    BY <1>3 DEF Send
  <2>3. handled' = handled /\ read_buf' = read_buf /\ off' = off /\ pc' = pc /\ reason' = reason
    BY <1>3 DEF Send
  <2>4. /\ Len(sent') = Len(sent) + 1 /\ n \in 0 .. Len(sent')
        /\ \A i \in 1 .. Len(sent) : sent'[i] = sent[i]
    BY <1>1, <2>2, AppendProperties
  <2>5. SubSeq(sent', 1, n) = SubSeq(sent, 1, n)
    BY <1>1, <2>2, FrontStays
  <2>6. PICK s \in Seq(Frames) : s = SubSeq(sent, n + 1, Len(sent))
    BY <1>1, Divided
  <2>7. SubSeq(sent', n + 1, Len(sent')) = Append(s, m)
    <3>1. SubSeq(Append(sent, m), n + 1, Len(Append(sent, m)))
             = Append(SubSeq(sent, n + 1, Len(sent)), m)
      <4>1. n \in Nat /\ n <= Len(sent)
        BY <1>1
      <4>2. RestAppends(sent, n, m)
        BY <1>1, <1>3, <4>1, RestGrows, Zenon
      <4> QED BY <4>2 DEF RestAppends
    <3> QED BY <2>2, <2>6, <3>1
  <2>8. PICK e \in Seq(Nat) : e = Encodings(s)
    BY EncodingsProps
  <2>9. PICK c \in Seq(Nat) : c = Encoded(m)
    BY EncodedBytes
  <2>10. Encodings(Append(s, m)) = e \o c
    BY <2>8, <2>9, EncodingsProps
  <2>11. IsAhead(e \o c, read_buf, off, wire \o c)
    <3>1. IsAhead(e, read_buf, off, wire)
      BY <2>1, <2>6, <2>8 DEF Behind
    <3>2. off <= Len(read_buf)
      BY <1>2, <1>3 DEF Send
    <3> QED BY <1>1, <3>1, <3>2, AheadSent
  <2>12. Behind(n)'
    <3>1. handled' = Selected(SubSeq(sent', 1, n))
      BY <2>1, <2>3, <2>5 DEF Behind
    <3>2. IsAhead(Encodings(SubSeq(sent', n + 1, Len(sent'))), read_buf', off', wire')
      BY <2>2, <2>3, <2>7, <2>9, <2>10, <2>11
    <3> QED BY <3>1, <3>2 DEF Behind
  <2>13. Parsed'
    BY <2>3 DEF StepInv, Parsed, HasHeader, Bogus, Complete, len, read_buf_len
  <2>14. LegalAccepted'
    <3>1. \A i \in 1 .. Len(sent) : i \in 1 .. Len(sent')
      BY <1>1, <2>4
    <3>2. (\A i \in 1 .. Len(sent') : Len(sent'[i].body) <= ReadBufSize - HdrSize)
            => \A i \in 1 .. Len(sent) : Len(sent[i].body) <= ReadBufSize - HdrSize
      BY <2>4, <3>1
    <3> QED BY <2>3, <3>2 DEF StepInv, LegalAccepted
  <2> QED BY <1>0, <2>4, <2>12, <2>13, <2>14 DEF StepInv
<1>4. CASE Close
  BY <1>0, <1>4 DEF Close, StepInv, Parsed, HasHeader, Bogus, Complete, len, read_buf_len,
                    LegalAccepted, Behind
<1>5. CASE Receive
  <2>1. PICK r \in 1 .. Len(wire) : /\ read_buf' = read_buf \o SubSeq(wire, 1, r)
                                     /\ wire' = SubSeq(wire, r + 1, Len(wire))
    BY <1>5 DEF Receive
  <2>2. off = 0 /\ off' = 0 /\ pc' = "parse" /\ sent' = sent /\ handled' = handled /\ reason' = reason
    BY <1>1, <1>5 DEF Receive
  <2>3. PICK n \in 0 .. Len(sent) : Behind(n)
    BY <1>5 DEF Receive, StepInv
  <2>4. PICK s \in Seq(Frames) : s = SubSeq(sent, n + 1, Len(sent))
    BY <1>1, Divided
  <2>5. IsAhead(Encodings(s), read_buf', 0, wire')
    <3>1. PICK e \in Seq(Nat) : e = Encodings(s)
      BY FirstBytes, NoFrames, EmptySeq
    <3>2. IsAhead(e, read_buf, 0, wire)
      BY <2>2, <2>3, <2>4, <3>1 DEF Behind
    <3>3. IsAhead(e, read_buf \o SubSeq(wire, 1, r), 0, SubSeq(wire, r + 1, Len(wire)))
      BY <1>1, <3>2, AheadReceived
    <3> QED BY <2>1, <3>1, <3>3
  <2>6. Behind(n)'
    BY <2>2, <2>3, <2>4, <2>5 DEF Behind
  <2> QED BY <1>0, <2>2, <2>6 DEF StepInv, Parsed, LegalAccepted
<1>6. CASE ReceiveNothing
  <2>1. pc' = "lost" /\ sent' = sent /\ reason' \in {"closed", "full"}
    BY <1>6 DEF ReceiveNothing, Drop
  <2> QED BY <1>0, <2>1 DEF StepInv, Parsed, LegalAccepted
<1>7. CASE BogusLength
  <2>1. pc = "parse" /\ HasHeader /\ Bogus /\ pc' = "lost" /\ sent' = sent
    BY <1>7 DEF BogusLength, Drop
  <2>2. PICK n \in 0 .. Len(sent) : Behind(n)
    BY <2>1 DEF StepInv
  <2>3. n + 1 \in 1 .. Len(sent) /\ len = Len(sent[n + 1].body)
    BY <1>0, <1>1, <2>1, <2>2, HeaderOfNext
  <2>4. ~(\A i \in 1 .. Len(sent) : Len(sent[i].body) <= ReadBufSize - HdrSize)
    <3>1. ~(len <= ReadBufSize - HdrSize)
      <4>1. sent[n + 1] \in Frames
        BY <1>1, <2>3
      <4>2. len \in Nat
        BY <2>3, <4>1, EncodedBytes
      <4>3. ReadBufSize \in Nat /\ HdrSize = 3
        BY BufferAssumption DEF HdrSize
      <4> QED BY <2>1, <4>2, <4>3 DEF Bogus
    <3> QED BY <2>3, <3>1
  <2> QED BY <1>0, <2>1, <2>4 DEF StepInv, Parsed, LegalAccepted
<1>8. CASE HandleFrame
  <2>1. pc = "parse" /\ HasHeader /\ Complete /\ pc' = pc /\ sent' = sent /\ reason' = reason
    BY <1>8 DEF HandleFrame
  <2>2. PICK n \in 0 .. Len(sent) : Behind(n)
    BY <2>1 DEF StepInv
  <2>3. /\ n + 1 \in 0 .. Len(sent)
        /\ Selected(SubSeq(sent, 1, n + 1)) =
              IF type \in {1, 2} THEN Append(handled, Frame) ELSE handled
        /\ IsAhead(Encodings(SubSeq(sent, (n + 1) + 1, Len(sent))),
                   Terminated, off + HdrSize + len, wire)
    BY <1>0, <1>1, <2>1, <2>2, TakesNext
  <2>4. /\ read_buf' = Terminated /\ off' = off + HdrSize + len /\ wire' = wire
        /\ handled' = IF type \in {1, 2} THEN Append(handled, Frame) ELSE handled
    BY <1>8 DEF HandleFrame
  <2>5. handled' = Selected(SubSeq(sent', 1, n + 1))
    BY <2>1, <2>3, <2>4
  <2>6. IsAhead(Encodings(SubSeq(sent', (n + 1) + 1, Len(sent'))), read_buf', off', wire')
    BY <2>1, <2>3, <2>4
  <2>7. Behind(n + 1)'
    BY <2>5, <2>6 DEF Behind
  <2> QED BY <1>0, <2>1, <2>3, <2>7 DEF StepInv, Parsed, LegalAccepted
<1>9. CASE RefuseFrame
  <2>1. pc' = "lost" /\ sent' = sent /\ reason' = "refused"
    BY <1>9 DEF RefuseFrame, Drop
  <2> QED BY <1>0, <2>1 DEF StepInv, Parsed, LegalAccepted
<1>10. CASE Compact
  <2>1. /\ pc = "parse" /\ (HasHeader => ~Bogus /\ ~Complete)
        /\ read_buf' = SubSeq(read_buf, off + 1, Len(read_buf)) /\ off' = 0
        /\ sent' = sent /\ handled' = handled /\ wire' = wire /\ reason' = reason
    BY <1>10 DEF Compact, read_buf_len
  <2>2. PICK n \in 0 .. Len(sent) : Behind(n)
    BY <2>1 DEF StepInv
  <2>3. PICK s \in Seq(Frames) : s = SubSeq(sent, n + 1, Len(sent))
    BY <1>1, Divided
  <2>4. IsAhead(Encodings(s), read_buf', 0, wire)
    <3>1. PICK e \in Seq(Nat) : e = Encodings(s)
      BY FirstBytes, NoFrames, EmptySeq
    <3>2. IsAhead(e, read_buf, off, wire)
      BY <2>2, <2>3, <3>1 DEF Behind
    <3>3. off <= Len(read_buf)
      BY <1>1, <2>1
    <3>4. IsAhead(e, SubSeq(read_buf, off + 1, Len(read_buf)), 0, wire)
      BY <1>1, <3>2, <3>3, AheadMoved
    <3> QED BY <2>1, <3>1, <3>4
  <2>5. Behind(n)'
    BY <2>1, <2>2, <2>3, <2>4 DEF Behind
  <2>6. Parsed'
    <3>1. /\ Len(read_buf') = Len(read_buf) - off
          /\ \A i \in 1 .. Len(read_buf) - off : read_buf'[i] = read_buf[off + i]
      BY <1>1, <2>1, PieceOf
    <3>2. HasHeader' <=> HasHeader
      BY <1>1, <2>1, <3>1 DEF HasHeader, HdrSize, read_buf_len
    <3>3. HasHeader => len' = len
      <4>1. HasHeader => 3 \in 1 .. Len(read_buf) - off
        BY <1>1 DEF HasHeader, HdrSize
      <4>2. len' = read_buf'[3] /\ len = read_buf[off + 3]
        BY <2>1 DEF len
      <4> QED BY <3>1, <4>1, <4>2
    <3>4. HasHeader => len \in Nat
      <4>1. HasHeader => off + 3 \in 1 .. Len(read_buf)
        BY <1>1 DEF HasHeader, HdrSize
      <4> QED BY <1>1, <4>1 DEF len
    <3>5. HasHeader => (Bogus' <=> Bogus)
      BY <3>3 DEF Bogus, HdrSize
    <3>6. HasHeader => (Complete' <=> Complete)
      BY <1>1, <2>1, <3>1, <3>3, <3>4 DEF Complete, HdrSize, read_buf_len
    <3> QED BY <2>1, <3>2, <3>5, <3>6 DEF Parsed
  <2> QED BY <1>0, <2>1, <2>5, <2>6 DEF StepInv, LegalAccepted
<1>11. CASE Reconnect
  <2>1. /\ sent' = << >> /\ handled' = << >> /\ read_buf' = << >> /\ wire' = << >>
        /\ off' = 0 /\ reason' = "none"
    BY <1>11 DEF Reconnect
  <2>2. Len(<< >>) = 0
    BY EmptySeq
  <2>3. 0 \in 0 .. Len(sent') /\ Behind(0)'
    <3>1. Behind(0)'
      BY <2>1, NothingAhead, Zenon DEF Behind
    <3> QED BY <2>1, <2>2, <3>1
  <2>4. Parsed'
    BY <2>1, <2>2 DEF Parsed, HasHeader, HdrSize, read_buf_len
  <2> QED BY <1>0, <2>1, <2>3, <2>4 DEF StepInv, LegalAccepted
<1>12. CASE UNCHANGED vars
  BY <1>0, <1>12 DEF vars, StepInv, Parsed, HasHeader, Bogus, Complete, len, read_buf_len,
                     LegalAccepted, Behind
<1> QED BY <1>3, <1>4, <1>5, <1>6, <1>7, <1>8, <1>9, <1>10, <1>11, <1>12 DEF Next

(* The frames handled are those sent up to where the parser is, the bytes  *)
(* behind it are those not handled, and it stops only where it must: so it *)
(* is from the start, and so every step leaves it.                         *)
THEOREM StepSafe == Spec => []StepInv
<1> QED BY InitStep, NextStep, PTL DEF Spec

(* client_handle_data never loses its place in the stream: terminators and *)
(* compaction leave the bytes it has not parsed as the peer sent them.     *)
THEOREM FramesInStep == Spec => []InStep
<1>1. StepInv => InStep
  BY BehindIsInStep DEF StepInv
<1> QED BY <1>1, StepSafe, PTL

(* A peer is dropped for a bogus length only if it sent a frame longer     *)
(* than read_buf can hold.                                                 *)
THEOREM LegalStays == Spec => []LegalAccepted
<1>1. StepInv => LegalAccepted
  BY DEF StepInv
<1> QED BY <1>1, StepSafe, PTL

(* The loop of client_handle_data ends with no whole frame left over.      *)
THEOREM NothingWaits == Spec => []NoneWaiting
<1>1. ASSUME StepInv, pc = "idle", wire = << >> PROVE handled = Selected(sent)
  <2>1. /\ sent \in Seq(Frames) /\ read_buf \in Seq(Nat) /\ wire \in Seq(Nat)
        /\ off = 0 /\ (HasHeader => ~Bogus /\ ~Complete)
        /\ Len(sent) \in Nat /\ Len(read_buf) \in Nat /\ Len(wire) = 0
    BY <1>1, EmptySeq, LenProperties DEF StepInv, Inv, TypeOK, Parsed
  <2>2. PICK n \in 0 .. Len(sent) : Behind(n)
    BY <1>1 DEF StepInv
  <2>3. PICK s \in Seq(Frames) : s = SubSeq(sent, n + 1, Len(sent))
    BY <2>1, Divided
  <2>4. CASE s # << >>
    <3>1. PICK e \in Seq(Nat) : /\ e = Encodings(s) /\ Len(e) >= 3
                                /\ Len(e) >= 3 + Len(Head(s).body)
      <4>1. PICK r \in Seq(Nat) : r = Encodings(Tail(s))
        BY <2>4, FirstBytes
      <4>2. PICK m \in Frames : m = Head(s)
        BY <2>4, FirstBytes
      <4>3. PICK e \in Seq(Nat) : e = Encodings(s) /\ Len(e) = 3 + Len(m.body) + Len(r)
        BY <2>4, <4>1, <4>2, FirstBytes
      <4>4. Len(m.body) \in Nat /\ Len(r) \in Nat
        BY EncodedBytes, LenProperties
      <4>5. Len(e) >= 3 /\ Len(e) >= 3 + Len(m.body)
        BY <4>3, <4>4
      <4> QED BY <4>2, <4>3, <4>5
    <3>2. Positions(e, read_buf, off, wire)
      <4>1. IsAhead(e, read_buf, off, wire) /\ off \in Nat /\ off <= Len(read_buf)
        BY <2>1, <2>2, <2>3, <3>1 DEF Behind
      <4> QED BY <2>1, <4>1, BehindOffset, Zenon
    <3>3. Len(e) = Len(read_buf)
      BY <2>1, <3>2 DEF Positions
    <3>4. HasHeader
      BY <2>1, <3>1, <3>3 DEF HasHeader, HdrSize, read_buf_len
    <3>5. /\ n + 1 \in 1 .. Len(sent) /\ len = Len(sent[n + 1].body)
          /\ Head(s) = sent[n + 1]
      <4>1. off <= read_buf_len
        BY <2>1 DEF read_buf_len
      <4>2. n + 1 \in 1 .. Len(sent) /\ len = Len(sent[n + 1].body)
        BY <1>1, <2>2, <3>4, <4>1, HeaderOfNext DEF StepInv
      <4> QED BY <2>1, <2>3, <2>4, <4>2, Divided
    <3>6. Complete
      BY <2>1, <3>1, <3>3, <3>5, SMTT(30) DEF Complete, HdrSize, read_buf_len
    <3> QED BY <2>1, <3>4, <3>6
  <2>5. CASE s = << >>
    <3>1. n = Len(sent)
      BY <2>1, <2>3, <2>5, Divided
    <3>2. SubSeq(sent, 1, Len(sent)) = sent
      BY <2>1, SubSeqFull
    <3> QED BY <2>2, <3>1, <3>2 DEF Behind
  <2> QED BY <2>4, <2>5
<1>2. StepInv => NoneWaiting
  BY <1>1 DEF NoneWaiting
<1> QED BY <1>2, StepSafe, PTL

-----------------------------------------------------------------------------
(* The channel *)

(* Each step of the read buffer is a step of the channel, or none.         *)
LEMMA StepOfChannel == StepInv /\ [Next]_vars => [Channel!Next]_(Channel!channelVars)
<1> SUFFICES ASSUME StepInv, [Next]_vars PROVE [Channel!Next]_(Channel!channelVars)
  OBVIOUS
<1> USE DEF Channel!channelVars
<1>1. ASSUME NEW m \in Frames, Send(m) PROVE Channel!Next
  BY <1>1 DEF Send, Channel!Next, Channel!Send
<1>2. ASSUME pc = "parse", HasHeader, Complete, type \in {1, 2}, sent' = sent,
             handled' = Append(handled, Frame)
      PROVE  Channel!Next
  <2>1. /\ sent \in Seq(Frames) /\ Len(sent) \in Nat /\ off <= read_buf_len /\ Inv
    BY <1>2, LenProperties DEF StepInv, Inv, TypeOK, InBuffer
  <2>2. PICK n \in 0 .. Len(sent) : Behind(n)
    BY <1>2 DEF StepInv
  <2>3. n + 1 \in 1 .. Len(sent) /\ Frame = sent[n + 1] /\ sent[n + 1] \in Known
    BY <1>2, <2>1, <2>2, TakesNext
  <2>4. handled = Channel!Selected(SubSeq(sent, 1, n))
    BY <2>2 DEF Behind, Selected, Channel!Selected,
                FlattenSeq, Channel!FlattenSeq
  <2>5. (n + 1) - 1 = n
    BY <2>1
  <2>6. Channel!Handle
    BY <1>2, <2>3, <2>4, <2>5 DEF Channel!Handle
  <2> QED BY <2>6 DEF Channel!Next
<1>3. CASE HandleFrame
  <2>1. CASE type \in {1, 2}
    BY <1>2, <1>3, <2>1 DEF HandleFrame
  <2>2. CASE type \notin {1, 2}
    BY <1>3, <2>2 DEF HandleFrame
  <2> QED BY <2>1, <2>2
<1>4. CASE RefuseFrame
  <2>1. CASE handled' = handled
    BY <1>4, <2>1 DEF RefuseFrame, Drop
  <2>2. CASE handled' = Append(handled, Frame)
    BY <1>2, <1>4, <2>2 DEF RefuseFrame, Drop
  <2> QED BY <1>4, <2>1, <2>2 DEF RefuseFrame
<1>5. CASE Reconnect
  BY <1>5 DEF Reconnect, Channel!Next, Channel!Reset
<1>6. CASE Close \/ Receive \/ Compact
  BY <1>6 DEF Close, Receive, Compact
<1>7. CASE ReceiveNothing \/ BogusLength
  BY <1>7 DEF ReceiveNothing, BogusLength, Drop
<1>8. CASE UNCHANGED vars
  BY <1>8 DEF vars
<1> QED BY <1>1, <1>3, <1>4, <1>5, <1>6, <1>7, <1>8 DEF Next

(* send_message and client_handle_data together are a channel of frames:   *)
(* each comes out whole, in order and once, whatever TCP does to the bytes *)
(* and whatever an earlier connection left in the buffer.                  *)
THEOREM ImplementsChannel == Spec => Framing
<1>1. Init => Channel!Init
  BY DEF Init, Channel!Init
<1> QED BY <1>1, StepOfChannel, StepSafe, PTL DEF Spec, Framing, Channel!Spec

=============================================================================
