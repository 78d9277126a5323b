------------------------- MODULE PublicationProofs --------------------------
(***************************************************************************)
(* Proofs about module Publication, for any runs of the publisher, any     *)
(* datagrams and any buffers: what TLC checks on a few datagrams of a few  *)
(* bytes.                                                                  *)
(***************************************************************************)
EXTENDS Publication, SequenceLemmas, TLAPS

-----------------------------------------------------------------------------
(* "%u" of a port *)

Digit == 48 .. 57

(* The provers would write the literal range out.                          *)
RangeTo(N) == 0 .. N

LEMMA PortRange == \A m : m \in Port <=> m \in Nat /\ m <= 65535
<1>1. \A N \in Nat : \A m : m \in RangeTo(N) <=> m \in Nat /\ m <= N
  BY DEF RangeTo
<1>2. PICK N \in Nat : N = 65535
  OBVIOUS
<1>3. Port = RangeTo(N)
  BY <1>2 DEF Port, RangeTo
<1> QED BY <1>1, <1>2, <1>3

(* What dividing a port by ten leaves.                                     *)
LEMMA PortDigits ==
    ASSUME NEW n \in Port
    PROVE  /\ n \in Nat /\ n < 100000
           /\ n \div 10 \in Port
           /\ Zero + (n % 10) \in Digit
           /\ n < 10 => Zero + n \in Digit
           /\ \A b \in Nat : n < 10 * b => n \div 10 < b
<1>1. n \in Nat /\ n <= 65535
  BY PortRange
<1>2. n \div 10 \in Nat /\ n \div 10 <= 65535
  BY <1>1
<1>3. n \div 10 \in Port
  BY <1>2, PortRange
<1>4. Zero + (n % 10) \in Digit
  BY <1>1 DEF Zero, Digit
<1>5. ASSUME n < 10 PROVE Zero + n \in Digit
  <2>1. 48 + n \in Nat /\ 48 <= 48 + n /\ 48 + n <= 57
    BY <1>1, <1>5
  <2> QED BY <2>1 DEF Zero, Digit
<1>6. ASSUME NEW b \in Nat, n < 10 * b PROVE n \div 10 < b
  BY <1>1, <1>6
<1> QED BY <1>1, <1>3, <1>4, <1>5, <1>6

(* One step of the recursion, on the digits f of shorter numbers.          *)
DigitsFrom(f) == [n \in Port |-> IF n < 10 THEN <<Zero + n>>
                                 ELSE f[n \div 10] \o <<Zero + (n % 10)>>]

AgreeBelow(f, g, b) == \A n \in Port : n < b => f[n] = g[n]

(* A digit more, and numbers ten times as large.                           *)
LEMMA AgreeFurther ==
    ASSUME NEW f, NEW g, NEW b \in Nat, AgreeBelow(f, g, b)
    PROVE  AgreeBelow(DigitsFrom(f), DigitsFrom(g), 10 * b)
<1> SUFFICES ASSUME NEW n \in Port, n < 10 * b PROVE DigitsFrom(f)[n] = DigitsFrom(g)[n]
  BY DEF AgreeBelow
<1>1. n \div 10 \in Port /\ n \div 10 < b
  BY PortDigits
<1>2. f[n \div 10] = g[n \div 10]
  BY <1>1 DEF AgreeBelow
<1> QED BY <1>2 DEF DigitsFrom

(* The function by which Decimal is defined exists: five digits are enough.*)
LEMMA DecimalEquation == Decimal = DigitsFrom(Decimal)
<1> DEFINE f1 == [n \in Port |-> <<Zero + n>>]
<1> DEFINE f2 == DigitsFrom(f1)
<1> DEFINE f3 == DigitsFrom(f2)
<1> DEFINE f4 == DigitsFrom(f3)
<1> DEFINE f5 == DigitsFrom(f4)
<1>1. AgreeBelow(f1, f2, 10)
  BY DEF AgreeBelow, DigitsFrom
<1> HIDE DEF f1
<1>2. AgreeBelow(f2, f3, 10 * 10)
  BY <1>1, AgreeFurther
<1>3. AgreeBelow(f3, f4, 10 * (10 * 10))
  <2> HIDE DEF f2
  <2> QED BY <1>2, AgreeFurther
<1>4. AgreeBelow(f4, f5, 10 * (10 * (10 * 10)))
  <2> HIDE DEF f3
  <2> QED BY <1>3, AgreeFurther
<1>5. AgreeBelow(f5, DigitsFrom(f5), 10 * (10 * (10 * (10 * 10))))
  <2> HIDE DEF f4
  <2> QED BY <1>4, AgreeFurther
<1>6. f5 = DigitsFrom(f5)
  <2>1. \A n \in Port : f5[n] = DigitsFrom(f5)[n]
    <3> HIDE DEF f5
    <3>1. \A n \in Port : n < 10 * (10 * (10 * (10 * 10)))
      BY PortDigits
    <3> QED BY <1>5, <3>1 DEF AgreeBelow
  <2>2. f5 = [n \in Port |-> f5[n]]
    <3> HIDE DEF f4
    <3> QED BY DEF DigitsFrom
  <2> HIDE DEF f5
  <2>3. DigitsFrom(f5) = [n \in Port |-> DigitsFrom(f5)[n]]
    BY DEF DigitsFrom
  <2> QED BY <2>1, <2>2, <2>3
<1> HIDE DEF f5
<1>7. \E f : f = DigitsFrom(f)
  BY <1>6
<1>8. Decimal = CHOOSE f : f = DigitsFrom(f)
  BY DEF Decimal, DigitsFrom, Port
<1> QED BY <1>7, <1>8

(* Up to b a number has at most w digits.                                  *)
DigitsBelow(b, w) ==
    \A n \in Port : n < b => Decimal[n] \in Seq(Digit) /\ Len(Decimal[n]) \in 1 .. w

LEMMA DigitsFurther ==
    ASSUME NEW b \in Nat, NEW w \in Nat, DigitsBelow(b, w), w > 0
    PROVE  DigitsBelow(10 * b, w + 1)
<1> SUFFICES ASSUME NEW n \in Port, n < 10 * b
             PROVE  Decimal[n] \in Seq(Digit) /\ Len(Decimal[n]) \in 1 .. w + 1
  BY DEF DigitsBelow
<1>1. Decimal[n] = IF n < 10 THEN <<Zero + n>> ELSE Decimal[n \div 10] \o <<Zero + (n % 10)>>
  BY DecimalEquation DEF DigitsFrom
<1>2. CASE n < 10
  <2>1. Zero + n \in Digit
    BY <1>2, PortDigits
  <2> QED BY <1>1, <1>2, <2>1
<1>3. CASE ~(n < 10)
  <2>1. n \div 10 \in Port /\ n \div 10 < b /\ Zero + (n % 10) \in Digit
    BY PortDigits
  <2>2. Decimal[n \div 10] \in Seq(Digit) /\ Len(Decimal[n \div 10]) \in 1 .. w
    BY <2>1 DEF DigitsBelow
  <2>3. <<Zero + (n % 10)>> \in Seq(Digit) /\ Len(<<Zero + (n % 10)>>) = 1
    BY <2>1
  <2> QED BY <1>1, <1>3, <2>2, <2>3, ConcatProperties
<1> QED BY <1>2, <1>3

(* A port has one to five digits, and nothing else.                        *)
LEMMA DecimalDigits ==
    ASSUME NEW n \in Port
    PROVE  Decimal[n] \in Seq(Digit) /\ Len(Decimal[n]) \in 1 .. 5
<1>1. DigitsBelow(10, 1)
  <2> SUFFICES ASSUME NEW k \in Port, k < 10
               PROVE  Decimal[k] \in Seq(Digit) /\ Len(Decimal[k]) \in 1 .. 1
    BY DEF DigitsBelow
  <2>1. Decimal[k] = <<Zero + k>>
    BY DecimalEquation DEF DigitsFrom
  <2>2. Zero + k \in Digit
    BY PortDigits
  <2> QED BY <2>1, <2>2
<1>2. DigitsBelow(10 * 10, 1 + 1)
  BY <1>1, DigitsFurther
<1>3. DigitsBelow(10 * (10 * 10), (1 + 1) + 1)
  BY <1>2, DigitsFurther
<1>4. DigitsBelow(10 * (10 * (10 * 10)), ((1 + 1) + 1) + 1)
  BY <1>3, DigitsFurther
<1>5. DigitsBelow(10 * (10 * (10 * (10 * 10))), (((1 + 1) + 1) + 1) + 1)
  BY <1>4, DigitsFurther
<1>6. n < 10 * (10 * (10 * (10 * 10))) /\ (((1 + 1) + 1) + 1) + 1 = 5
  BY PortDigits
<1> QED BY <1>5, <1>6 DEF DigitsBelow

-----------------------------------------------------------------------------
(* The first separator *)

(* What is before and behind the first b.                                  *)
LEMMA FirstAt ==
    ASSUME NEW S, NEW a \in Seq(S), NEW r \in Seq(S), NEW b \in S,
           \A i \in 1 .. Len(a) : a[i] # b
    PROVE  LET s == a \o (<<b>> \o r)
           IN  Contains(s, b) /\ Before(s, b) = a /\ Behind(s, b) = r
<1> DEFINE tail == <<b>> \o r  s == a \o tail  n == Len(a) + 1
<1>1. tail \in Seq(S) /\ Len(tail) = Len(r) + 1 /\ tail[1] = b
      /\ \A j \in 1 .. Len(r) : tail[j + 1] = r[j]
  BY ConsProps
<1>2. Len(a) \in Nat /\ Len(r) \in Nat /\ n \in Nat /\ n = Len(a) + 1
  BY LenProperties
<1> HIDE DEF tail, n
<1>3. /\ s \in Seq(S) /\ Len(s) = Len(a) + Len(tail)
      /\ \A i \in 1 .. Len(a) + Len(tail) :
             s[i] = IF i <= Len(a) THEN a[i] ELSE tail[i - Len(a)]
  BY <1>1, ConcatProperties
<1> HIDE DEF s
<1>4. Len(s) = n + Len(r) /\ n \in 1 .. Len(s)
  BY <1>1, <1>2, <1>3
<1>5. s[n] = b
  <2>1. n \in 1 .. Len(a) + Len(tail) /\ ~(n <= Len(a)) /\ n - Len(a) = 1
    BY <1>1, <1>2
  <2> QED BY <1>1, <1>3, <2>1
<1>6. \A i \in 1 .. Len(a) : s[i] = a[i]
  <2> TAKE i \in 1 .. Len(a)
  <2>1. i \in 1 .. Len(a) + Len(tail) /\ i <= Len(a)
    BY <1>1, <1>2
  <2> QED BY <1>3, <2>1
<1>7. \A j \in 1 .. Len(r) : s[n + j] = r[j]
  <2> TAKE j \in 1 .. Len(r)
  <2>1. /\ n + j \in 1 .. Len(a) + Len(tail) /\ ~(n + j <= Len(a))
        /\ (n + j) - Len(a) = j + 1
    BY <1>1, <1>2
  <2> QED BY <1>1, <1>3, <2>1
<1> DEFINE I == {i \in 1 .. Len(s) : s[i] = b}
<1>8. Position(s, b) = IF I # {} THEN Min(I) ELSE 0
  BY DEF Position, SelectInSeq
<1>9. n \in I /\ \A i \in I : n <= i
  <2>1. ASSUME NEW i \in I PROVE n <= i
    <3>1. i \in 1 .. Len(s) /\ s[i] = b /\ i \in Nat
      BY <1>4
    <3>2. ~(i <= Len(a))
      BY <1>6, <3>1
    <3> QED BY <1>2, <3>1, <3>2
  <2> QED BY <1>4, <1>5, <2>1
<1>10. Min(I) = n
  <2>1. I \in SUBSET Nat
    BY <1>4
  <2> HIDE DEF I
  <2>2. Min(I) \in I /\ \A i \in I : Min(I) <= i
    BY <1>9, <2>1, LeastNat DEF Min
  <2>3. Min(I) \in Nat /\ n \in Nat /\ n <= Min(I) /\ Min(I) <= n
    BY <1>2, <1>9, <2>1, <2>2
  <2> QED BY <2>3
<1>11. Position(s, b) = n
  BY <1>8, <1>9, <1>10
<1>12. Contains(s, b)
  BY <1>4, <1>5 DEF Contains
<1>13. SubSeq(s, 1, n - 1) = a
  <2>1. n - 1 = Len(a) /\ Len(a) <= Len(s)
    BY <1>2, <1>4
  <2>2. SubSeq(s, 1, Len(a)) \in Seq(S) /\ Len(SubSeq(s, 1, Len(a))) = Len(a)
        /\ \A i \in 1 .. Len(a) : SubSeq(s, 1, Len(a))[i] = s[i]
    BY <1>2, <1>3, <2>1
  <2>3. SubSeq(s, 1, Len(a)) = a
    BY <1>6, <2>2, SeqEqual
  <2> QED BY <2>1, <2>3
<1>14. SubSeq(s, n + 1, Len(s)) = r
  <2> DEFINE t == SubSeq(s, n + 1, Len(s))
  <2>1. t \in Seq(S) /\ Len(t) = Len(s) - n /\ \A j \in 1 .. Len(s) - n : t[j] = s[n + j]
    <3>1. PICK N \in Nat : N = Len(s)
      BY <1>3
    <3>2. n \in Nat /\ n <= N /\ N <= Len(s) /\ s \in Seq(S)
      BY <1>2, <1>3, <1>4, <3>1
    <3> DEFINE u == SubSeq(s, n + 1, N)
    <3>3. u \in Seq(S) /\ Len(u) = N - n /\ \A j \in 1 .. N - n : u[j] = s[n + j]
      BY <3>2, PieceOf, Zenon
    <3> HIDE DEF u
    <3>4. u = t
      BY <3>1 DEF u
    <3> QED BY <3>1, <3>3, <3>4
  <2> HIDE DEF t
  <2>2. Len(s) - n = Len(r)
    BY <1>2, <1>4
  <2>3. t = r
    BY <1>7, <2>1, <2>2, SeqEqual
  <2> QED BY <2>3 DEF t
<1>15. n # 0
  BY <1>2
<1>16. Before(s, b) = a /\ Behind(s, b) = r
  BY <1>11, <1>13, <1>14, <1>15 DEF Before, Behind
<1> QED BY <1>12, <1>16 DEF s, tail

-----------------------------------------------------------------------------
(* The packet that is built is the packet that is read *)

(* The sizes, for citing.                                                  *)
LEMMA Sizes ==
    /\ HeaderSize \in Nat /\ TopicLen \in Nat /\ BufSize \in Nat /\ SubBufSize \in Nat
    /\ TopicLen > 0 /\ TopicLen <= BufSize
    /\ IpText \in Seq(Byte) /\ Len(IpText) \in Nat
    /\ \A i \in 1 .. Len(IpText) : IpText[i] # Space
    /\ Len(IpText) + 7 < HeaderSize
    /\ HeaderSize + BufSize <= SubBufSize
  BY PacketAssumption, LenProperties DEF Contains

(* The text of a port: bytes, none of which is a space.                    *)
LEMMA PortText ==
    ASSUME NEW n \in Port
    PROVE  /\ Decimal[n] \in Seq(Byte) /\ Len(Decimal[n]) \in Nat /\ Len(Decimal[n]) <= 5
           /\ \A i \in 1 .. Len(Decimal[n]) : Decimal[n][i] # Space
<1>1. Decimal[n] \in Seq(Digit) /\ Len(Decimal[n]) \in 1 .. 5
  BY DecimalDigits
<1>2. \A d \in Digit : d \in Byte /\ d # Space
  BY DEF Digit, Byte, Space
<1> DEFINE s == Decimal[n]
<1>3. s \in Seq(Digit) /\ Len(s) \in 1 .. 5
  BY <1>1
<1> HIDE DEF s
<1>4. s \in Seq(Byte) /\ \A i \in 1 .. Len(s) : s[i] # Space
  <2>1. \A i \in 1 .. Len(s) : s[i] \in Digit
    BY <1>3
  <2>2. \A i \in 1 .. Len(s) : s[i] \in Byte /\ s[i] # Space
    BY <1>2, <2>1
  <2> QED BY <1>3, <2>2
<1>5. Len(s) \in Nat /\ Len(s) <= 5
  <2> DEFINE l == Len(s)
  <2>1. l \in 1 .. 5
    BY <1>3
  <2> HIDE DEF l
  <2>2. l \in Nat /\ l <= 5
    BY <2>1
  <2> QED BY <2>2 DEF l
<1> QED BY <1>4, <1>5 DEF s

(* Three sequences with c between them, the first four read as one.        *)
Joined(S, a, c, d, m) ==
    LET h == ((a \o c) \o d) \o c
    IN  /\ h \in Seq(S) /\ Len(h) = Len(a) + Len(c) + Len(d) + Len(c)
        /\ h \o m = a \o (c \o (d \o (c \o m)))

LEMMA JoinedProps == \A S : \A a, c, d, m \in Seq(S) : Joined(S, a, c, d, m)
<1> SUFFICES ASSUME NEW S, NEW a \in Seq(S), NEW c \in Seq(S), NEW d \in Seq(S), NEW m \in Seq(S)
             PROVE  Joined(S, a, c, d, m)
  OBVIOUS
<1>1. a \o c \in Seq(S) /\ Len(a \o c) = Len(a) + Len(c)
  BY ConcatProperties
<1>2. (a \o c) \o d \in Seq(S) /\ Len((a \o c) \o d) = Len(a) + Len(c) + Len(d)
  BY <1>1, ConcatProperties
<1>3. /\ ((a \o c) \o d) \o c \in Seq(S)
      /\ Len(((a \o c) \o d) \o c) = Len(a) + Len(c) + Len(d) + Len(c)
  BY <1>2, ConcatProperties
<1>4. c \o m \in Seq(S) /\ d \o (c \o m) \in Seq(S)
  BY ConcatProperties
<1>5. (((a \o c) \o d) \o c) \o m = ((a \o c) \o d) \o (c \o m)
  <2> DEFINE x == (a \o c) \o d
  <2>1. x \in Seq(S)
    BY <1>2
  <2> HIDE DEF x
  <2>2. Regroups(x, c, m)
    BY <2>1, Regroup, Zenon
  <2> QED BY <2>2, Zenon DEF x, Regroups
<1>6. ((a \o c) \o d) \o (c \o m) = (a \o c) \o (d \o (c \o m))
  <2> DEFINE x == a \o c  y == c \o m
  <2>1. x \in Seq(S) /\ y \in Seq(S)
    BY <1>1, <1>4
  <2> HIDE DEF x, y
  <2>2. Regroups(x, d, y)
    BY <2>1, Regroup, Zenon
  <2> QED BY <2>2, Zenon DEF x, y, Regroups
<1>7. (a \o c) \o (d \o (c \o m)) = a \o (c \o (d \o (c \o m)))
  <2> DEFINE y == d \o (c \o m)
  <2>1. y \in Seq(S)
    BY <1>4
  <2> HIDE DEF y
  <2>2. Regroups(a, c, y)
    BY <2>1, Regroup, Zenon
  <2> QED BY <2>2, Zenon DEF y, Regroups
<1>8. (((a \o c) \o d) \o c) \o m = a \o (c \o (d \o (c \o m)))
  BY <1>5, <1>6, <1>7, Zenon
<1> QED BY <1>3, <1>8, Zenon DEF Joined

(* The header, and what it is the beginning of.                            *)
LEMMA HeaderIs ==
    ASSUME NEW n \in Port, NEW msg \in Seq(Byte)
    PROVE  /\ Header(n) \in Seq(Byte)
           /\ Len(Header(n)) \in Nat /\ Len(Header(n)) < HeaderSize
           /\ Header(n) \o msg =
                  IpText \o (<<Space>> \o (Decimal[n] \o (<<Space>> \o msg)))
<1> DEFINE ip == IpText  d == Decimal[n]  sp == <<Space>>
<1>1. sp \in Seq(Byte) /\ Len(sp) = 1
  <2>1. Space \in Byte
    BY DEF Space, Byte
  <2> QED BY <2>1
<1>2. d \in Seq(Byte) /\ Len(d) \in Nat /\ Len(d) <= 5
  BY PortText
<1>3. ip \in Seq(Byte) /\ Len(ip) \in Nat /\ Len(ip) + 7 < HeaderSize /\ HeaderSize \in Nat
  BY Sizes
<1> DEFINE h == ((ip \o sp) \o d) \o sp
<1>4. Header(n) = h
  BY DEF Header
<1> HIDE DEF ip, d, sp
<1>5. Joined(Byte, ip, sp, d, msg)
  BY <1>1, <1>2, <1>3, JoinedProps, Zenon
<1>6. /\ h \in Seq(Byte) /\ Len(h) = Len(ip) + Len(sp) + Len(d) + Len(sp)
      /\ h \o msg = ip \o (sp \o (d \o (sp \o msg)))
  BY <1>5, Zenon DEF Joined
<1> HIDE DEF h
<1>7. Len(h) \in Nat /\ Len(h) < HeaderSize
  BY <1>1, <1>2, <1>3, <1>6
<1>8. /\ Header(n) \in Seq(Byte) /\ Len(Header(n)) \in Nat /\ Len(Header(n)) < HeaderSize
      /\ Header(n) \o msg = ip \o (sp \o (d \o (sp \o msg)))
  BY <1>4, <1>6, <1>7, Zenon
<1> QED BY <1>8 DEF ip, sp, d

(* print_packet finds the address, the port and the datagram that          *)
(* build_packet put one behind the other.                                  *)
LEMMA PacketRead ==
    ASSUME NEW n \in Port, NEW msg \in Seq(Byte)
    PROVE  LET packet == BuildPacket(n, msg)
           IN  /\ Contains(packet, Space) /\ Contains(Behind(packet, Space), Space)
               /\ Before(packet, Space) = IpText
               /\ Before(Behind(packet, Space), Space) = Decimal[n]
               /\ Behind(Behind(packet, Space), Space) = msg
<1>1. BuildPacket(n, msg) = Header(n) \o msg
  <2>1. Len(Header(n)) \in Nat /\ Len(Header(n)) < HeaderSize /\ HeaderSize \in Nat
    BY HeaderIs, Sizes, Zenon
  <2> DEFINE l == Len(Header(n))
  <2>2. l \in Nat /\ l < HeaderSize
    BY <2>1, Zenon
  <2> HIDE DEF l
  <2>3. ~(l >= HeaderSize)
    BY <2>1, <2>2
  <2> QED BY <2>3, Zenon DEF BuildPacket, l
<1> DEFINE d == Decimal[n]  ip == IpText
<1>2. d \in Seq(Byte) /\ \A i \in 1 .. Len(d) : d[i] # Space
  BY PortText
<1>3. Space \in Byte
  BY DEF Space, Byte
<1>4. ip \in Seq(Byte) /\ \A i \in 1 .. Len(ip) : ip[i] # Space
  BY Sizes
<1> DEFINE rest == d \o (<<Space>> \o msg)
           packet == ip \o (<<Space>> \o rest)
<1>5. BuildPacket(n, msg) = packet
  BY <1>1, HeaderIs, Zenon
<1> HIDE DEF d, ip
<1>6. rest \in Seq(Byte)
  <2>1. <<Space>> \o msg \in Seq(Byte)
    BY <1>3, ConsProps
  <2> QED BY <1>2, <2>1, ConcatProperties
<1>7. Contains(rest, Space) /\ Before(rest, Space) = d /\ Behind(rest, Space) = msg
  BY <1>2, <1>3, FirstAt, Zenon
<1> HIDE DEF rest
<1>8. Contains(packet, Space) /\ Before(packet, Space) = ip /\ Behind(packet, Space) = rest
  BY <1>3, <1>4, <1>6, FirstAt, Zenon
<1> HIDE DEF packet
<1>9. /\ Contains(packet, Space) /\ Contains(Behind(packet, Space), Space)
      /\ Before(packet, Space) = ip
      /\ Before(Behind(packet, Space), Space) = d
      /\ Behind(Behind(packet, Space), Space) = msg
  BY <1>7, <1>8, Zenon
<1> QED BY <1>5, <1>9, Zenon DEF d, ip

(* So a datagram longer than a topic is printed, with the text of its port *)
(* and its topic.                                                          *)
LEMMA PacketPrinted ==
    ASSUME NEW n \in Port, NEW msg \in Seq(Byte), Len(msg) > TopicLen
    PROVE  PrintPacket(BuildPacket(n, msg)) =
             <<[ip |-> IpText, port |-> Decimal[n],
                topic |-> Before(SubSeq(msg, 1, TopicLen), 0),
                content |-> ProcessPayload(SubSeq(msg, TopicLen + 1, Len(msg)))]>>
<1>1. ~(Len(msg) < TopicLen + 1)
  BY Sizes, LenProperties
<1> QED BY <1>1, PacketRead DEF PrintPacket

(* A packet is printed as one line or not at all.                          *)
LEMMA OneLine ==
    ASSUME NEW packet
    PROVE  PrintPacket(packet) = << >> \/ \E line : PrintPacket(packet) = <<line>>
  BY DEF PrintPacket

(* The subscriber has room for every packet.                               *)
LEMMA PacketFits ==
    ASSUME NEW n \in Port, NEW data \in Seq(Byte)
    PROVE  /\ Received(data) \in Seq(Byte)
           /\ Acceptable(BuildPacket(n, Received(data)))
<1> DEFINE msg == Received(data)
<1>1. msg \in Seq(Byte) /\ Len(msg) \in Nat /\ Len(msg) <= BufSize
  <2>1. PICK k \in Nat : /\ k = IF Len(data) < BufSize THEN Len(data) ELSE BufSize
                         /\ k <= Len(data) /\ k <= BufSize
    BY Sizes, LenProperties
  <2>2. msg = SubSeq(data, 1, k)
    BY <2>1 DEF Received
  <2>3. SubSeq(data, 1, k) \in Seq(Byte) /\ Len(SubSeq(data, 1, k)) = k
    BY <2>1
  <2> QED BY <2>1, <2>2, <2>3
<1> HIDE DEF msg
<1>2. PICK h \in Seq(Byte) : h = Header(n) /\ Len(h) \in Nat /\ Len(h) < HeaderSize
  BY <1>1, HeaderIs
<1>3. BuildPacket(n, msg) = h \o msg
  <2>1. ~(Len(h) >= HeaderSize)
    BY <1>2, Sizes
  <2> QED BY <1>2, <2>1 DEF BuildPacket
<1>4. Len(h \o msg) = Len(h) + Len(msg)
  BY <1>1, ConcatProperties
<1>5. Acceptable(BuildPacket(n, msg))
  BY <1>1, <1>2, <1>3, <1>4, Sizes DEF Acceptable
<1> QED BY <1>1, <1>5 DEF msg

-----------------------------------------------------------------------------
(* The publishers *)

Stages == {"parse", "bind", "run", "done", "usage", "crashed"}
Post == [port : Port, data : Seq(Byte)]

PubTypes ==
    /\ \A p \in Pubs : argv[p] \in CommandLines[p]
    /\ stage \in [Pubs -> Stages]
    /\ port \in [Pubs -> Port]
    /\ sent \in [Pubs -> Seq(Nat)]
    /\ posted \in Seq(Post)

(* What a step of run p may change.                                        *)
Ended(p, how) == stage' = [stage EXCEPT ![p] = how] /\ UNCHANGED <<port, sent, posted, udpq>>

Bound(p, n) == /\ stage' = [stage EXCEPT ![p] = "run"] /\ port' = [port EXCEPT ![p] = n]
               /\ UNCHANGED <<sent, posted, udpq>>

Sent(p, i, post, how) ==
    /\ posted' = Append(posted, post)
    /\ udpq' \in {udpq, Append(udpq, Len(posted'))}
    /\ sent' = [sent EXCEPT ![p] = Append(@, i)]
    /\ stage' = [stage EXCEPT ![p] = how]
    /\ UNCHANGED port

(* Parsing and binding send nothing; a message is one of the file.         *)
StepOf(p) ==
    \/ stage[p] = "parse" /\ \E how \in {"bind", "usage"} : Ended(p, how)
    \/ stage[p] = "bind" /\ (Ended(p, "crashed") \/ \E n \in Port : Bound(p, n))
    \/ stage[p] = "run" /\ \E how \in {"done", "crashed"} : Ended(p, how)
    \/ stage[p] = "run" /\ \E i \in 1 .. Size(p), post \in Post, how \in {"run", "crashed"} :
                                 Sent(p, i, post, how)

(* The bytes of a message.                                                 *)
LEMMA FileTyped ==
    ASSUME PubTypes, NEW p \in Pubs
    PROVE  /\ argv[p].mode \in {"all_once", "manual", "random"}
           /\ argv[p].input_file \in Seq(Message) /\ Size(p) \in Nat
           /\ argv[p].count \in Seq(Int)
           /\ argv[p].source_port \in Seq(SUBSET Int)
           /\ \A i \in 1 .. Size(p) : argv[p].input_file[i].payload \subseteq Seq(Byte)
<1>1. argv[p] \in CommandLines[p]
  BY DEF PubTypes
<1>2. /\ argv[p].mode \in {"all_once", "manual", "random"}
      /\ argv[p].input_file \in Seq(Message)
      /\ argv[p].count \in Seq(Int)
      /\ argv[p].source_port \in Seq(SUBSET Int)
  BY <1>1, PublisherAssumption, Zenon
<1>3. Size(p) \in Nat
  BY <1>2, LenProperties DEF Size
<1>4. ASSUME NEW i \in 1 .. Size(p) PROVE argv[p].input_file[i].payload \subseteq Seq(Byte)
  <2>1. argv[p].input_file[i] \in Message
    BY <1>2 DEF Size
  <2>2. \A m \in Message : m.payload \in SUBSET Seq(Byte)
    BY DEF Message, Byte
  <2> QED BY <2>1, <2>2
<1> QED BY <1>2, <1>3, <1>4

(* What bind is asked for, and what it gives, are port numbers.            *)
LEMMA PortsTyped ==
    ASSUME PubTypes, NEW p \in Pubs
    PROVE  SourcePort(argv[p]) \subseteq Port /\ FreePorts \subseteq Port
<1>0. FreePorts \subseteq Port
  BY PublisherAssumption, Zenon
<1>1. \A v \in Int : MinPort <= v /\ v <= MaxPort => v \in Port
  <2> SUFFICES ASSUME NEW v \in Int, MinPort <= v, v <= MaxPort PROVE v \in Port
    OBVIOUS
  <2>1. v \in Nat /\ v <= 65535
    BY DEF MinPort, MaxPort
  <2> QED BY <2>1, PortRange
<1>2. 0 \in Port
  <2>1. 0 \in Nat /\ 0 <= 65535
    OBVIOUS
  <2> QED BY <2>1, PortRange
<1>3. CASE argv[p].source_port = << >>
  <2>1. SourcePort(argv[p]) = {0}
    BY <1>3, Zenon DEF SourcePort
  <2> QED BY <1>0, <1>2, <2>1
<1>4. CASE argv[p].source_port # << >>
  <2>1. argv[p].source_port[1] \in SUBSET Int
    BY <1>4, FileTyped
  <2>2. UnprivilegedPort(argv[p].source_port[1]) \subseteq Port
    BY <1>1, <2>1 DEF UnprivilegedPort
  <2>3. SourcePort(argv[p]) = UnprivilegedPort(argv[p].source_port[1])
    BY <1>4, Zenon DEF SourcePort
  <2> QED BY <1>0, <2>2, <2>3
<1> QED BY <1>3, <1>4

(* Sending one message of the file.                                        *)
LEMMA SendStep ==
    ASSUME PubTypes, NEW p \in Pubs, NEW i \in 1 .. Size(p), SendMessage(p, i), stage[p] = "run"
    PROVE  \/ Ended(p, "crashed")
           \/ \E post \in Post, how \in {"run", "crashed"} : Sent(p, i, post, how)
<1>1. CASE Ends(p, "crashed")
  BY <1>1 DEF Ends, Ended
<1>2. ASSUME NEW data \in argv[p].input_file[i].payload, Sendto(p, data),
             sent' = [sent EXCEPT ![p] = Append(@, i)],
             \/ stage' = stage
             \/ stage' = [stage EXCEPT ![p] = "crashed"],
             port' = port
      PROVE  \E post \in Post, how \in {"run", "crashed"} : Sent(p, i, post, how)
  <2>1. data \in Seq(Byte) /\ port[p] \in Port
    BY FileTyped DEF PubTypes
  <2>2. [port |-> port[p], data |-> data] \in Post
    BY <2>1 DEF Post
  <2>3. stage = [stage EXCEPT ![p] = "run"]
    BY DEF PubTypes
  <2>4. PICK how \in {"run", "crashed"} : stage' = [stage EXCEPT ![p] = how]
    BY <1>2, <2>3
  <2>5. Sent(p, i, [port |-> port[p], data |-> data], how)
    BY <1>2, <2>4 DEF Sent, Sendto
  <2> QED BY <2>2, <2>5
<1> QED BY <1>1, <1>2 DEF SendMessage

LEMMA PublisherStep ==
    ASSUME PubTypes, NEW p \in Pubs, Publish(p)
    PROVE  argv' = argv /\ StepOf(p)
<1>1. CASE ParseArgs(p)
  BY <1>1 DEF ParseArgs, Ends, StepOf, Ended
<1>2. CASE SetupSocket(p)
  <2>1. CASE \E how \in {"crashed"} : Ends(p, how)
    BY <1>2, <2>1 DEF SetupSocket, Ends, StepOf, Ended
  <2>2. ASSUME NEW n \in (IF SourcePort(argv[p]) = {0} THEN FreePorts ELSE SourcePort(argv[p])) \ Taken,
               port' = [port EXCEPT ![p] = n], stage' = [stage EXCEPT ![p] = "run"],
               UNCHANGED <<argv, sent, posted, udpq>>
        PROVE  argv' = argv /\ StepOf(p)
    <3>1. n \in Port
      BY PortsTyped
    <3> QED BY <1>2, <2>2, <3>1 DEF SetupSocket, StepOf, Bound
  <2> QED BY <1>2, <2>1, <2>2 DEF SetupSocket
<1>3. CASE Run(p)
  <2>0. stage[p] = "run"
    BY <1>3 DEF Run
  <2>1. ASSUME NEW how \in {"done", "crashed"}, Ends(p, how) PROVE argv' = argv /\ StepOf(p)
    BY <2>0, <2>1 DEF Ends, StepOf, Ended
  <2>2. ASSUME NEW i \in 1 .. Size(p), SendMessage(p, i) PROVE argv' = argv /\ StepOf(p)
    <3>1. argv' = argv
      BY <2>2 DEF SendMessage, Ends
    <3> QED BY <2>0, <2>2, <3>1, SendStep DEF StepOf
  <2>3. \/ \E how \in {"done", "crashed"} : Ends(p, how)
        \/ \E i \in 1 .. Size(p) : SendMessage(p, i)
    <3>1. CASE RunAllOnce(p)
      <4>1. Len(sent[p]) \in Nat /\ Size(p) \in Nat
        <5>1. sent[p] \in Seq(Nat)
          BY DEF PubTypes
        <5> QED BY <5>1, FileTyped, LenProperties
      <4>2. Len(sent[p]) < Size(p) => Len(sent[p]) + 1 \in 1 .. Size(p)
        BY <4>1
      <4> QED BY <3>1, <4>2 DEF RunAllOnce
    <3>2. CASE RunManual(p)
      <4>1. \A choice \in 0 .. Size(p) - 1 : choice + 1 \in 1 .. Size(p)
        BY FileTyped
      <4> QED BY <3>2, <4>1 DEF RunManual
    <3>3. CASE RunRandom(p)
      BY <3>3 DEF RunRandom
    <3> QED BY <1>3, <3>1, <3>2, <3>3 DEF Run
  <2> QED BY <2>1, <2>2, <2>3
<1> QED BY <1>1, <1>2, <1>3 DEF Publish

(* A run in stage st that was started with a and has sent s keeps its mode,*)
(* and has sent nothing before it had a socket.                            *)
Kept(a, st, s) ==
    /\ a.mode = "all_once" =>
          /\ s = [i \in 1 .. Len(s) |-> i] /\ Len(s) <= Len(a.input_file)
          /\ st = "done" => Len(s) = Len(a.input_file)
    /\ a.mode = "random" /\ a.count # << >> /\ Len(s) > 0 =>
          Len(s) <= a.count[1] /\ (st = "done" => Len(s) = a.count[1])
    /\ st \in {"parse", "bind", "usage"} => s = << >>

ModeInv == \A p \in Pubs : Kept(argv[p], stage[p], sent[p])

LEMMA ModeImplies == ASSUME PubTypes, ModeInv PROVE KeepsMode
<1> SUFFICES ASSUME NEW p \in Pubs
             PROVE  /\ argv[p].mode = "all_once" => sent[p] = [i \in 1 .. Len(sent[p]) |-> i]
                    /\ stage[p] = "done" /\ argv[p].mode = "all_once" => Len(sent[p]) = Size(p)
                    /\ argv[p].mode = "random" /\ argv[p].count # << >> /\ Len(sent[p]) > 0 =>
                          /\ Len(sent[p]) <= argv[p].count[1]
                          /\ stage[p] = "done" => Len(sent[p]) = argv[p].count[1]
                    /\ stage[p] = "usage" => Len(sent[p]) = 0
  BY Zenon DEF KeepsMode
<1>1. Kept(argv[p], stage[p], sent[p])
  BY DEF ModeInv
<1>2. Len(<< >>) = 0
  OBVIOUS
<1>3. stage[p] = "usage" => Len(sent[p]) = 0
  <2>1. stage[p] = "usage" => sent[p] = << >>
    BY <1>1, Zenon DEF Kept
  <2> QED BY <1>2, <2>1, Zenon
<1> QED BY <1>1, <1>3, Zenon DEF Kept, Size

(* Ending a run that sends.                                                *)
LEMMA KeptAtEnd ==
    ASSUME NEW a, NEW s \in Seq(Nat), Kept(a, "run", s), a.input_file \in Seq(Message),
           a.count # << >> => a.count[1] \in Int,
           NEW how \in {"done", "crashed"},
           how = "done" => /\ a.mode = "all_once" => ~(Len(s) < Len(a.input_file))
                           /\ a.mode = "random" => a.count # << >> /\ Len(s) >= a.count[1]
    PROVE  Kept(a, how, s)
<1>1. Len(s) \in Nat /\ Len(a.input_file) \in Nat
  BY LenProperties
<1>2. a.mode = "all_once" =>
          /\ s = [i \in 1 .. Len(s) |-> i] /\ Len(s) <= Len(a.input_file)
          /\ how = "done" => Len(s) = Len(a.input_file)
  <2> SUFFICES ASSUME a.mode = "all_once"
               PROVE  /\ s = [i \in 1 .. Len(s) |-> i] /\ Len(s) <= Len(a.input_file)
                      /\ how = "done" => Len(s) = Len(a.input_file)
    OBVIOUS
  <2>1. s = [i \in 1 .. Len(s) |-> i] /\ Len(s) <= Len(a.input_file)
    BY Zenon DEF Kept
  <2>2. how = "done" => ~(Len(s) < Len(a.input_file))
    BY Zenon
  <2> DEFINE l == Len(s)  m == Len(a.input_file)
  <2>3. l \in Nat /\ m \in Nat /\ l <= m /\ (how = "done" => ~(l < m))
    BY <1>1, <2>1, <2>2
  <2> HIDE DEF l, m
  <2>4. how = "done" => l = m
    BY <2>3
  <2> QED BY <2>1, <2>4, Zenon DEF l, m
<1>3. a.mode = "random" /\ a.count # << >> /\ Len(s) > 0 =>
          Len(s) <= a.count[1] /\ (how = "done" => Len(s) = a.count[1])
  <2> SUFFICES ASSUME a.mode = "random", a.count # << >>, Len(s) > 0
               PROVE  Len(s) <= a.count[1] /\ (how = "done" => Len(s) = a.count[1])
    OBVIOUS
  <2>1. Len(s) <= a.count[1] /\ (how = "done" => Len(s) >= a.count[1]) /\ a.count[1] \in Int
    BY Zenon DEF Kept
  <2> DEFINE l == Len(s)  m == a.count[1]
  <2>2. l \in Nat /\ m \in Int /\ l <= m /\ (how = "done" => l >= m)
    BY <1>1, <2>1
  <2> HIDE DEF l, m
  <2>3. how = "done" => l = m
    BY <2>2
  <2> QED BY <2>1, <2>3, Zenon DEF l, m
<1>4. how \notin {"parse", "bind", "usage"}
  OBVIOUS
<1> QED BY <1>2, <1>3, <1>4, Zenon DEF Kept

(* Sending the next message.                                               *)
LEMMA KeptBySending ==
    ASSUME NEW a, NEW s \in Seq(Nat), Kept(a, "run", s), a.input_file \in Seq(Message),
           a.count # << >> => a.count[1] \in Int,
           NEW how \in {"run", "crashed"}, NEW i \in Nat,
           a.mode = "all_once" => i = Len(s) + 1 /\ Len(s) < Len(a.input_file),
           a.mode = "random" /\ a.count # << >> => Len(s) < a.count[1]
    PROVE  Kept(a, how, Append(s, i))
<1> DEFINE t == Append(s, i)
<1>1. /\ t \in Seq(Nat) /\ Len(t) = Len(s) + 1 /\ t[Len(s) + 1] = i
      /\ \A j \in 1 .. Len(s) : t[j] = s[j]
      /\ Len(s) \in Nat /\ Len(a.input_file) \in Nat
  BY AppendProperties, LenProperties
<1> HIDE DEF t
<1>2. how # "done" /\ how \notin {"parse", "bind", "usage"}
  OBVIOUS
<1>3. a.mode = "all_once" => t = [j \in 1 .. Len(t) |-> j] /\ Len(t) <= Len(a.input_file)
  <2> SUFFICES ASSUME a.mode = "all_once"
               PROVE  t = [j \in 1 .. Len(t) |-> j] /\ Len(t) <= Len(a.input_file)
    OBVIOUS
  <2>1. s = [j \in 1 .. Len(s) |-> j]
    BY Zenon DEF Kept
  <2>2. \A j \in 1 .. Len(s) : s[j] = j
    <3> TAKE j \in 1 .. Len(s)
    <3> DEFINE N == 1 .. Len(s)
    <3>1. j \in N /\ s = [k \in N |-> k]
      BY <2>1
    <3> HIDE DEF N
    <3> QED BY <3>1
  <2>3. i = Len(s) + 1 /\ Len(s) < Len(a.input_file)
    OBVIOUS
  <2>4. \A j \in 1 .. Len(t) : t[j] = j
    <3> TAKE j \in 1 .. Len(t)
    <3>1. j \in 1 .. Len(s) \/ j = Len(s) + 1
      BY <1>1
    <3> QED BY <1>1, <2>2, <2>3, <3>1
  <2>5. t = [j \in 1 .. Len(t) |-> t[j]]
    BY <1>1
  <2>6. [j \in 1 .. Len(t) |-> t[j]] = [j \in 1 .. Len(t) |-> j]
    BY <2>4
  <2>7. Len(t) <= Len(a.input_file)
    BY <1>1, <2>3
  <2> QED BY <2>5, <2>6, <2>7, Zenon
<1>4. a.mode = "random" /\ a.count # << >> => Len(t) <= a.count[1]
  BY <1>1
<1> QED BY <1>2, <1>3, <1>4, Zenon DEF Kept, t

LEMMA ModeStep ==
    ASSUME PubTypes, ModeInv, NEW p \in Pubs, Publish(p)
    PROVE  ModeInv'
<1>1. argv' = argv /\ StepOf(p)
  BY PublisherStep
<1> DEFINE a == argv[p]  s == sent[p]
<1>2. /\ s \in Seq(Nat) /\ a.input_file \in Seq(Message)
      /\ a.mode \in {"all_once", "manual", "random"}
      /\ a.count # << >> => a.count[1] \in Int
  BY FileTyped DEF PubTypes
<1>3. /\ \A q \in Pubs : q # p => stage'[q] = stage[q] /\ sent'[q] = sent[q]
      /\ p \in DOMAIN stage /\ p \in DOMAIN sent
  BY <1>1 DEF StepOf, Ended, Bound, Sent, PubTypes
<1>4. Kept(a, stage[p], s)
  BY DEF ModeInv
<1>5. Kept(a, stage'[p], sent'[p])
  <2>1. CASE stage[p] \in {"parse", "bind"}
    <3>1. sent' = sent /\ stage'[p] \in {"bind", "usage", "crashed", "run"}
      BY <1>1, <1>3, <2>1 DEF StepOf, Ended, Bound
    <3>2. s = << >> /\ Len(s) = 0
      BY <1>4, <2>1 DEF Kept
    <3>3. a.mode = "all_once" => s = [j \in 1 .. Len(s) |-> j] /\ Len(s) <= Len(a.input_file)
      BY <1>4, Zenon DEF Kept
    <3>4. ~(Len(s) > 0) /\ stage'[p] # "done"
      BY <3>1, <3>2
    <3> QED BY <3>1, <3>2, <3>3, <3>4, Zenon DEF Kept
  <2>2. CASE stage[p] = "run"
    <3>1. Kept(a, "run", s)
      BY <1>4, <2>2
    <3>2. Run(p)
      BY <2>2 DEF Publish, ParseArgs, SetupSocket
    <3>3. ASSUME NEW how \in {"done", "crashed"}, Ends(p, how),
                 how = "done" => /\ a.mode = "all_once" => ~(Len(s) < Size(p))
                                 /\ a.mode = "random" => a.count # << >> /\ Len(s) >= a.count[1]
          PROVE  Kept(a, stage'[p], sent'[p])
      <4>1. stage'[p] = how /\ sent'[p] = s
        BY <1>3, <3>3 DEF Ends
      <4>2. Kept(a, how, s)
        <5> HIDE DEF a, s
        <5> QED BY <1>2, <3>1, <3>3, KeptAtEnd DEF Size, a
      <4> QED BY <4>1, <4>2
    <3>4. ASSUME NEW i \in 1 .. Size(p), SendMessage(p, i),
                 a.mode = "all_once" => i = Len(s) + 1 /\ Len(s) < Size(p),
                 a.mode = "random" /\ a.count # << >> => Len(s) < a.count[1]
          PROVE  Kept(a, stage'[p], sent'[p])
      <4>1. CASE Ended(p, "crashed")
        <5>1. stage'[p] = "crashed" /\ sent'[p] = s
          BY <1>3, <4>1 DEF Ended
        <5>2. Kept(a, "crashed", s)
          <6> HIDE DEF a, s
          <6> QED BY <1>2, <3>1, KeptAtEnd
        <5> QED BY <5>1, <5>2
      <4>2. ASSUME NEW post \in Post, NEW how \in {"run", "crashed"}, Sent(p, i, post, how)
            PROVE  Kept(a, stage'[p], sent'[p])
        <5>1. stage'[p] = how /\ sent'[p] = Append(s, i)
          BY <1>3, <4>2 DEF Sent
        <5>2. i \in Nat
          BY FileTyped
        <5>3. Kept(a, how, Append(s, i))
          <6> HIDE DEF a, s
          <6> QED BY <1>2, <3>1, <3>4, <5>2, KeptBySending DEF Size, a
        <5> QED BY <5>1, <5>3
      <4> QED BY <2>2, <3>4, <4>1, <4>2, SendStep
    <3>5. CASE a.mode = "all_once"
      <4>1. RunAllOnce(p)
        BY <3>2, <3>5 DEF Run
      <4>2. Len(s) \in Nat /\ Size(p) \in Nat
        BY <1>2, FileTyped, LenProperties
      <4>3. CASE Len(s) < Size(p)
        <5>1. Len(s) + 1 \in 1 .. Size(p) /\ SendMessage(p, Len(s) + 1)
          BY <4>1, <4>2, <4>3 DEF RunAllOnce
        <5>2. a.mode # "random"
          BY <3>5
        <5> QED BY <3>4, <4>3, <5>1, <5>2, Zenon
      <4>4. CASE ~(Len(s) < Size(p))
        BY <3>3, <3>5, <4>1, <4>4 DEF RunAllOnce
      <4> QED BY <4>3, <4>4
    <3>6. CASE a.mode = "manual"
      <4>1. RunManual(p)
        BY <3>2, <3>6 DEF Run
      <4>2. \A choice \in 0 .. Size(p) - 1 : choice + 1 \in 1 .. Size(p)
        BY FileTyped
      <4> QED BY <3>3, <3>4, <3>6, <4>1, <4>2 DEF RunManual
    <3>7. CASE a.mode = "random"
      <4>1. RunRandom(p)
        BY <3>2, <3>7 DEF Run
      <4>2. CASE a.count # << >> /\ Len(s) >= a.count[1]
        <5>1. Ends(p, "done")
          BY <4>1, <4>2 DEF RunRandom
        <5>2. a.mode # "all_once"
          BY <3>7
        <5> QED BY <3>3, <4>2, <5>1, <5>2
      <4>3. CASE ~(a.count # << >> /\ Len(s) >= a.count[1])
        <5>1. Ends(p, "crashed") \/ \E i \in 1 .. Size(p) : SendMessage(p, i)
          BY <4>1, <4>3 DEF RunRandom
        <5>2. a.mode # "all_once" /\ (a.count # << >> => Len(s) < a.count[1])
          <6>1. Len(s) \in Nat
            BY <1>2, LenProperties
          <6>2. a.count # << >> => ~(Len(s) >= a.count[1]) /\ a.count[1] \in Int
            BY <1>2, <4>3
          <6> QED BY <3>7, <6>1, <6>2
        <5>3. "crashed" # "done" /\ "crashed" \in {"done", "crashed"}
          OBVIOUS
        <5> QED BY <3>3, <3>4, <5>1, <5>2, <5>3, Zenon
      <4> QED BY <4>2, <4>3
    <3> QED BY <1>2, <3>5, <3>6, <3>7
  <2> QED BY <1>1, <2>1, <2>2 DEF StepOf
<1>6. \A q \in Pubs : Kept(argv'[q], stage'[q], sent'[q])
  <2> TAKE q \in Pubs
  <2>1. CASE q = p
    BY <1>1, <1>5, <2>1
  <2>2. CASE q # p
    <3>1. Kept(argv[q], stage[q], sent[q])
      BY DEF ModeInv
    <3> QED BY <1>1, <1>3, <2>2, <3>1
  <2> QED BY <2>1, <2>2
<1> QED BY <1>6 DEF ModeInv

-----------------------------------------------------------------------------
(* The server's socket and what the server dealt with *)

(* s and t one behind the other rise.                                      *)
Ordered(s, t) ==
    /\ \A i, j \in 1 .. Len(s) : i < j => s[i] < s[j]
    /\ \A i, j \in 1 .. Len(t) : i < j => t[i] < t[j]
    /\ \A i \in 1 .. Len(s), j \in 1 .. Len(t) : s[i] < t[j]

LEMMA Wider == ASSUME NEW S, NEW T, S \subseteq T, NEW s \in Seq(S) PROVE s \in Seq(T)
<1>1. \A i \in 1 .. Len(s) : s[i] \in T
  OBVIOUS
<1> QED BY <1>1

(* Taking the first of the second sequence, to the end of the first or not.*)
LEMMA TakeFirst ==
    ASSUME NEW N \in Nat, NEW s \in Seq(1 .. N), NEW t \in Seq(1 .. N), Ordered(s, t), t # << >>
    PROVE  /\ Head(t) \in 1 .. N /\ Tail(t) \in Seq(1 .. N)
           /\ Append(s, Head(t)) \in Seq(1 .. N)
           /\ Ordered(Append(s, Head(t)), Tail(t)) /\ Ordered(s, Tail(t))
           /\ \A i \in 1 .. Len(s) : s[i] # Head(t)
           /\ \A j \in 1 .. Len(Tail(t)) : Tail(t)[j] # Head(t) /\ Tail(t)[j] = t[j + 1]
           /\ Len(Tail(t)) = Len(t) - 1
<1> DEFINE F == 1 .. N  h == Head(t)  r == Tail(t)  u == Append(s, h)
<1>0. F \subseteq Nat
  OBVIOUS
<1>1. s \in Seq(F) /\ t \in Seq(F)
  OBVIOUS
<1> HIDE DEF F
<1>2. /\ h \in F /\ h = t[1] /\ r \in Seq(F) /\ Len(r) = Len(t) - 1
      /\ \A j \in 1 .. Len(r) : r[j] = t[j + 1]
      /\ Len(t) \in Nat /\ Len(t) > 0 /\ Len(s) \in Nat /\ Len(r) \in Nat
  BY <1>1, HeadTailProperties, LenProperties
<1>3. /\ u \in Seq(F) /\ Len(u) = Len(s) + 1 /\ u[Len(s) + 1] = h
      /\ \A i \in 1 .. Len(s) : u[i] = s[i]
  BY <1>1, <1>2, AppendProperties
<1>4. /\ \A i \in 1 .. Len(s) : s[i] \in Nat
      /\ \A j \in 1 .. Len(t) : t[j] \in Nat
  BY <1>0, <1>1
<1> HIDE DEF h, r, u
<1>5. /\ \A i, j \in 1 .. Len(s) : i < j => s[i] < s[j]
      /\ \A i, j \in 1 .. Len(t) : i < j => t[i] < t[j]
      /\ \A i \in 1 .. Len(s), j \in 1 .. Len(t) : s[i] < t[j]
  BY Zenon DEF Ordered
<1>6. 1 \in 1 .. Len(t) /\ \A j \in 1 .. Len(r) : j + 1 \in 1 .. Len(t) /\ 1 < j + 1
  BY <1>2
<1>7. \A i \in 1 .. Len(s) : s[i] < h /\ s[i] # h
  <2> TAKE i \in 1 .. Len(s)
  <2>1. s[i] < t[1] /\ s[i] \in Nat /\ t[1] \in Nat
    BY <1>4, <1>5, <1>6
  <2> QED BY <1>2, <2>1
<1>8. \A j \in 1 .. Len(r) : h < r[j] /\ r[j] # h
  <2> TAKE j \in 1 .. Len(r)
  <2>1. t[1] < t[j + 1] /\ t[1] \in Nat /\ t[j + 1] \in Nat
    BY <1>4, <1>5, <1>6
  <2> QED BY <1>2, <2>1
<1>9. \A i, j \in 1 .. Len(r) : i < j => r[i] < r[j]
  <2> SUFFICES ASSUME NEW i \in 1 .. Len(r), NEW j \in 1 .. Len(r), i < j PROVE r[i] < r[j]
    OBVIOUS
  <2>1. i + 1 < j + 1
    OBVIOUS
  <2>2. t[i + 1] < t[j + 1]
    BY <1>5, <1>6, <2>1
  <2> QED BY <1>2, <2>2
<1>10. \A i \in 1 .. Len(s), j \in 1 .. Len(r) : s[i] < r[j]
  <2> TAKE i \in 1 .. Len(s), j \in 1 .. Len(r)
  <2>1. s[i] < t[j + 1]
    BY <1>5, <1>6
  <2> QED BY <1>2, <2>1
<1>11. Ordered(s, r)
  BY <1>5, <1>9, <1>10, Zenon DEF Ordered
<1>12. \A i \in 1 .. Len(u) : i \in 1 .. Len(s) \/ i = Len(s) + 1
  BY <1>2, <1>3
<1>13. \A i, j \in 1 .. Len(u) : i < j => u[i] < u[j]
  <2> SUFFICES ASSUME NEW i \in 1 .. Len(u), NEW j \in 1 .. Len(u), i < j PROVE u[i] < u[j]
    OBVIOUS
  <2>1. i \in 1 .. Len(s)
    BY <1>2, <1>3
  <2>2. CASE j \in 1 .. Len(s)
    BY <1>3, <1>5, <2>1, <2>2
  <2>3. CASE j = Len(s) + 1
    BY <1>3, <1>7, <2>1, <2>3
  <2> QED BY <1>12, <2>2, <2>3
<1>14. \A i \in 1 .. Len(u), j \in 1 .. Len(r) : u[i] < r[j]
  <2> TAKE i \in 1 .. Len(u), j \in 1 .. Len(r)
  <2>1. CASE i \in 1 .. Len(s)
    BY <1>3, <1>10, <2>1
  <2>2. CASE i = Len(s) + 1
    BY <1>3, <1>8, <2>2
  <2> QED BY <1>12, <2>1, <2>2
<1>15. Ordered(u, r)
  BY <1>9, <1>13, <1>14, Zenon DEF Ordered
<1>16. /\ h \in F /\ r \in Seq(F) /\ u \in Seq(F) /\ Ordered(u, r) /\ Ordered(s, r)
       /\ \A i \in 1 .. Len(s) : s[i] # h
       /\ \A j \in 1 .. Len(r) : r[j] # h /\ r[j] = t[j + 1]
       /\ Len(r) = Len(t) - 1
  BY <1>2, <1>3, <1>7, <1>8, <1>11, <1>15, Zenon
<1> QED BY <1>16, Zenon DEF F, h, r, u

(* A new one at the end of the second.                                     *)
LEMMA PutLast ==
    ASSUME NEW N \in Nat, NEW s \in Seq(1 .. N), NEW t \in Seq(1 .. N), Ordered(s, t)
    PROVE  /\ s \in Seq(1 .. N + 1) /\ t \in Seq(1 .. N + 1) /\ Append(t, N + 1) \in Seq(1 .. N + 1)
           /\ Ordered(s, Append(t, N + 1))
           /\ \A j \in 1 .. Len(Append(t, N + 1)) : j \in 1 .. Len(t) \/ Append(t, N + 1)[j] = N + 1
           /\ \A j \in 1 .. Len(t) : Append(t, N + 1)[j] = t[j]
<1> DEFINE F == 1 .. N  G == 1 .. N + 1  u == Append(t, N + 1)
<1>0. F \subseteq G /\ G \subseteq Nat /\ N + 1 \in G /\ \A x \in F : x < N + 1 /\ x \in Nat
  OBVIOUS
<1>1. s \in Seq(F) /\ t \in Seq(F)
  OBVIOUS
<1> HIDE DEF F, G
<1>2. s \in Seq(G) /\ t \in Seq(G)
  BY <1>0, <1>1, Wider, Zenon
<1>3. /\ u \in Seq(G) /\ Len(u) = Len(t) + 1 /\ u[Len(t) + 1] = N + 1
      /\ \A j \in 1 .. Len(t) : u[j] = t[j]
      /\ Len(t) \in Nat /\ Len(s) \in Nat
  BY <1>0, <1>2, AppendProperties, LenProperties
<1>4. /\ \A i \in 1 .. Len(s) : s[i] < N + 1
      /\ \A j \in 1 .. Len(t) : t[j] < N + 1
  BY <1>0, <1>1
<1> HIDE DEF u
<1>5. /\ \A i, j \in 1 .. Len(s) : i < j => s[i] < s[j]
      /\ \A i, j \in 1 .. Len(t) : i < j => t[i] < t[j]
      /\ \A i \in 1 .. Len(s), j \in 1 .. Len(t) : s[i] < t[j]
  BY Zenon DEF Ordered
<1>6. \A j \in 1 .. Len(u) : j \in 1 .. Len(t) \/ j = Len(t) + 1
  BY <1>3
<1>7. \A i, j \in 1 .. Len(u) : i < j => u[i] < u[j]
  <2> SUFFICES ASSUME NEW i \in 1 .. Len(u), NEW j \in 1 .. Len(u), i < j PROVE u[i] < u[j]
    OBVIOUS
  <2>1. i \in 1 .. Len(t)
    BY <1>3
  <2>2. CASE j \in 1 .. Len(t)
    BY <1>3, <1>5, <2>1, <2>2
  <2>3. CASE j = Len(t) + 1
    BY <1>3, <1>4, <2>1, <2>3
  <2> QED BY <1>6, <2>2, <2>3
<1>8. \A i \in 1 .. Len(s), j \in 1 .. Len(u) : s[i] < u[j]
  <2> TAKE i \in 1 .. Len(s), j \in 1 .. Len(u)
  <2>1. CASE j \in 1 .. Len(t)
    BY <1>3, <1>5, <2>1
  <2>2. CASE j = Len(t) + 1
    BY <1>3, <1>4, <2>2
  <2> QED BY <1>6, <2>1, <2>2
<1>9. Ordered(s, u)
  BY <1>5, <1>7, <1>8, Zenon DEF Ordered
<1>10. \A j \in 1 .. Len(u) : j \in 1 .. Len(t) \/ u[j] = N + 1
  BY <1>3, <1>6
<1> QED BY <1>2, <1>3, <1>9, <1>10, Zenon DEF G, u

-----------------------------------------------------------------------------
(* What a datagram means, and what becomes of one that means something     *)

(* The text before the first NUL, said in two ways.                        *)
LEMMA BeforeNul == ASSUME NEW s \in Seq(Byte) PROVE Before(s, 0) = UpToNul(s)
<1> DEFINE I == {n \in DOMAIN s : s[n] = 0}
<1>1. I = {i \in 1 .. Len(s) : s[i] = 0} /\ I \in SUBSET Nat /\ \A i \in I : i # 0
  <2>1. DOMAIN s = 1 .. Len(s) /\ Len(s) \in Nat
    BY LenProperties
  <2> QED BY <2>1
<1>2. Position(s, 0) = IF I # {} THEN Min(I) ELSE 0
  BY <1>1 DEF Position, SelectInSeq
<1>3. UpToNul(s) = IF I = {} THEN s ELSE SubSeq(s, 1, Min(I) - 1)
  BY DEF UpToNul
<1>4. I # {} => Min(I) # 0
  <2> HIDE DEF I
  <2> QED BY <1>1, MinIn
<1> HIDE DEF I
<1>5. CASE I = {}
  BY <1>2, <1>3, <1>5, Zenon DEF Before
<1>6. CASE I # {}
  BY <1>2, <1>3, <1>4, <1>6, Zenon DEF Before
<1> QED BY <1>5, <1>6

(* What Meaning reads is what recvfrom leaves of the datagram.             *)
LEMMA ReceivedIs ==
    ASSUME NEW data \in Seq(Byte)
    PROVE  /\ SubSeq(data, 1, Min({BufSize, Len(data)})) = Received(data)
           /\ Received(data) \in Seq(Byte) /\ Len(Received(data)) \in Nat
<1>1. BufSize \in Nat /\ Len(data) \in Nat
  BY Sizes, LenProperties
<1>2. \A a, b \in Nat : Min({a, b}) = IF b < a THEN b ELSE a
  <2> SUFFICES ASSUME NEW a \in Nat, NEW b \in Nat PROVE Min({a, b}) = IF b < a THEN b ELSE a
    OBVIOUS
  <2> DEFINE I == {a, b}
  <2>1. I \in SUBSET Nat /\ I # {}
    OBVIOUS
  <2>2. \A x : x \in I <=> x = a \/ x = b
    OBVIOUS
  <2> HIDE DEF I
  <2>3. Min(I) \in I /\ \A y \in I : Min(I) <= y
    BY <2>1, LeastNat DEF Min
  <2>4. Min(I) = IF b < a THEN b ELSE a
    <3> DEFINE m == Min(I)
    <3>1. (m = a \/ m = b) /\ m <= a /\ m <= b
      BY <2>2, <2>3
    <3> HIDE DEF m
    <3>2. m = IF b < a THEN b ELSE a
      BY <3>1
    <3> QED BY <3>2 DEF m
  <2> QED BY <2>4 DEF I
<1>3. Min({BufSize, Len(data)}) = IF Len(data) < BufSize THEN Len(data) ELSE BufSize
  BY <1>1, <1>2, Zenon
<1>4. Received(data) \in Seq(Byte)
  <2>1. 0 \in Nat /\ 0 <= 65535
    OBVIOUS
  <2>2. 0 \in Port
    BY <2>1, PortRange
  <2> QED BY <2>2, PacketFits
<1> QED BY <1>3, <1>4, LenProperties DEF Received

(* The first elements of a sequence.                                       *)
LEMMA FrontOf ==
    ASSUME NEW S, NEW s \in Seq(S), NEW n \in Nat, n <= Len(s)
    PROVE  /\ SubSeq(s, 1, n) \in Seq(S) /\ Len(SubSeq(s, 1, n)) = n
           /\ \A j \in 1 .. n : SubSeq(s, 1, n)[j] = s[j]
<1>1. Len(s) \in Nat /\ \A i \in 1 .. Len(s) : s[i] \in S
  OBVIOUS
<1>2. \A i \in 1 .. n : s[i] \in S
  BY <1>1
<1> QED BY <1>1, <1>2, SubSeqProperties

(* Not subscribed to, though extract_topic may read behind the datagram.   *)
LEMMA NotAskedFor ==
    ASSUME NEW x \in Post, NEW stack \in Garbage,
           ExtractTopic(Received(x.data) \o stack) \notin Wanted
    PROVE  Meaning(x) = << >>
<1> DEFINE d == Received(x.data)  m == d \o stack
<1>1. x.data \in Seq(Byte)
  BY DEF Post
<1>2. SubSeq(x.data, 1, Min({BufSize, Len(x.data)})) = d /\ d \in Seq(Byte) /\ Len(d) \in Nat
  BY <1>1, ReceivedIs
<1>3. stack \in Seq(Byte) /\ TopicLen \in Nat /\ TopicLen > 0
  BY PublicationAssumption, Sizes
<1>4. Meaning(x) = IF Len(d) <= TopicLen \/ UpToNul(SubSeq(d, 1, TopicLen)) \notin Wanted THEN << >>
                   ELSE <<[ip |-> IpText, port |-> DecimalText(x.port),
                           topic |-> UpToNul(SubSeq(d, 1, TopicLen)),
                           content |-> Content(d[TopicLen + 1], SubSeq(d, TopicLen + 2, Len(d)))]>>
  BY <1>2 DEF Meaning
<1> HIDE DEF d
<1>5. CASE Len(d) <= TopicLen
  BY <1>4, <1>5, Zenon
<1>6. CASE ~(Len(d) <= TopicLen)
  <2>1. TopicLen <= Len(d)
    BY <1>2, <1>3, <1>6
  <2>2. /\ m \in Seq(Byte) /\ Len(m) = Len(d) + Len(stack) /\ Len(stack) \in Nat
        /\ \A j \in 1 .. Len(d) + Len(stack) : m[j] = IF j <= Len(d) THEN d[j] ELSE stack[j - Len(d)]
    BY <1>2, <1>3, ConcatProperties, LenProperties
  <2> HIDE DEF m
  <2>3. \A j \in 1 .. TopicLen : m[j] = d[j]
    <3> TAKE j \in 1 .. TopicLen
    <3>1. j \in 1 .. Len(d) + Len(stack) /\ j <= Len(d)
      BY <1>2, <1>3, <2>1, <2>2, SMTT(30)
    <3> QED BY <2>2, <3>1
  <2>4. /\ SubSeq(d, 1, TopicLen) \in Seq(Byte) /\ Len(SubSeq(d, 1, TopicLen)) = TopicLen
        /\ \A j \in 1 .. TopicLen : SubSeq(d, 1, TopicLen)[j] = d[j]
    <3>1. d \in Seq(Byte) /\ TopicLen \in Nat /\ TopicLen <= Len(d)
      BY <1>2, <1>3, <2>1
    <3> QED BY <3>1, FrontOf, ZenonT(30)
  <2>5. TopicLen <= Len(m)
    BY <1>2, <1>3, <2>1, <2>2
  <2>6. /\ SubSeq(m, 1, TopicLen) \in Seq(Byte) /\ Len(SubSeq(m, 1, TopicLen)) = TopicLen
        /\ \A j \in 1 .. TopicLen : SubSeq(m, 1, TopicLen)[j] = m[j]
    <3>1. m \in Seq(Byte) /\ TopicLen \in Nat /\ TopicLen <= Len(m)
      BY <1>3, <2>2, <2>5
    <3> QED BY <3>1, FrontOf, ZenonT(30)
  <2>7. SubSeq(m, 1, TopicLen) = SubSeq(d, 1, TopicLen)
    BY <2>3, <2>4, <2>6, SeqEqual
  <2>8. ExtractTopic(m) = UpToNul(SubSeq(d, 1, TopicLen))
    BY <2>4, <2>7, BeforeNul DEF ExtractTopic
  <2>9. ExtractTopic(m) \notin Wanted
    BY DEF m, d
  <2> QED BY <1>4, <2>8, <2>9, Zenon
<1> QED BY <1>5, <1>6

(* What is not printed is too short to mean anything.                      *)
LEMMA NotPrinted ==
    ASSUME NEW x \in Post, PrintPacket(BuildPacket(x.port, Received(x.data))) = << >>
    PROVE  Meaning(x) = << >>
<1> DEFINE d == Received(x.data)
<1>1. x.data \in Seq(Byte) /\ x.port \in Port
  BY DEF Post
<1>2. SubSeq(x.data, 1, Min({BufSize, Len(x.data)})) = d /\ d \in Seq(Byte) /\ Len(d) \in Nat
  BY <1>1, ReceivedIs
<1>3. Meaning(x) = IF Len(d) <= TopicLen \/ UpToNul(SubSeq(d, 1, TopicLen)) \notin Wanted THEN << >>
                   ELSE <<[ip |-> IpText, port |-> DecimalText(x.port),
                           topic |-> UpToNul(SubSeq(d, 1, TopicLen)),
                           content |-> Content(d[TopicLen + 1], SubSeq(d, TopicLen + 2, Len(d)))]>>
  BY <1>2 DEF Meaning
<1>4. PrintPacket(BuildPacket(x.port, d)) = << >>
  OBVIOUS
<1> HIDE DEF d
<1>5. ~(Len(d) > TopicLen)
  <2> SUFFICES ASSUME Len(d) > TopicLen PROVE FALSE
    OBVIOUS
  <2>1. \E line : PrintPacket(BuildPacket(x.port, d)) = <<line>>
    BY <1>1, <1>2, PacketPrinted, Zenon
  <2>2. PICK line : PrintPacket(BuildPacket(x.port, d)) = <<line>>
    BY <2>1, Zenon
  <2>3. <<line>> # << >>
    OBVIOUS
  <2> QED BY <1>4, <2>2, <2>3, Zenon
<1>6. Len(d) <= TopicLen
  BY <1>2, <1>5, Sizes
<1> QED BY <1>3, <1>6, Zenon

-----------------------------------------------------------------------------
(* What is on the way to the subscriber, and what it shows *)

(* The packets that are made of the datagrams P, and their lines.          *)
PacketOf(P, i) == [from |-> i, bytes |-> BuildPacket(P[i].port, Received(P[i].data))]
BuiltOf(P) == {PacketOf(P, i) : i \in 1 .. Len(P)}
LineOf(b) == [from |-> b.from, line |-> PrintPacket(b.bytes)[1]]
LinesOf(P) == {LineOf(b) : b \in BuiltOf(P)}

(* Posting takes nothing of it away.                                       *)
LEMMA PostGrows ==
    ASSUME NEW P \in Seq(Post), NEW x \in Post
    PROVE  /\ Append(P, x) \in Seq(Post) /\ Len(P) \in Nat
           /\ Len(Append(P, x)) = Len(P) + 1
           /\ \A i \in 1 .. Len(P) : Append(P, x)[i] = P[i]
           /\ BuiltOf(P) \subseteq BuiltOf(Append(P, x))
           /\ LinesOf(P) \subseteq LinesOf(Append(P, x))
<1> DEFINE Q == Append(P, x)
<1>1. /\ Q \in Seq(Post) /\ Len(P) \in Nat /\ Len(Q) = Len(P) + 1
      /\ \A i \in 1 .. Len(P) : Q[i] = P[i]
  BY AppendProperties, LenProperties
<1> HIDE DEF Q
<1>2. BuiltOf(P) \subseteq BuiltOf(Q)
  <2>1. \A i \in 1 .. Len(P) : i \in 1 .. Len(Q) /\ PacketOf(Q, i) = PacketOf(P, i)
    BY <1>1 DEF PacketOf
  <2> QED BY <2>1 DEF BuiltOf
<1>3. LinesOf(P) \subseteq LinesOf(Q)
  BY <1>2 DEF LinesOf
<1> QED BY <1>1, <1>2, <1>3 DEF Q

(* The packet of a datagram, to the subscriber.                            *)
LEMMA BuiltProps ==
    ASSUME NEW P \in Seq(Post), NEW b \in BuiltOf(P)
    PROVE  /\ b.from \in 1 .. Len(P) /\ b = PacketOf(P, b.from)
           /\ Acceptable(b.bytes)
           /\ PrintPacket(b.bytes) = << >> \/ PrintPacket(b.bytes) = <<LineOf(b).line>>
           /\ LineOf(b) \in LinesOf(P)
<1>1. PICK i \in 1 .. Len(P) : b = PacketOf(P, i)
  BY DEF BuiltOf
<1>2. b.from = i /\ b.bytes = BuildPacket(P[i].port, Received(P[i].data))
  BY <1>1 DEF PacketOf
<1>3. P[i].port \in Port /\ P[i].data \in Seq(Byte)
  <2>1. P[i] \in Post
    OBVIOUS
  <2>2. \A x \in Post : x.port \in Port /\ x.data \in Seq(Byte)
    BY DEF Post
  <2> QED BY <2>1, <2>2
<1>4. Acceptable(b.bytes)
  BY <1>2, <1>3, PacketFits
<1>5. PrintPacket(b.bytes) = << >> \/ PrintPacket(b.bytes) = <<LineOf(b).line>>
  <2>1. CASE \E line : PrintPacket(b.bytes) = <<line>>
    <3>1. PICK line : PrintPacket(b.bytes) = <<line>>
      BY <2>1
    <3>2. PrintPacket(b.bytes)[1] = line
      BY <3>1
    <3>3. LineOf(b).line = line
      BY <3>2 DEF LineOf
    <3> QED BY <3>1, <3>3
  <2> QED BY <2>1, OneLine
<1> QED BY <1>1, <1>2, <1>4, <1>5 DEF LinesOf

(* What Display appends: a line, or nothing.                               *)
Shows(s, f, pp) == s \o [n \in DOMAIN pp |-> [from |-> f, line |-> pp[n]]]

LEMMA ShowOne ==
    ASSUME NEW S, NEW s \in Seq(S), NEW f, NEW l, [from |-> f, line |-> l] \in S
    PROVE  /\ Shows(s, f, << >>) = s
           /\ Shows(s, f, <<l>>) = Append(s, [from |-> f, line |-> l])
<1>1. [n \in DOMAIN << >> |-> [from |-> f, line |-> << >>[n]]] = << >>
  OBVIOUS
<1>2. s \o << >> = s
  BY ConcatEmptySeq
<1>3. [n \in DOMAIN <<l>> |-> [from |-> f, line |-> <<l>>[n]]] = <<[from |-> f, line |-> l]>>
  OBVIOUS
<1>4. s \o <<[from |-> f, line |-> l]>> = Append(s, [from |-> f, line |-> l])
  BY AppendIsConcat
<1> QED BY <1>1, <1>2, <1>3, <1>4 DEF Shows

(* Nothing but packets of what was posted is on the way, and their lines   *)
(* are shown; the subscriber goes on.                                      *)
DataInv ==
    /\ up \in BOOLEAN /\ reading = TRUE
    /\ arrived \in Seq(1 .. Len(posted)) /\ udpq \in Seq(1 .. Len(posted))
    /\ Ordered(arrived, udpq)
    /\ down \in Seq(BuiltOf(posted))
    /\ shown \in Seq(LinesOf(posted))

(* The steps of the server and the subscriber, on such states.             *)
Dropped(i) == udpq' = Tail(udpq) /\ UNCHANGED <<up, down, arrived>>

Served(i) ==
    /\ udpq' = Tail(udpq) /\ arrived' = Append(arrived, i) /\ up' = up
    /\ \/ down' = Append(down, PacketOf(posted, i))
       \/ down' = down /\ Meaning(posted[i]) = << >>

Died(i) == /\ ~HasRoom(posted[i].port, Received(posted[i].data))
           /\ udpq' = Tail(udpq) /\ up' = FALSE /\ UNCHANGED <<down, arrived>>

LEMMA ServeStep ==
    ASSUME PubTypes, DataInv, ServeDatagram
    PROVE  /\ UNCHANGED <<posted, shown, reading, publishers>>
           /\ up = TRUE /\ udpq # << >>
           /\ Dropped(Head(udpq)) \/ Served(Head(udpq)) \/ Died(Head(udpq))
<1> DEFINE i == Head(udpq)  msg == Received(posted[i].data)
<1>1. UNCHANGED <<posted, shown, reading, publishers>> /\ up = TRUE /\ udpq # << >> /\ udpq' = Tail(udpq)
  BY DEF ServeDatagram, DataInv
<1>2. \/ msg = << >> /\ UNCHANGED <<up, down, arrived>>
      \/ Forward(msg, BuildPacket(posted[i].port, msg), i) /\ arrived' = Append(arrived, i)
      \/ ~HasRoom(posted[i].port, msg) /\ up' = FALSE /\ UNCHANGED <<down, arrived>>
  BY Zenon DEF ServeDatagram
<1>3. CASE msg = << >> /\ UNCHANGED <<up, down, arrived>>
  BY <1>1, <1>3 DEF Dropped
<1>4. CASE Forward(msg, BuildPacket(posted[i].port, msg), i) /\ arrived' = Append(arrived, i)
  <2>1. posted[i] \in Post
    <3>1. i \in 1 .. Len(posted) /\ posted \in Seq(Post)
      BY <1>1, HeadTailProperties DEF DataInv, PubTypes
    <3> QED BY <3>1
  <2>2. /\ up' = up
        /\ \E stack \in Garbage :
              down' = IF ExtractTopic(msg \o stack) \in Wanted
                      THEN Append(down, [from |-> i, bytes |-> BuildPacket(posted[i].port, msg)])
                      ELSE down
    BY <1>4, Zenon DEF Forward
  <2>3. PICK stack \in Garbage :
              down' = IF ExtractTopic(msg \o stack) \in Wanted
                      THEN Append(down, [from |-> i, bytes |-> BuildPacket(posted[i].port, msg)])
                      ELSE down
    BY <2>2, Zenon
  <2>4. ExtractTopic(msg \o stack) \notin Wanted => Meaning(posted[i]) = << >>
    BY <2>1, NotAskedFor
  <2>5. \/ down' = Append(down, [from |-> i, bytes |-> BuildPacket(posted[i].port, msg)])
        \/ down' = down /\ Meaning(posted[i]) = << >>
    BY <2>3, <2>4, Zenon
  <2>6. [from |-> i, bytes |-> BuildPacket(posted[i].port, msg)] = PacketOf(posted, i)
    BY DEF PacketOf
  <2>7. \/ down' = Append(down, PacketOf(posted, i))
        \/ down' = down /\ Meaning(posted[i]) = << >>
    BY <2>5, <2>6
  <2>8. udpq' = Tail(udpq) /\ arrived' = Append(arrived, i) /\ up' = up
    BY <1>1, <1>4, <2>2
  <2>9. Served(i)
    <3> HIDE DEF i, msg
    <3> QED BY <2>7, <2>8 DEF Served
  <2> QED BY <1>1, <2>9
<1>5. CASE ~HasRoom(posted[i].port, msg) /\ up' = FALSE /\ UNCHANGED <<down, arrived>>
  BY <1>1, <1>5 DEF Died
<1> QED BY <1>1, <1>2, <1>3, <1>4, <1>5

LEMMA DisplayStep ==
    ASSUME PubTypes, DataInv, Display
    PROVE  /\ UNCHANGED <<posted, udpq, up, arrived, reading, publishers>>
           /\ down # << >> /\ Head(down) \in BuiltOf(posted) /\ down' = Tail(down)
           /\ \/ PrintPacket(Head(down).bytes) = << >> /\ shown' = shown
              \/ /\ PrintPacket(Head(down).bytes) # << >>
                 /\ shown' = Append(shown, LineOf(Head(down)))
<1> DEFINE b == Head(down)  pp == PrintPacket(b.bytes)
<1>1. down # << >> /\ down' = Tail(down) /\ UNCHANGED <<posted, udpq, up, arrived, publishers>>
  BY DEF Display
<1>2. b \in BuiltOf(posted)
  BY <1>1, HeadTailProperties DEF DataInv
<1>3. posted \in Seq(Post)
  BY DEF PubTypes
<1>4. Acceptable(b.bytes) /\ LineOf(b) \in LinesOf(posted) /\ (pp = << >> \/ pp = <<LineOf(b).line>>)
  BY <1>2, <1>3, BuiltProps
<1>5. shown' = Shows(shown, b.from, pp) /\ reading' = reading
  BY <1>4, Zenon DEF Display, Shows
<1>6. LineOf(b) = [from |-> b.from, line |-> LineOf(b).line]
  BY DEF LineOf
<1>7. shown \in Seq(LinesOf(posted)) /\ [from |-> b.from, line |-> LineOf(b).line] \in LinesOf(posted)
  BY <1>4, <1>6 DEF DataInv
<1>8. CASE pp = << >>
  <2>1. Shows(shown, b.from, << >>) = shown
    BY <1>7, ShowOne
  <2>2. shown' = shown
    BY <1>5, <1>8, <2>1, Zenon
  <2> QED BY <1>1, <1>2, <1>5, <1>8, <2>2
<1>9. CASE pp = <<LineOf(b).line>>
  <2>1. shown' = Append(shown, [from |-> b.from, line |-> LineOf(b).line])
    <3>1. Shows(shown, b.from, <<LineOf(b).line>>) = Append(shown, [from |-> b.from, line |-> LineOf(b).line])
      BY <1>7, ShowOne
    <3> QED BY <1>5, <1>9, <3>1, Zenon
  <2>2. pp # << >>
    BY <1>9
  <2>3. shown' = Append(shown, LineOf(b))
    BY <1>6, <2>1, Zenon
  <2> QED BY <1>1, <1>2, <1>5, <2>2, <2>3
<1> QED BY <1>4, <1>8, <1>9

-----------------------------------------------------------------------------
(* What dies of what *)

TooLong(P, i) == ~HasRoom(P[i].port, Received(P[i].data))

Gone(i) == /\ \A j \in 1 .. Len(arrived) : arrived[j] # i
           /\ \A j \in 1 .. Len(udpq) : udpq[j] # i

(* Where the server died there is the datagram it died of, neither dealt   *)
(* with nor in the socket.                                                 *)
KillInv == up = TRUE \/ \E i \in 1 .. Len(posted) : TooLong(posted, i) /\ Gone(i)

LEMMA TypesByPublish ==
    ASSUME PubTypes, NEW p \in Pubs, Publish(p)
    PROVE  PubTypes' /\ \/ posted' = posted /\ udpq' = udpq
                        \/ \E x \in Post : /\ posted' = Append(posted, x)
                                           /\ udpq' \in {udpq, Append(udpq, Len(posted) + 1)}
<1>1. argv' = argv /\ StepOf(p)
  BY PublisherStep
<1>2. \A q \in Pubs : argv'[q] \in CommandLines[q]
  BY <1>1 DEF PubTypes
<1>3. CASE \E how \in Stages : Ended(p, how)
  BY <1>2, <1>3 DEF Ended, PubTypes
<1>4. ASSUME NEW n \in Port, Bound(p, n)
      PROVE  PubTypes' /\ posted' = posted /\ udpq' = udpq
  BY <1>2, <1>4 DEF Bound, PubTypes, Stages
<1>5. ASSUME NEW i \in 1 .. Size(p), NEW x \in Post, NEW how \in {"run", "crashed"}, Sent(p, i, x, how)
      PROVE  PubTypes' /\ posted' = Append(posted, x) /\ udpq' \in {udpq, Append(udpq, Len(posted) + 1)}
  <2>1. posted \in Seq(Post) /\ sent[p] \in Seq(Nat) /\ i \in Nat
    BY FileTyped DEF PubTypes
  <2>2. Append(posted, x) \in Seq(Post) /\ Len(Append(posted, x)) = Len(posted) + 1
    BY <2>1, AppendProperties
  <2>3. Append(sent[p], i) \in Seq(Nat)
    BY <2>1, AppendProperties
  <2>4. sent' \in [Pubs -> Seq(Nat)]
    BY <1>5, <2>3 DEF Sent, PubTypes
  <2>5. posted' = Append(posted, x) /\ udpq' \in {udpq, Append(udpq, Len(posted) + 1)} /\ posted' \in Seq(Post)
    BY <1>5, <2>2 DEF Sent
  <2>6. stage' \in [Pubs -> Stages] /\ port' \in [Pubs -> Port]
    BY <1>5 DEF Sent, PubTypes, Stages
  <2> QED BY <1>2, <2>4, <2>5, <2>6 DEF PubTypes
<1> QED BY <1>1, <1>3, <1>4, <1>5 DEF StepOf, Stages

(* A datagram posted, which gets to the socket or not.                     *)
LEMMA DataByPost ==
    ASSUME PubTypes, DataInv, KillInv, NEW x \in Post, posted' = Append(posted, x),
           udpq' \in {udpq, Append(udpq, Len(posted) + 1)},
           UNCHANGED <<server, reading, shown>>
    PROVE  DataInv' /\ KillInv'
<1> DEFINE N == Len(posted)
<1>0. posted \in Seq(Post)
  BY DEF PubTypes
<1>1. /\ N \in Nat /\ Len(posted') = N + 1
      /\ \A i \in 1 .. N : posted'[i] = posted[i]
      /\ BuiltOf(posted) \subseteq BuiltOf(posted') /\ LinesOf(posted) \subseteq LinesOf(posted')
  BY <1>0, PostGrows
<1>2. /\ arrived \in Seq(1 .. N) /\ udpq \in Seq(1 .. N) /\ Ordered(arrived, udpq)
      /\ up \in BOOLEAN /\ reading = TRUE
      /\ down \in Seq(BuiltOf(posted)) /\ shown \in Seq(LinesOf(posted))
  BY DEF DataInv
<1>3. arrived' = arrived /\ up' = up /\ reading' = reading /\ down' = down /\ shown' = shown
  BY DEF server
<1> HIDE DEF N
<1>4. /\ arrived \in Seq(1 .. N + 1) /\ udpq \in Seq(1 .. N + 1)
      /\ Append(udpq, N + 1) \in Seq(1 .. N + 1) /\ Ordered(arrived, Append(udpq, N + 1))
      /\ \A j \in 1 .. Len(Append(udpq, N + 1)) : j \in 1 .. Len(udpq) \/ Append(udpq, N + 1)[j] = N + 1
      /\ \A j \in 1 .. Len(udpq) : Append(udpq, N + 1)[j] = udpq[j]
  BY <1>1, <1>2, PutLast
<1>5. down \in Seq(BuiltOf(posted')) /\ shown \in Seq(LinesOf(posted'))
  BY <1>1, <1>2, Wider
<1>6. udpq' = udpq \/ udpq' = Append(udpq, N + 1)
  BY DEF N
<1>7. udpq' \in Seq(1 .. N + 1) /\ Ordered(arrived, udpq')
  BY <1>2, <1>4, <1>6
<1>8. DataInv'
  BY <1>1, <1>2, <1>3, <1>4, <1>5, <1>7 DEF DataInv
<1>9. KillInv'
  <2>1. CASE up = TRUE
    BY <1>3, <2>1 DEF KillInv
  <2>2. ASSUME NEW i \in 1 .. N, TooLong(posted, i), Gone(i) PROVE KillInv'
    <3>1. i \in 1 .. Len(posted') /\ posted'[i] = posted[i] /\ i # N + 1
      BY <1>1
    <3>2. TooLong(posted', i)
      BY <2>2, <3>1 DEF TooLong, HasRoom
    <3>3. \A j \in 1 .. Len(udpq') : udpq'[j] # i
      <4>1. CASE udpq' = udpq
        BY <2>2, <4>1 DEF Gone
      <4>2. CASE udpq' = Append(udpq, N + 1)
        BY <1>4, <2>2, <3>1, <4>2 DEF Gone
      <4> QED BY <1>6, <4>1, <4>2
    <3>4. \A j \in 1 .. Len(arrived') : arrived'[j] # i
      BY <1>3, <2>2 DEF Gone
    <3> QED BY <3>1, <3>2, <3>3, <3>4 DEF KillInv, Gone
  <2> QED BY <2>1, <2>2 DEF KillInv, N
<1> QED BY <1>8, <1>9

LEMMA DataByServe ==
    ASSUME PubTypes, DataInv, KillInv, ServeDatagram
    PROVE  PubTypes' /\ DataInv' /\ KillInv' /\ Head(udpq) \in 1 .. Len(posted)
<1> DEFINE N == Len(posted)  i == Head(udpq)
<1>0. posted \in Seq(Post) /\ N \in Nat
  BY LenProperties DEF PubTypes
<1>1. /\ UNCHANGED <<posted, shown, reading, publishers>> /\ up = TRUE /\ udpq # << >>
      /\ Dropped(i) \/ Served(i) \/ Died(i)
  BY ServeStep
<1>2. /\ arrived \in Seq(1 .. N) /\ udpq \in Seq(1 .. N) /\ Ordered(arrived, udpq)
      /\ up \in BOOLEAN /\ reading = TRUE
      /\ down \in Seq(BuiltOf(posted)) /\ shown \in Seq(LinesOf(posted))
  BY DEF DataInv
<1>3. PubTypes'
  BY <1>1 DEF PubTypes, publishers
<1> HIDE DEF N
<1>4. /\ i \in 1 .. N /\ Tail(udpq) \in Seq(1 .. N) /\ Append(arrived, i) \in Seq(1 .. N)
      /\ Ordered(Append(arrived, i), Tail(udpq)) /\ Ordered(arrived, Tail(udpq))
      /\ \A j \in 1 .. Len(arrived) : arrived[j] # i
      /\ \A j \in 1 .. Len(Tail(udpq)) : Tail(udpq)[j] # i
  BY <1>0, <1>1, <1>2, TakeFirst
<1> HIDE DEF i
<1>5. posted' = posted /\ shown' = shown /\ reading' = reading
  BY <1>1
<1>6. CASE Dropped(i)
  <2>1. DataInv'
    BY <1>2, <1>4, <1>5, <1>6 DEF DataInv, Dropped, N
  <2> QED BY <1>1, <1>3, <1>4, <1>6, <2>1 DEF KillInv, Dropped, N, i
<1>7. CASE Served(i)
  <2>1. PacketOf(posted, i) \in BuiltOf(posted)
    BY <1>4 DEF BuiltOf, N
  <2>2. down' \in Seq(BuiltOf(posted))
    <3> DEFINE c == PacketOf(posted, i)  S == BuiltOf(posted)
    <3>1. down \in Seq(S) /\ c \in S /\ (down' = down \/ down' = Append(down, c))
      BY <1>2, <1>7, <2>1 DEF Served
    <3> HIDE DEF c, S
    <3>2. down' \in Seq(S)
      BY <3>1, AppendProperties
    <3> QED BY <3>2 DEF S
  <2>3. DataInv'
    BY <1>2, <1>4, <1>5, <1>7, <2>2 DEF DataInv, Served, N
  <2> QED BY <1>1, <1>3, <1>4, <1>7, <2>3 DEF KillInv, Served, N, i
<1>8. CASE Died(i)
  <2>1. DataInv'
    BY <1>2, <1>4, <1>5, <1>8 DEF DataInv, Died, N
  <2>2. PICK k \in 1 .. N : k = i
    BY <1>4
  <2>3. TooLong(posted, k)
    BY <1>8, <2>2 DEF Died, TooLong
  <2>4. TooLong(posted', k)
    BY <1>5, <2>3
  <2>5. \A j \in 1 .. Len(arrived') : arrived'[j] # k
    BY <1>4, <1>8, <2>2 DEF Died
  <2>6. \A j \in 1 .. Len(udpq') : udpq'[j] # k
    BY <1>4, <1>8, <2>2 DEF Died
  <2>7. k \in 1 .. Len(posted')
    BY <1>5 DEF N
  <2>8. KillInv'
    BY <2>4, <2>5, <2>6, <2>7 DEF KillInv, Gone
  <2> QED BY <1>3, <1>4, <2>1, <2>8 DEF N, i
<1> QED BY <1>1, <1>6, <1>7, <1>8

LEMMA DataByDisplay ==
    ASSUME PubTypes, DataInv, KillInv, Display
    PROVE  PubTypes' /\ DataInv' /\ KillInv'
<1>0. posted \in Seq(Post)
  BY DEF PubTypes
<1>1. /\ UNCHANGED <<posted, udpq, up, arrived, reading, publishers>>
      /\ down # << >> /\ Head(down) \in BuiltOf(posted) /\ down' = Tail(down)
      /\ shown' = shown \/ shown' = Append(shown, LineOf(Head(down)))
  BY DisplayStep
<1>2. LineOf(Head(down)) \in LinesOf(posted)
  BY <1>0, <1>1, BuiltProps
<1>3. shown' \in Seq(LinesOf(posted))
  <2> DEFINE c == LineOf(Head(down))  S == LinesOf(posted)
  <2>1. shown \in Seq(S) /\ c \in S /\ (shown' = shown \/ shown' = Append(shown, c))
    BY <1>1, <1>2 DEF DataInv
  <2> HIDE DEF c, S
  <2>2. shown' \in Seq(S)
    BY <2>1, AppendProperties
  <2> QED BY <2>2 DEF S
<1>4. down' \in Seq(BuiltOf(posted))
  BY <1>1, HeadTailProperties DEF DataInv
<1>5. PubTypes'
  BY <1>1 DEF PubTypes, publishers
<1>6. DataInv'
  BY <1>1, <1>3, <1>4 DEF DataInv
<1>7. KillInv'
  BY <1>1 DEF KillInv, Gone
<1> QED BY <1>5, <1>6, <1>7

-----------------------------------------------------------------------------
(* What is due *)

(* What is gathered from two sequences is gathered from one behind the     *)
(* other.                                                                  *)
GathersBoth(g, a, b) == Gathered(g, a \o b) = Gathered(g, a) \o Gathered(g, b)

LEMMA GatheredConcat ==
    ASSUME NEW F, NEW S, NEW g \in [F -> Seq(S)], NEW a \in Seq(F), NEW b \in Seq(F)
    PROVE  GathersBoth(g, a, b)
<1> DEFINE N == Len(b)
           front(k) == SubSeq(b, 1, k)
           A == {k \in 0 .. N : GathersBoth(g, a, front(k))}
<1>1. N \in Nat /\ \A k \in 0 .. N : front(k) \in Seq(F) /\ Len(front(k)) = k
                                       /\ \A j \in 1 .. k : front(k)[j] = b[j]
  <2>1. N \in Nat
    BY LenProperties
  <2>2. ASSUME NEW k \in 0 .. N
        PROVE  front(k) \in Seq(F) /\ Len(front(k)) = k /\ \A j \in 1 .. k : front(k)[j] = b[j]
    <3>1. k \in Nat /\ k <= Len(b)
      BY <2>1
    <3> QED BY <3>1, FrontOf
  <2> QED BY <2>1, <2>2
<1>2. 0 \in A
  <2>1. front(0) = << >>
    BY <1>1, EmptySeq
  <2>2. Gathered(g, << >>) = << >> /\ Gathered(g, a) \in Seq(S)
    <3>1. CASE F = {}
      <4>1. Gathered(g, << >>) = << >>
        <5>1. [n \in DOMAIN << >> |-> g[<< >>[n]]] = << >> /\ FlattenSeq(<< >>) = << >>
          BY DEF FlattenSeq
        <5> QED BY <5>1 DEF Gathered
      <4>2. a = << >> /\ << >> \in Seq(S)
        BY <3>1
      <4> QED BY <4>1, <4>2, Zenon
    <3>2. ASSUME NEW m \in F PROVE Gathered(g, << >>) = << >> /\ Gathered(g, a) \in Seq(S)
      <4>1. GathersWell(g, a, m, S)
        BY GatheredProps, Zenon
      <4> QED BY <4>1, Zenon DEF GathersWell
    <3> QED BY <3>1, <3>2
  <2>3. a \o << >> = a /\ Gathered(g, a) \o << >> = Gathered(g, a)
    BY <2>2, ConcatEmptySeq
  <2>4. GathersBoth(g, a, << >>)
    BY <2>2, <2>3, Zenon DEF GathersBoth
  <2>5. GathersBoth(g, a, front(0))
    BY <2>1, <2>4, Zenon
  <2>6. 0 \in 0 .. N
    BY <1>1
  <2> HIDE DEF front
  <2> QED BY <2>5, <2>6
<1>3. \A k \in 0 .. N - 1 : k \in A => k + 1 \in A
  <2> SUFFICES ASSUME NEW k \in 0 .. N - 1, GathersBoth(g, a, front(k))
               PROVE  GathersBoth(g, a, front(k + 1))
    BY <1>1
  <2> DEFINE c == front(k)  d == front(k + 1)  m == b[k + 1]
  <2>0. k \in 0 .. N /\ k + 1 \in 0 .. N /\ k + 1 \in 1 .. N /\ k \in Nat
    BY <1>1
  <2>1. /\ c \in Seq(F) /\ Len(c) = k /\ \A j \in 1 .. k : c[j] = b[j]
        /\ d \in Seq(F) /\ Len(d) = k + 1 /\ \A j \in 1 .. k + 1 : d[j] = b[j]
        /\ m \in F
    BY <1>1, <2>0
  <2>2. GathersBoth(g, a, c)
    OBVIOUS
  <2> HIDE DEF c, d, m
  <2>3. d = Append(c, m)
    <3>1. /\ Append(c, m) \in Seq(F) /\ Len(Append(c, m)) = k + 1 /\ Append(c, m)[k + 1] = m
          /\ \A j \in 1 .. k : Append(c, m)[j] = c[j]
      BY <2>1, AppendProperties
    <3>2. \A j \in 1 .. k + 1 : Append(c, m)[j] = d[j]
      <4> TAKE j \in 1 .. k + 1
      <4>1. j \in 1 .. k \/ j = k + 1
        BY <2>0
      <4> QED BY <2>1, <3>1, <4>1 DEF m
    <3> QED BY <2>1, <3>1, <3>2, SeqEqual
  <2>4. a \o c \in Seq(F) /\ a \o Append(c, m) = Append(a \o c, m)
    <3>1. a \o c \in Seq(F) /\ <<m>> \in Seq(F)
      BY <2>1, ConcatProperties
    <3>2. Append(c, m) = c \o <<m>> /\ Append(a \o c, m) = (a \o c) \o <<m>>
      BY <2>1, <3>1, AppendIsConcat
    <3>3. (a \o c) \o <<m>> = a \o (c \o <<m>>)
      <4>1. Regroups(a, c, <<m>>)
        BY <2>1, <3>1, Regroup, Zenon
      <4> QED BY <4>1, Zenon DEF Regroups
    <3> QED BY <3>1, <3>2, <3>3
  <2>5. GathersWell(g, a \o c, m, S) /\ GathersWell(g, c, m, S) /\ GathersWell(g, a, m, S)
    BY <2>1, <2>4, GatheredProps, Zenon
  <2>6. /\ Gathered(g, Append(a \o c, m)) = Gathered(g, a \o c) \o g[m]
        /\ Gathered(g, Append(c, m)) = Gathered(g, c) \o g[m]
        /\ Gathered(g, a) \in Seq(S) /\ Gathered(g, c) \in Seq(S)
    BY <2>5, Zenon DEF GathersWell
  <2>7. g[m] \in Seq(S)
    BY <2>1
  <2>8. (Gathered(g, a) \o Gathered(g, c)) \o g[m] = Gathered(g, a) \o (Gathered(g, c) \o g[m])
    <3>1. Regroups(Gathered(g, a), Gathered(g, c), g[m])
      BY <2>6, <2>7, Regroup, Zenon
    <3> QED BY <3>1, Zenon DEF Regroups
  <2>9. Gathered(g, a \o c) = Gathered(g, a) \o Gathered(g, c)
    BY <2>2, Zenon DEF GathersBoth
  <2>10. GathersBoth(g, a, Append(c, m))
    BY <2>4, <2>6, <2>8, <2>9, Zenon DEF GathersBoth
  <2> QED BY <2>3, <2>10, Zenon DEF d
<1>4. N \in A
  <2>1. N \in 0 .. N
    BY <1>1
  <2> HIDE DEF A, N
  <2> QED BY <1>1, <1>2, <1>3, <2>1, UpTo
<1>5. front(N) = b
  BY SubSeqFull
<1> QED BY <1>4, <1>5

(* For every datagram, itself if it means something to the subscriber.     *)
DueOf(P) == [i \in 1 .. Len(P) |-> IF Meaning(P[i]) = << >> THEN << >> ELSE <<i>>]

LEMMA DueOfTyped ==
    ASSUME NEW P
    PROVE  DueOf(P) \in [1 .. Len(P) -> Seq(1 .. Len(P))]
<1> DEFINE F == 1 .. Len(P)
<1>1. \A i \in F : << >> \in Seq(F) /\ <<i>> \in Seq(F)
  <2> HIDE DEF F
  <2> QED OBVIOUS
<1>2. \A i \in F : (IF Meaning(P[i]) = << >> THEN << >> ELSE <<i>>) \in Seq(F)
  BY <1>1, Zenon
<1>3. DueOf(P) = [i \in F |-> IF Meaning(P[i]) = << >> THEN << >> ELSE <<i>>]
  BY DEF DueOf
<1> HIDE DEF F
<1>4. DueOf(P) \in [F -> Seq(F)]
  BY <1>2, <1>3
<1> QED BY <1>4 DEF F

(* Due puts those of its sequence together.                                *)
LEMMA DueIs == ASSUME NEW s \in Seq(1 .. Len(posted)) PROVE Due(s) = Gathered(DueOf(posted), s)
<1>1. \A n \in DOMAIN s : s[n] \in 1 .. Len(posted)
  BY LenProperties
<1>2. \A n \in DOMAIN s : DueOf(posted)[s[n]] = IF Meaning(posted[s[n]]) = << >> THEN << >> ELSE <<s[n]>>
  BY <1>1 DEF DueOf
<1>3. [n \in DOMAIN s |-> IF Meaning(posted[s[n]]) = << >> THEN << >> ELSE <<s[n]>>] =
          [n \in DOMAIN s |-> DueOf(posted)[s[n]]]
  BY <1>2, Zenon
<1> QED BY <1>3, Zenon DEF Due, Gathered

(* A datagram posted makes no other due.                                   *)
LEMMA DueStays ==
    ASSUME NEW P, NEW Q, NEW s \in Seq(1 .. Len(P)), Len(P) \in Nat, Len(Q) = Len(P) + 1,
           \A i \in 1 .. Len(P) : Q[i] = P[i]
    PROVE  Gathered(DueOf(Q), s) = Gathered(DueOf(P), s)
<1>1. \A n \in DOMAIN s : s[n] \in 1 .. Len(P)
  BY LenProperties
<1>2. ASSUME NEW n \in DOMAIN s PROVE DueOf(Q)[s[n]] = DueOf(P)[s[n]]
  <2>1. s[n] \in 1 .. Len(P) /\ s[n] \in 1 .. Len(Q) /\ Q[s[n]] = P[s[n]]
    BY <1>1
  <2> QED BY <2>1 DEF DueOf
<1>3. [n \in DOMAIN s |-> DueOf(Q)[s[n]]] = [n \in DOMAIN s |-> DueOf(P)[s[n]]]
  BY <1>2, Zenon
<1> QED BY <1>3, Zenon DEF Gathered

(* Which datagrams packets or lines are of.                                *)
LEMMA FromProps ==
    ASSUME NEW S, NEW F, \A x \in S : x.from \in F, NEW s \in Seq(S), NEW c \in S
    PROVE  /\ From(s) \in Seq(F) /\ Len(From(s)) = Len(s)
           /\ From(Append(s, c)) = Append(From(s), c.from)
<1>1. ASSUME NEW q \in Seq(S)
      PROVE  From(q) \in Seq(F) /\ Len(From(q)) = Len(q) /\ \A i \in 1 .. Len(q) : From(q)[i] = q[i].from
  <2>1. Len(q) \in Nat /\ DOMAIN q = 1 .. Len(q) /\ \A i \in 1 .. Len(q) : q[i] \in S
    OBVIOUS
  <2>2. \A i \in 1 .. Len(q) : q[i].from \in F
    BY <2>1
  <2>3. From(q) = [i \in 1 .. Len(q) |-> q[i].from]
    BY <2>1 DEF From
  <2> QED BY <2>1, <2>2, <2>3
<1> DEFINE t == Append(s, c)
<1>2. /\ t \in Seq(S) /\ Len(t) = Len(s) + 1 /\ t[Len(s) + 1] = c
      /\ \A j \in 1 .. Len(s) : t[j] = s[j]
      /\ Len(s) \in Nat /\ c.from \in F
  BY AppendProperties, LenProperties
<1> HIDE DEF t
<1>3. /\ From(s) \in Seq(F) /\ Len(From(s)) = Len(s) /\ \A i \in 1 .. Len(s) : From(s)[i] = s[i].from
      /\ From(t) \in Seq(F) /\ Len(From(t)) = Len(t) /\ \A i \in 1 .. Len(t) : From(t)[i] = t[i].from
  BY <1>1, <1>2
<1> DEFINE u == Append(From(s), c.from)
<1>4. /\ u \in Seq(F) /\ Len(u) = Len(s) + 1 /\ u[Len(s) + 1] = c.from
      /\ \A i \in 1 .. Len(s) : u[i] = s[i].from
  BY <1>2, <1>3, AppendProperties
<1> HIDE DEF u
<1>5. \A i \in 1 .. Len(t) : From(t)[i] = u[i]
  <2> TAKE i \in 1 .. Len(t)
  <2>1. i \in 1 .. Len(s) \/ i = Len(s) + 1
    BY <1>2
  <2> QED BY <1>2, <1>3, <1>4, <2>1
<1>6. From(t) = u
  BY <1>2, <1>3, <1>4, <1>5, SeqEqual
<1> QED BY <1>3, <1>6 DEF t, u

LEMMA FromHead ==
    ASSUME NEW S, NEW F, \A x \in S : x.from \in F, NEW s \in Seq(S), s # << >>
    PROVE  /\ From(Tail(s)) \in Seq(F) /\ Head(s).from \in F
           /\ From(s) = <<Head(s).from>> \o From(Tail(s))
<1>0. /\ Head(s) \in S /\ Head(s) = s[1] /\ Tail(s) \in Seq(S) /\ Len(Tail(s)) = Len(s) - 1
      /\ \A j \in 1 .. Len(Tail(s)) : Tail(s)[j] = s[j + 1]
      /\ Len(s) \in Nat /\ Len(s) > 0
  BY HeadTailProperties, LenProperties
<1>1. ASSUME NEW q \in Seq(S)
      PROVE  From(q) \in Seq(F) /\ Len(From(q)) = Len(q) /\ \A i \in 1 .. Len(q) : From(q)[i] = q[i].from
  <2>1. Len(q) \in Nat /\ DOMAIN q = 1 .. Len(q) /\ \A i \in 1 .. Len(q) : q[i] \in S
    OBVIOUS
  <2>2. \A i \in 1 .. Len(q) : q[i].from \in F
    BY <2>1
  <2>3. From(q) = [i \in 1 .. Len(q) |-> q[i].from]
    BY <2>1 DEF From
  <2> QED BY <2>1, <2>2, <2>3
<1> DEFINE r == Tail(s)  f == From(r)  h == Head(s).from  u == <<h>> \o f
<1>2. /\ r \in Seq(S) /\ Len(r) = Len(s) - 1
      /\ \A i \in 1 .. Len(s) - 1 : r[i] = s[i + 1]
  BY <1>0
<1>3. h \in F
  BY <1>0
<1> HIDE DEF r, h
<1>4. f \in Seq(F) /\ Len(f) = Len(r) /\ \A i \in 1 .. Len(r) : f[i] = r[i].from
  BY <1>1, <1>2
<1> HIDE DEF f
<1>5. /\ h \in F /\ f \in Seq(F) /\ Len(f) = Len(s) - 1
      /\ \A i \in 1 .. Len(s) - 1 : f[i] = s[i + 1].from
  BY <1>2, <1>3, <1>4
<1>6. From(s) \in Seq(F) /\ Len(From(s)) = Len(s) /\ \A i \in 1 .. Len(s) : From(s)[i] = s[i].from
  BY <1>1
<1>7. /\ u \in Seq(F) /\ Len(u) = Len(s) /\ u[1] = h
      /\ \A i \in 1 .. Len(s) - 1 : u[i + 1] = f[i]
  <2>1. /\ u \in Seq(F) /\ Len(u) = Len(f) + 1 /\ u[1] = h
        /\ \A i \in 1 .. Len(f) : u[i + 1] = f[i]
    BY <1>5, ConsProps
  <2> HIDE DEF u
  <2> QED BY <1>0, <1>5, <2>1
<1> HIDE DEF u
<1>8. \A i \in 1 .. Len(s) : From(s)[i] = u[i]
  <2> TAKE i \in 1 .. Len(s)
  <2>1. i = 1 \/ (i - 1 \in 1 .. Len(s) - 1 /\ (i - 1) + 1 = i)
    BY <1>0
  <2>2. i = 1 => u[i] = s[i].from
    BY <1>0, <1>7 DEF h
  <2>3. i # 1 => u[i] = s[i].from
    BY <1>5, <1>7, <2>1
  <2> QED BY <1>6, <2>2, <2>3
<1>9. From(s) = u
  BY <1>6, <1>7, <1>8, SeqEqual
<1> QED BY <1>5, <1>9 DEF r, f, h, u

(* NothingMissed, in two parts.                                            *)
Balance(P, a, b, c) == Gathered(DueOf(P), a) \o Gathered(DueOf(P), b) = Gathered(DueOf(P), c)

DueInv == Balance(posted, From(shown), From(down), arrived)

LEMMA FromTyped ==
    ASSUME PubTypes, DataInv
    PROVE  /\ From(shown) \in Seq(1 .. Len(posted)) /\ From(down) \in Seq(1 .. Len(posted))
           /\ \A b \in BuiltOf(posted) : b.from \in 1 .. Len(posted)
           /\ \A l \in LinesOf(posted) : l.from \in 1 .. Len(posted)
<1>1. posted \in Seq(Post) /\ shown \in Seq(LinesOf(posted)) /\ down \in Seq(BuiltOf(posted))
  BY DEF PubTypes, DataInv
<1>2. \A b \in BuiltOf(posted) : b.from \in 1 .. Len(posted)
  BY <1>1, BuiltProps
<1>3. \A l \in LinesOf(posted) : l.from \in 1 .. Len(posted)
  BY <1>2 DEF LinesOf, LineOf
<1>4. ASSUME NEW S, NEW q \in Seq(S), \A x \in S : x.from \in 1 .. Len(posted)
      PROVE  From(q) \in Seq(1 .. Len(posted))
  <2>1. CASE q = << >>
    <3>1. From(q) = << >>
      BY <2>1 DEF From
    <3> QED BY <3>1
  <2>2. CASE q # << >>
    <3>1. Head(q) \in S
      BY <2>2
    <3> QED BY <1>4, <3>1, FromProps
  <2> QED BY <2>1, <2>2
<1> QED BY <1>1, <1>2, <1>3, <1>4

(* Sequences of numbers in the balance: one more on both sides, at the end *)
(* of what is on its way; the first of that moved, or left out.            *)
BalanceKept(P, a, b, c, i) ==
    /\ Balance(P, a, b, c) => Balance(P, a, Append(b, i), Append(c, i))
    /\ Balance(P, a, b, c) /\ DueOf(P)[i] = << >> => Balance(P, a, b, Append(c, i))
    /\ Balance(P, a, <<i>> \o b, c) => Balance(P, Append(a, i), b, c)
    /\ Balance(P, a, <<i>> \o b, c) /\ DueOf(P)[i] = << >> => Balance(P, a, b, c)

LEMMA BalanceProps ==
    ASSUME NEW P, NEW i \in 1 .. Len(P), NEW a \in Seq(1 .. Len(P)), NEW b \in Seq(1 .. Len(P)),
           NEW c \in Seq(1 .. Len(P))
    PROVE  BalanceKept(P, a, b, c, i)
<1> DEFINE F == 1 .. Len(P)  g == DueOf(P)
<1>1. g \in [F -> Seq(F)] /\ i \in F /\ a \in Seq(F) /\ b \in Seq(F) /\ c \in Seq(F)
  BY DueOfTyped
<1> HIDE DEF F, g
<1>2. GathersWell(g, a, i, F) /\ GathersWell(g, b, i, F) /\ GathersWell(g, c, i, F)
  BY <1>1, GatheredProps, Zenon
<1> DEFINE ga == Gathered(g, a)  gb == Gathered(g, b)  gc == Gathered(g, c)  d == g[i]
<1>3. /\ ga \in Seq(F) /\ gb \in Seq(F) /\ gc \in Seq(F) /\ d \in Seq(F)
      /\ Gathered(g, Append(a, i)) = ga \o d
      /\ Gathered(g, Append(b, i)) = gb \o d
      /\ Gathered(g, Append(c, i)) = gc \o d
      /\ Gathered(g, <<i>> \o b) = d \o gb
  <2>1. d \in Seq(F)
    BY <1>1
  <2> QED BY <1>2, <2>1, Zenon DEF GathersWell
<1>4. /\ Balance(P, a, b, c) <=> ga \o gb = gc
      /\ Balance(P, a, Append(b, i), Append(c, i)) <=> ga \o (gb \o d) = gc \o d
      /\ Balance(P, a, b, Append(c, i)) <=> ga \o gb = gc \o d
      /\ Balance(P, a, <<i>> \o b, c) <=> ga \o (d \o gb) = gc
      /\ Balance(P, Append(a, i), b, c) <=> (ga \o d) \o gb = gc
  BY <1>3, Zenon DEF Balance, g
<1> HIDE DEF ga, gb, gc, d
<1>5. Regroups(ga, gb, d) /\ Regroups(ga, d, gb)
  BY <1>3, Regroup, Zenon
<1>6. (ga \o gb) \o d = ga \o (gb \o d) /\ (ga \o d) \o gb = ga \o (d \o gb)
  BY <1>5, Zenon DEF Regroups
<1>7. d = << >> => gc \o d = gc /\ d \o gb = gb
  BY <1>3, ConcatEmptySeq
<1>8. Balance(P, a, b, c) => Balance(P, a, Append(b, i), Append(c, i))
  BY <1>4, <1>6, Zenon
<1>9. Balance(P, a, b, c) /\ d = << >> => Balance(P, a, b, Append(c, i))
  BY <1>4, <1>7, Zenon
<1>10. Balance(P, a, <<i>> \o b, c) => Balance(P, Append(a, i), b, c)
  BY <1>4, <1>6, Zenon
<1>11. Balance(P, a, <<i>> \o b, c) /\ d = << >> => Balance(P, a, b, c)
  BY <1>4, <1>7, Zenon
<1> QED BY <1>8, <1>9, <1>10, <1>11, Zenon DEF BalanceKept, d, g

LEMMA DueByPost ==
    ASSUME PubTypes, DataInv, DueInv, NEW x \in Post, posted' = Append(posted, x),
           UNCHANGED <<server, reading, shown>>
    PROVE  DueInv'
<1>1. posted \in Seq(Post)
  BY DEF PubTypes
<1>2. /\ Len(posted) \in Nat /\ Len(posted') = Len(posted) + 1
      /\ \A i \in 1 .. Len(posted) : posted'[i] = posted[i]
  BY <1>1, PostGrows
<1>3. \A s \in Seq(1 .. Len(posted)) : Gathered(DueOf(posted'), s) = Gathered(DueOf(posted), s)
  BY <1>2, DueStays, Zenon
<1>4. /\ From(shown) \in Seq(1 .. Len(posted)) /\ From(down) \in Seq(1 .. Len(posted))
      /\ arrived \in Seq(1 .. Len(posted))
  BY FromTyped DEF DataInv
<1>5. Balance(posted', From(shown), From(down), arrived)
  BY <1>3, <1>4, Zenon DEF DueInv, Balance
<1>6. shown' = shown /\ down' = down /\ arrived' = arrived
  BY DEF server
<1>7. From(shown)' = From(shown) /\ From(down)' = From(down)
  BY <1>6 DEF From
<1> QED BY <1>5, <1>6, <1>7, Zenon DEF DueInv

LEMMA DueByServe ==
    ASSUME PubTypes, DataInv, KillInv, DueInv, ServeDatagram
    PROVE  DueInv'
<1>1. /\ UNCHANGED <<posted, shown, reading, publishers>>
      /\ Dropped(Head(udpq)) \/ Served(Head(udpq)) \/ Died(Head(udpq))
  BY ServeStep
<1>2. PICK i \in 1 .. Len(posted) : i = Head(udpq)
  BY DataByServe
<1>3. /\ From(shown) \in Seq(1 .. Len(posted)) /\ From(down) \in Seq(1 .. Len(posted))
      /\ \A b \in BuiltOf(posted) : b.from \in 1 .. Len(posted)
      /\ arrived \in Seq(1 .. Len(posted)) /\ down \in Seq(BuiltOf(posted))
  BY FromTyped DEF DataInv
<1>4. BalanceKept(posted, From(shown), From(down), arrived, i)
  BY <1>3, BalanceProps
<1>5. Balance(posted, From(shown), From(down), arrived)
  BY DEF DueInv
<1>6. posted' = posted /\ shown' = shown
  BY <1>1
<1>7. CASE Dropped(i) \/ Died(i)
  <2>1. down' = down /\ arrived' = arrived
    BY <1>7 DEF Dropped, Died
  <2> QED BY <1>5, <1>6, <2>1 DEF DueInv, From
<1>8. CASE Served(i)
  <2>1. arrived' = Append(arrived, i)
    BY <1>8 DEF Served
  <2>2. CASE down' = Append(down, PacketOf(posted, i))
    <3>1. PacketOf(posted, i) \in BuiltOf(posted) /\ PacketOf(posted, i).from = i
      BY DEF BuiltOf, PacketOf
    <3>2. From(down') = Append(From(down), i)
      <4>1. From(Append(down, PacketOf(posted, i))) = Append(From(down), PacketOf(posted, i).from)
        BY <1>3, <3>1, FromProps
      <4> QED BY <2>2, <3>1, <4>1, Zenon
    <3>3. Balance(posted, From(shown), Append(From(down), i), Append(arrived, i))
      BY <1>4, <1>5, Zenon DEF BalanceKept
    <3>4. Balance(posted', From(shown'), From(down'), arrived')
      BY <1>6, <2>1, <3>2, <3>3
    <3> QED BY <3>4 DEF DueInv, From
  <2>3. CASE down' = down /\ Meaning(posted[i]) = << >>
    <3>1. DueOf(posted)[i] = << >>
      BY <2>3 DEF DueOf
    <3>2. Balance(posted, From(shown), From(down), Append(arrived, i))
      BY <1>4, <1>5, <3>1, Zenon DEF BalanceKept
    <3>3. Balance(posted', From(shown'), From(down'), arrived')
      BY <1>6, <2>1, <2>3, <3>2
    <3> QED BY <3>3 DEF DueInv, From
  <2> QED BY <1>8, <2>2, <2>3 DEF Served
<1> QED BY <1>1, <1>2, <1>7, <1>8

LEMMA DueByDisplay ==
    ASSUME PubTypes, DataInv, DueInv, Display
    PROVE  DueInv'
<1> DEFINE b == Head(down)
<1>1. /\ UNCHANGED <<posted, udpq, up, arrived, reading, publishers>>
      /\ down # << >> /\ b \in BuiltOf(posted) /\ down' = Tail(down)
      /\ \/ PrintPacket(b.bytes) = << >> /\ shown' = shown
         \/ shown' = Append(shown, LineOf(b))
  BY DisplayStep
<1>2. /\ From(shown) \in Seq(1 .. Len(posted)) /\ arrived \in Seq(1 .. Len(posted))
      /\ \A x \in BuiltOf(posted) : x.from \in 1 .. Len(posted)
      /\ \A l \in LinesOf(posted) : l.from \in 1 .. Len(posted)
      /\ down \in Seq(BuiltOf(posted)) /\ shown \in Seq(LinesOf(posted)) /\ posted \in Seq(Post)
  BY FromTyped DEF DataInv, PubTypes
<1>3. /\ From(Tail(down)) \in Seq(1 .. Len(posted)) /\ b.from \in 1 .. Len(posted)
      /\ From(down) = <<b.from>> \o From(Tail(down))
  BY <1>1, <1>2, FromHead
<1>4. PICK i \in 1 .. Len(posted) : i = b.from
  BY <1>3
<1>5. BalanceKept(posted, From(shown), From(Tail(down)), arrived, i)
  BY <1>2, <1>3, BalanceProps
<1>6. Balance(posted, From(shown), <<i>> \o From(Tail(down)), arrived)
  BY <1>3, <1>4, Zenon DEF DueInv
<1>7. posted' = posted /\ arrived' = arrived /\ down' = Tail(down)
  BY <1>1
<1>8. CASE PrintPacket(b.bytes) = << >> /\ shown' = shown
  <2>1. b = PacketOf(posted, i)
    BY <1>1, <1>2, <1>4, BuiltProps
  <2>2. b.bytes = BuildPacket(posted[i].port, Received(posted[i].data))
    BY <2>1 DEF PacketOf
  <2>3. posted[i] \in Post
    BY <1>2
  <2>4. Meaning(posted[i]) = << >>
    BY <1>8, <2>2, <2>3, NotPrinted
  <2>5. DueOf(posted)[i] = << >>
    BY <2>4 DEF DueOf
  <2>6. Balance(posted, From(shown), From(Tail(down)), arrived)
    BY <1>5, <1>6, <2>5, Zenon DEF BalanceKept
  <2>7. Balance(posted', From(shown'), From(down'), arrived')
    BY <1>7, <1>8, <2>6
  <2> QED BY <2>7 DEF DueInv, From
<1>9. CASE shown' = Append(shown, LineOf(b))
  <2>1. LineOf(b) \in LinesOf(posted) /\ LineOf(b).from = i
    BY <1>1, <1>4 DEF LinesOf, LineOf
  <2>2. From(shown') = Append(From(shown), i)
    <3>1. From(Append(shown, LineOf(b))) = Append(From(shown), LineOf(b).from)
      BY <1>2, <2>1, FromProps
    <3> QED BY <1>9, <2>1, <3>1, Zenon
  <2>3. Balance(posted, Append(From(shown), i), From(Tail(down)), arrived)
    BY <1>5, <1>6, Zenon DEF BalanceKept
  <2>4. Balance(posted', From(shown'), From(down'), arrived')
    BY <1>7, <2>2, <2>3
  <2> QED BY <2>4 DEF DueInv, From
<1> QED BY <1>1, <1>8, <1>9

-----------------------------------------------------------------------------
(* The theorems *)

Inv == PubTypes /\ ModeInv /\ DataInv /\ KillInv /\ DueInv

LEMMA InvInit == Init => Inv
<1> SUFFICES ASSUME Init PROVE Inv
  OBVIOUS
<1>1. /\ \A p \in Pubs : argv[p] \in CommandLines[p]
      /\ stage = [p \in Pubs |-> "parse"] /\ port = [p \in Pubs |-> 0]
      /\ sent = [p \in Pubs |-> << >>] /\ posted = << >> /\ udpq = << >>
      /\ up = TRUE /\ arrived = << >> /\ down = << >> /\ reading = TRUE /\ shown = << >>
  BY DEF Init, PublisherInit
<1>2. PubTypes
  <2>1. 0 \in Nat /\ 0 <= 65535
    OBVIOUS
  <2>2. 0 \in Port
    BY <2>1, PortRange
  <2> QED BY <1>1, <2>2 DEF PubTypes, Stages
<1>3. ModeInv
  <2> SUFFICES ASSUME NEW p \in Pubs PROVE Kept(argv[p], stage[p], sent[p])
    BY DEF ModeInv
  <2>1. stage[p] = "parse" /\ sent[p] = << >>
    BY <1>1
  <2>2. Len(<< >>) = 0 /\ << >> = [i \in 1 .. 0 |-> i] /\ ~(0 > 0)
    OBVIOUS
  <2>3. 0 <= Len(argv[p].input_file)
    BY <1>2, FileTyped DEF Size
  <2> DEFINE a == argv[p]
  <2> HIDE DEF a
  <2>4. Kept(a, "parse", << >>) <=> (a.mode = "all_once" => 0 <= Len(a.input_file))
    BY <2>2 DEF Kept
  <2> QED BY <2>1, <2>3, <2>4 DEF a
<1>4. DataInv
  BY <1>1 DEF DataInv, Ordered
<1>5. KillInv
  BY <1>1 DEF KillInv
<1>6. DueInv
  <2>1. From(<< >>) = << >>
    BY DEF From
  <2>2. \A g : Gathered(g, << >>) = << >>
    <3> TAKE g
    <3>1. [n \in DOMAIN << >> |-> g[<< >>[n]]] = << >> /\ FlattenSeq(<< >>) = << >>
      BY DEF FlattenSeq
    <3> QED BY <3>1 DEF Gathered
  <2>3. << >> \o << >> = << >>
    OBVIOUS
  <2> QED BY <1>1, <2>1, <2>2, <2>3 DEF DueInv, Balance
<1> QED BY <1>2, <1>3, <1>4, <1>5, <1>6 DEF Inv

LEMMA InvStep == Inv /\ [Next]_vars => Inv'
<1> SUFFICES ASSUME Inv, [Next]_vars PROVE Inv'
  OBVIOUS
<1>0. PubTypes /\ ModeInv /\ DataInv /\ KillInv /\ DueInv
  BY DEF Inv
<1>1. ASSUME NEW p \in Pubs, Publish(p), UNCHANGED <<server, reading, shown>> PROVE Inv'
  <2>1. ModeInv' /\ PubTypes'
    BY <1>0, <1>1, ModeStep, TypesByPublish
  <2>2. CASE posted' = posted /\ udpq' = udpq
    <3>1. UNCHANGED <<posted, udpq, up, arrived, down, reading, shown>>
      BY <1>1, <2>2 DEF server
    <3>2. DataInv' /\ KillInv' /\ DueInv'
      BY <1>0, <3>1 DEF DataInv, KillInv, Gone, DueInv, From
    <3> QED BY <2>1, <3>2 DEF Inv
  <2>3. ASSUME NEW x \in Post, posted' = Append(posted, x),
               udpq' \in {udpq, Append(udpq, Len(posted) + 1)}
        PROVE  Inv'
    <3>1. DataInv' /\ KillInv' /\ DueInv'
      BY <1>0, <1>1, <2>3, DataByPost, DueByPost
    <3> QED BY <2>1, <3>1 DEF Inv
  <2> QED BY <1>0, <1>1, <2>2, <2>3, TypesByPublish
<1>2. CASE ServeDatagram
  <2>1. PubTypes' /\ DataInv' /\ KillInv' /\ DueInv'
    BY <1>0, <1>2, DataByServe, DueByServe
  <2>2. ModeInv'
    BY <1>0, <1>2, ServeStep DEF ModeInv, publishers
  <2> QED BY <2>1, <2>2 DEF Inv
<1>3. CASE Display
  <2>1. PubTypes' /\ DataInv' /\ KillInv' /\ DueInv'
    BY <1>0, <1>3, DataByDisplay, DueByDisplay
  <2>2. ModeInv'
    BY <1>0, <1>3, DisplayStep DEF ModeInv, publishers
  <2> QED BY <2>1, <2>2 DEF Inv
<1>4. CASE UNCHANGED vars
  <2>1. UNCHANGED <<argv, stage, port, sent, posted, udpq, up, arrived, down, reading, shown>>
    BY <1>4 DEF vars, publishers, server
  <2> QED BY <1>0, <2>1 DEF Inv, PubTypes, ModeInv, DataInv, KillInv, Gone, DueInv, From
<1> QED BY <1>1, <1>2, <1>3, <1>4 DEF Next

LEMMA Invariance == Spec => []Inv
  BY InvInit, InvStep, PTL DEF Spec

(* The state keeps its type, and the socket and the server's records the   *)
(* order of posting (recvfrom at server.c 217).                            *)
THEOREM TypeCorrect == Spec => []TypeOK
<1>1. Inv => TypeOK
  <2> SUFFICES ASSUME Inv PROVE TypeOK
    OBVIOUS
  <2>1. /\ arrived \in Seq(1 .. Len(posted)) /\ udpq \in Seq(1 .. Len(posted))
        /\ Ordered(arrived, udpq) /\ up \in BOOLEAN /\ reading = TRUE
        /\ stage \in [Pubs -> Stages]
    BY DEF Inv, DataInv, PubTypes
  <2>2. ASSUME NEW s \in Seq(1 .. Len(posted)), \A i, j \in 1 .. Len(s) : i < j => s[i] < s[j]
        PROVE  /\ ToSet(s) \subseteq 1 .. Len(posted)
               /\ \A n \in 1 .. Len(s) - 1 : s[n] < s[n + 1]
    <3>1. Len(s) \in Nat /\ DOMAIN s = 1 .. Len(s) /\ \A n \in 1 .. Len(s) : s[n] \in 1 .. Len(posted)
      OBVIOUS
    <3>2. ToSet(s) \subseteq 1 .. Len(posted)
      BY <3>1 DEF ToSet
    <3>3. \A n \in 1 .. Len(s) - 1 : n \in 1 .. Len(s) /\ n + 1 \in 1 .. Len(s) /\ n < n + 1
      BY <3>1
    <3> QED BY <2>2, <3>2, <3>3
  <2>3. \A s \in {udpq, arrived} :
           /\ ToSet(s) \subseteq 1 .. Len(posted)
           /\ \A n \in 1 .. Len(s) - 1 : s[n] < s[n + 1]
    BY <2>1, <2>2 DEF Ordered
  <2> QED BY <2>1, <2>3 DEF TypeOK, Stages
<1> QED BY <1>1, Invariance, PTL

(* udp_client.py: each mode sends what it says, of the file, in order.     *)
THEOREM ModesKept == Spec => []KeepsMode
<1>1. Inv => KeepsMode
  BY ModeImplies DEF Inv
<1> QED BY <1>1, Invariance, PTL

(* server.c 217-237, subscriber.c 162: nothing that is posted ends the     *)
(* subscriber, and only a datagram without room for its header the server. *)
THEOREM OnlyLongKill == Spec => []OnlyLongOnesKill
<1>1. Inv => OnlyLongOnesKill
  <2> SUFFICES ASSUME Inv PROVE OnlyLongOnesKill
    OBVIOUS
  <2>1. /\ reading = TRUE /\ KillInv
        /\ arrived \in Seq(1 .. Len(posted)) /\ udpq \in Seq(1 .. Len(posted))
    BY DEF Inv, DataInv
  <2>2. ASSUME NEW i \in 1 .. Len(posted), Gone(i) PROVE i \notin ToSet(arrived \o udpq)
    <3> DEFINE s == arrived  t == udpq  u == s \o t
    <3>1. /\ Len(s) \in Nat /\ Len(t) \in Nat /\ Len(u) = Len(s) + Len(t) /\ DOMAIN u = 1 .. Len(u)
          /\ \A j \in 1 .. Len(s) + Len(t) : u[j] = IF j <= Len(s) THEN s[j] ELSE t[j - Len(s)]
      BY <2>1, ConcatProperties, LenProperties
    <3>2. (\A j \in 1 .. Len(s) : s[j] # i) /\ (\A j \in 1 .. Len(t) : t[j] # i)
      BY <2>2 DEF Gone
    <3> HIDE DEF s, t, u
    <3>3. \A j \in 1 .. Len(u) : u[j] # i
      <4> TAKE j \in 1 .. Len(u)
      <4>1. CASE j <= Len(s)
        <5>1. j \in 1 .. Len(s) /\ j \in 1 .. Len(s) + Len(t)
          BY <3>1, <4>1
        <5> QED BY <3>1, <3>2, <4>1, <5>1
      <4>2. CASE ~(j <= Len(s))
        <5>1. j - Len(s) \in 1 .. Len(t) /\ j \in 1 .. Len(s) + Len(t)
          BY <3>1, <4>2
        <5> QED BY <3>1, <3>2, <4>2, <5>1
      <4> QED BY <4>1, <4>2
    <3> QED BY <3>1, <3>3 DEF ToSet, s, t, u
  <2> QED BY <2>1, <2>2 DEF OnlyLongOnesKill, KillInv, TooLong
<1> QED BY <1>1, Invariance, PTL

(* server.c 217-237, trie_publish, handle_received_data: between the       *)
(* server's UDP socket and the subscriber's screen nothing is dropped that *)
(* the subscriber asked for, and nothing changes its place.                *)
THEOREM NoneMissed == Spec => []NothingMissed
<1>1. Inv => NothingMissed
  <2> SUFFICES ASSUME Inv PROVE NothingMissed
    OBVIOUS
  <2> DEFINE F == 1 .. Len(posted)  g == DueOf(posted)  a == From(shown)  b == From(down)
  <2>1. a \in Seq(F) /\ b \in Seq(F) /\ arrived \in Seq(F) /\ g \in [F -> Seq(F)]
    BY FromTyped, DueOfTyped DEF Inv, DataInv
  <2>2. a \o b \in Seq(F)
    BY <2>1, ConcatProperties
  <2>3. GathersBoth(g, a, b)
    <3> HIDE DEF F, g, a, b
    <3> QED BY <2>1, GatheredConcat
  <2>4. Gathered(g, a) \o Gathered(g, b) = Gathered(g, arrived)
    BY Zenon DEF Inv, DueInv, Balance
  <2>5. Due(a \o b) = Gathered(g, a \o b) /\ Due(arrived) = Gathered(g, arrived)
    BY <2>1, <2>2, DueIs
  <2>6. Due(a \o b) = Due(arrived)
    BY <2>3, <2>4, <2>5, Zenon DEF GathersBoth
  <2> QED BY <2>6, Zenon DEF NothingMissed
<1> QED BY <1>1, Invariance, PTL
=============================================================================
