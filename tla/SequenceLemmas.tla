--------------------------- MODULE SequenceLemmas ----------------------------
(***************************************************************************)
(* Facts about sequences that the proofs of several components need.       *)
(* Induction over the natural numbers takes the form of the least          *)
(* counterexample, which MinIn provides.                                   *)
(***************************************************************************)
EXTENDS Integers, Sequences, SequencesExt, SequenceTheorems, WellFoundedInduction, TLAPS

(* RemoveAt takes one element out and closes the gap.                      *)
LEMMA RemoveAtProps ==
    ASSUME NEW S, NEW s \in Seq(S), NEW i \in 1 .. Len(s)
    PROVE  /\ RemoveAt(s, i) \in Seq(S)
           /\ Len(RemoveAt(s, i)) = Len(s) - 1
           /\ \A j \in 1 .. Len(s) - 1 :
                 RemoveAt(s, i)[j] = IF j < i THEN s[j] ELSE s[j + 1]
<1> DEFINE front == SubSeq(s, 1, i - 1)
           back == SubSeq(s, i + 1, Len(s))
<1>1. \A j \in 1 .. Len(s) : s[j] \in S
  OBVIOUS
<1>2. /\ front \in Seq(S) /\ Len(front) = i - 1
      /\ \A j \in 1 .. i - 1 : front[j] = s[j]
  BY <1>1, SubSeqProperties
<1>3. /\ back \in Seq(S) /\ Len(back) = Len(s) - i
      /\ \A j \in 1 .. Len(s) - i : back[j] = s[j + i]
  BY <1>1, SubSeqProperties
<1>4. /\ front \o back \in Seq(S)
      /\ Len(front \o back) = Len(s) - 1
      /\ \A j \in 1 .. Len(s) - 1 :
            (front \o back)[j] = IF j < i THEN front[j] ELSE back[j - (i - 1)]
  <2> HIDE DEF front, back
  <2>1. /\ front \o back \in Seq(S)
        /\ Len(front \o back) = Len(front) + Len(back)
        /\ \A j \in 1 .. Len(front) + Len(back) :
              (front \o back)[j] = IF j <= Len(front) THEN front[j]
                                    ELSE back[j - Len(front)]
    BY <1>2, <1>3, ConcatProperties
  <2>2. Len(front) + Len(back) = Len(s) - 1
    BY <1>2, <1>3, LenProperties
  <2>3. \A j \in 1 .. Len(s) - 1 : j <= Len(front) <=> j < i
    BY <1>2, LenProperties
  <2> QED BY <1>2, <2>1, <2>2, <2>3
<1>5. ASSUME NEW j \in 1 .. Len(s) - 1
      PROVE  (front \o back)[j] = IF j < i THEN s[j] ELSE s[j + 1]
  <2> HIDE DEF front, back
  <2>1. CASE j < i
    BY <1>2, <1>4, <2>1
  <2>2. CASE ~(j < i)
    <3>1. j - (i - 1) \in 1 .. Len(s) - i /\ (j - (i - 1)) + i = j + 1
      BY <2>2, LenProperties
    <3> QED BY <1>3, <1>4, <2>2, <3>1
  <2> QED BY <2>1, <2>2
<1> QED BY <1>4, <1>5 DEF RemoveAt

(* Putting an element in front moves the others up by one.                 *)
LEMMA ConsProps ==
    ASSUME NEW S, NEW s \in Seq(S), NEW c \in S
    PROVE  /\ <<c>> \o s \in Seq(S)
           /\ Len(<<c>> \o s) = Len(s) + 1
           /\ (<<c>> \o s)[1] = c
           /\ \A j \in 1 .. Len(s) : (<<c>> \o s)[j + 1] = s[j]
  OBVIOUS

(* A set of naturals has a least element.                                  *)
LEMMA LeastNat ==
    ASSUME NEW S \in SUBSET Nat, S # {}
    PROVE  \E x \in S : \A y \in S : x <= y
<1> DEFINE R == {ss \in Nat \X Nat : ss[1] < ss[2]}
<1>1. IsWellFoundedOn(R, Nat)
  BY NatLessThanWellFounded DEF OpToRel
<1>2. \E x \in S : \A y \in S : ~(<<y, x>> \in R)
  <2> HIDE DEF R
  <2> QED BY <1>1, WFMin
<1>3. PICK x \in S : \A y \in S : ~(<<y, x>> \in R)
  BY <1>2
<1>4. ASSUME NEW y \in S PROVE x <= y
  <2>1. x \in Nat /\ y \in Nat
    OBVIOUS
  <2>2. <<y, x>> \in Nat \X Nat /\ <<y, x>>[1] = y /\ <<y, x>>[2] = x
    BY <2>1
  <2>3. ~(y < x)
    BY <1>3, <2>2
  <2> QED BY <2>1, <2>3
<1> QED BY <1>3, <1>4

(* Min takes it.                                                           *)
LEMMA MinIn == ASSUME NEW S \in SUBSET Nat, S # {} PROVE Min(S) \in S
  BY LeastNat DEF Min

(* Induction up to N, for the set of the numbers that have a property.     *)
LEMMA UpTo ==
    ASSUME NEW N \in Nat, NEW A, 0 \in A, \A n \in 0 .. N - 1 : n \in A => n + 1 \in A
    PROVE  \A n \in 0 .. N : n \in A
<1> DEFINE missing == (0 .. N) \ A
<1> SUFFICES ASSUME missing # {} PROVE FALSE
  OBVIOUS
<1>1. PICK n \in missing : \A m \in missing : n <= m
  <2>1. missing \in SUBSET Nat
    OBVIOUS
  <2> HIDE DEF missing
  <2> QED BY <2>1, LeastNat
<1>2. n \in 0 .. N /\ n \notin A /\ n # 0
  BY <1>1
<1>3. n - 1 \in 0 .. N - 1 /\ (n - 1) + 1 = n
  BY <1>2
<1>4. n - 1 \in missing
  BY <1>2, <1>3
<1> QED BY <1>1, <1>2, <1>4

-----------------------------------------------------------------------------
(* Prefixes and pieces of sequences *)

(* IsPrefix, element by element.                                           *)
LEMMA PrefixByElement ==
    ASSUME NEW S, NEW a \in Seq(S), NEW b \in Seq(S)
    PROVE  IsPrefix(a, b) <=> /\ Len(a) <= Len(b)
                              /\ \A i \in 1 .. Len(a) : a[i] = b[i]
<1>0. Len(a) \in Nat /\ Len(b) \in Nat
  OBVIOUS
<1> SUFFICES ASSUME Len(a) <= Len(b)
             PROVE  SubSeq(a, 1, Len(a)) = SubSeq(b, 1, Len(a))
                       <=> \A i \in 1 .. Len(a) : a[i] = b[i]
  BY DEF IsPrefix
<1>1. SubSeq(a, 1, Len(a)) = a
  BY SubSeqFull
<1>2. \A i \in 1 .. Len(a) : b[i] \in S
  BY <1>0
<1>3. /\ SubSeq(b, 1, Len(a)) \in Seq(S) /\ Len(SubSeq(b, 1, Len(a))) = Len(a)
      /\ \A i \in 1 .. Len(a) : SubSeq(b, 1, Len(a))[i] = b[i]
  <2>1. /\ SubSeq(b, 1, Len(a)) \in Seq(S)
        /\ Len(SubSeq(b, 1, Len(a))) = IF 1 <= Len(a) THEN Len(a) - 1 + 1 ELSE 0
        /\ \A i \in 1 .. Len(a) - 1 + 1 : SubSeq(b, 1, Len(a))[i] = b[1 + i - 1]
    BY <1>0, <1>2, SubSeqProperties
  <2> QED BY <1>0, <2>1
<1>4. (\A i \in 1 .. Len(a) : a[i] = b[i]) => a = SubSeq(b, 1, Len(a))
  BY <1>3, SeqEqual
<1> QED BY <1>1, <1>3, <1>4

(* A prefix stays one when the longer sequence grows.                      *)
LEMMA PrefixGrows ==
    ASSUME NEW S, NEW a \in Seq(S), NEW b \in Seq(S), NEW m \in S, IsPrefix(a, b)
    PROVE  IsPrefix(a, Append(b, m))
<1>1. /\ Append(b, m) \in Seq(S) /\ Len(Append(b, m)) = Len(b) + 1
      /\ \A i \in 1 .. Len(b) : Append(b, m)[i] = b[i]
  BY AppendProperties
<1>2. Len(a) <= Len(b) /\ \A i \in 1 .. Len(a) : a[i] = b[i]
  BY PrefixByElement
<1>3. Len(a) <= Len(Append(b, m)) /\ \A i \in 1 .. Len(a) : a[i] = Append(b, m)[i]
  BY <1>1, <1>2, LenProperties
<1> QED BY <1>1, <1>3, PrefixByElement

(* What is behind a sequence leaves it a prefix.                           *)
LEMMA PrefixOfConcat ==
    ASSUME NEW S, NEW a \in Seq(S), NEW b \in Seq(S)
    PROVE  IsPrefix(a, a \o b)
<1>1. /\ a \o b \in Seq(S) /\ Len(a \o b) = Len(a) + Len(b)
      /\ \A i \in 1 .. Len(a) + Len(b) : (a \o b)[i] =
            IF i <= Len(a) THEN a[i] ELSE b[i - Len(a)]
  BY ConcatProperties
<1>2. Len(a) <= Len(a \o b) /\ \A i \in 1 .. Len(a) : a[i] = (a \o b)[i]
  BY <1>1, LenProperties
<1> QED BY <1>1, <1>2, PrefixByElement

(* Moving the first element of one sequence to the end of the one before.  *)
LEMMA MoveHead ==
    ASSUME NEW S, NEW a \in Seq(S), NEW b \in Seq(S), NEW c \in Seq(S), b # << >>
    PROVE  (a \o b) \o c = (Append(a, Head(b)) \o Tail(b)) \o c
<1>1. Head(b) \in S /\ Tail(b) \in Seq(S)
  BY HeadTailProperties
<1>2. Append(a, Head(b)) = a \o <<Head(b)>> /\ <<Head(b)>> \in Seq(S)
  BY <1>1, AppendIsConcat
<1>3. b = <<Head(b)>> \o Tail(b)
  OBVIOUS
<1>4. (a \o <<Head(b)>>) \o Tail(b) = a \o (<<Head(b)>> \o Tail(b))
  BY <1>1, <1>2, ConcatAssociative
<1> QED BY <1>2, <1>3, <1>4

(* The end of a sequence grows with it.                                    *)
RestAppends(s, n, m) == SubSeq(Append(s, m), n + 1, Len(Append(s, m)))
                           = Append(SubSeq(s, n + 1, Len(s)), m)

LEMMA RestGrows ==
    \A S : \A s \in Seq(S), n \in Nat, m \in S :
        n <= Len(s) => SubSeq(s, n + 1, Len(s)) \in Seq(S) /\ RestAppends(s, n, m)
<1> SUFFICES ASSUME NEW S, NEW s \in Seq(S), NEW n \in Nat, NEW m \in S, n <= Len(s)
             PROVE  SubSeq(s, n + 1, Len(s)) \in Seq(S) /\ RestAppends(s, n, m)
  OBVIOUS
<1>0. Len(s) \in Nat /\ \A i \in 1 .. Len(s) : s[i] \in S
  OBVIOUS
<1>1. /\ Append(s, m) \in Seq(S) /\ Len(Append(s, m)) = Len(s) + 1
      /\ \A i \in 1 .. Len(s) : Append(s, m)[i] = s[i]
      /\ Append(s, m)[Len(s) + 1] = m
  BY AppendProperties
<1> DEFINE r == SubSeq(s, n + 1, Len(s))
           t == SubSeq(Append(s, m), n + 1, Len(s) + 1)
<1>2. /\ r \in Seq(S) /\ Len(r) = Len(s) - n
      /\ \A i \in 1 .. Len(s) - n : r[i] = s[n + i]
  <2>1. /\ r \in Seq(S) /\ Len(r) = IF n + 1 <= Len(s) THEN Len(s) - (n + 1) + 1 ELSE 0
        /\ \A i \in 1 .. Len(s) - (n + 1) + 1 : r[i] = s[(n + 1) + i - 1]
    BY <1>0, SubSeqProperties
  <2> HIDE DEF r
  <2> QED BY <1>0, <2>1
<1>3. /\ t \in Seq(S) /\ Len(t) = Len(s) + 1 - n
      /\ \A i \in 1 .. Len(s) + 1 - n : t[i] = Append(s, m)[n + i]
  <2>1. \A i \in n + 1 .. Len(s) + 1 : Append(s, m)[i] \in S
    BY <1>0, <1>1
  <2>2. /\ t \in Seq(S)
        /\ Len(t) = IF n + 1 <= Len(s) + 1 THEN Len(s) + 1 - (n + 1) + 1 ELSE 0
        /\ \A i \in 1 .. Len(s) + 1 - (n + 1) + 1 : t[i] = Append(s, m)[(n + 1) + i - 1]
    BY <1>0, <2>1, SubSeqProperties
  <2> HIDE DEF t
  <2> QED BY <1>0, <2>2
<1> HIDE DEF r, t
<1>4. /\ Append(r, m) \in Seq(S) /\ Len(Append(r, m)) = Len(r) + 1
      /\ \A i \in 1 .. Len(r) : Append(r, m)[i] = r[i]
      /\ Append(r, m)[Len(r) + 1] = m
  BY <1>2, AppendProperties
<1>5. Len(t) = Len(Append(r, m))
  BY <1>0, <1>2, <1>3, <1>4
<1>6. ASSUME NEW i \in 1 .. Len(t) PROVE t[i] = Append(r, m)[i]
  <2>1. CASE i \in 1 .. Len(s) - n
    <3>1. n + i \in 1 .. Len(s)
      BY <1>0, <2>1
    <3> QED BY <1>1, <1>2, <1>3, <1>4, <2>1, <3>1
  <2>2. CASE i = Len(s) - n + 1
    <3>1. n + i = Len(s) + 1 /\ i = Len(r) + 1
      BY <1>0, <1>2, <2>2
    <3> QED BY <1>0, <1>1, <1>3, <1>4, <3>1
  <2>3. i \in 1 .. Len(s) - n \/ i = Len(s) - n + 1
    <3>1. i \in Nat /\ 1 <= i /\ i <= Len(s) + 1 - n
      BY <1>3
    <3> QED BY <1>0, <3>1
  <2> QED BY <2>1, <2>2, <2>3
<1>7. t = Append(r, m)
  BY <1>3, <1>4, <1>5, <1>6, SeqEqual
<1> QED BY <1>1, <1>2, <1>7 DEF r, t, RestAppends

(* Sequences put together in any order, for all sequences at once.         *)
Regroups(a, b, c) == (a \o b) \o c = a \o (b \o c)

LEMMA Regroup ==
    \A S : \A a, b, c \in Seq(S) : Regroups(a, b, c)
  BY ConcatAssociative DEF Regroups

(* Taking the first elements of a sequence to the one before.              *)
LEMMA SplitAt ==
    ASSUME NEW S, NEW a \in Seq(S), NEW b \in Seq(S), NEW n \in 1 .. Len(b)
    PROVE  /\ SubSeq(b, 1, n) \in Seq(S) /\ SubSeq(b, n + 1, Len(b)) \in Seq(S)
           /\ (a \o << >>) \o b = (a \o SubSeq(b, 1, n)) \o SubSeq(b, n + 1, Len(b))
<1>1. Len(b) \in Nat /\ n \in Nat /\ \A i \in 1 .. Len(b) : b[i] \in S
  OBVIOUS
<1>2. SubSeq(b, 1, n) \in Seq(S) /\ SubSeq(b, n + 1, Len(b)) \in Seq(S)
  BY <1>1, SubSeqProperties
<1>3. SubSeq(b, 1, n) \o SubSeq(b, n + 1, Len(b)) = SubSeq(b, 1, Len(b))
  <2>1. 1 \in 1 .. Len(b) + 1 /\ n \in 1 - 1 .. Len(b) /\ Len(b) \in n .. Len(b)
    BY <1>1
  <2> QED BY <1>1, <2>1, ConcatAdjacentSubSeq, Zenon
<1>4. SubSeq(b, 1, Len(b)) = b /\ a \o << >> = a
  BY SubSeqFull, ConcatEmptySeq
<1>5. ASSUME NEW x \in Seq(S), NEW y \in Seq(S) PROVE (a \o x) \o y = a \o (x \o y)
  <2>1. Regroups(a, x, y)
    BY Regroup, Zenon
  <2> QED BY <2>1, Zenon DEF Regroups
<1> DEFINE x == SubSeq(b, 1, n)
           y == SubSeq(b, n + 1, Len(b))
<1>6. x \in Seq(S) /\ y \in Seq(S) /\ x \o y = b /\ a \o << >> = a
  BY <1>2, <1>3, <1>4
<1> HIDE DEF x, y
<1>7. (a \o << >>) \o b = (a \o x) \o y
  <2>1. (a \o x) \o y = a \o (x \o y)
    BY <1>5, <1>6
  <2> QED BY <1>6, <2>1
<1> QED BY <1>6, <1>7 DEF x, y

(* Moving the first element keeps the whole, of which a prefix grows.      *)
LEMMA HandOver ==
    ASSUME NEW S, NEW a \in Seq(S), NEW b \in Seq(S), NEW c \in Seq(S), b # << >>
    PROVE  /\ (a \o b) \o c = (Append(a, Head(b)) \o Tail(b)) \o c
           /\ IsPrefix(Append(a, Head(b)), (a \o b) \o c)
           /\ IsPrefix(Append(a, Head(b)), Append(a, Head(b)))
<1>1. PICK x \in Seq(S) : x = Append(a, Head(b))
  BY HeadTailProperties, AppendProperties
<1>2. PICK y \in Seq(S) : y = Tail(b)
  BY HeadTailProperties
<1>3. (a \o b) \o c = (x \o y) \o c
  <2>1. (a \o b) \o c = (Append(a, Head(b)) \o Tail(b)) \o c
    BY MoveHead
  <2> QED BY <1>1, <1>2, <2>1
<1>4. y \o c \in Seq(S) /\ (x \o y) \o c = x \o (y \o c)
  <2>1. y \o c \in Seq(S)
    BY ConcatProperties
  <2>2. (x \o y) \o c = x \o (y \o c)
    <3>1. Regroups(x, y, c)
      BY Regroup, Zenon
    <3> QED BY <3>1, Zenon DEF Regroups
  <2> QED BY <2>1, <2>2
<1>5. IsPrefix(x, x \o (y \o c))
  BY <1>4, PrefixOfConcat
<1>6. IsPrefix(x, x)
  <2>1. Len(x) <= Len(x) /\ \A i \in 1 .. Len(x) : x[i] = x[i]
    BY LenProperties
  <2> QED BY <2>1, PrefixByElement
<1> QED BY <1>1, <1>2, <1>3, <1>4, <1>5, <1>6, Zenon

-----------------------------------------------------------------------------
(* FlattenSeq *)

(* sum[n] are the first n sequences of ss, one after the other.            *)
PartialSums(ss, sum) == /\ sum[0] = << >>
                        /\ \A i \in 1 .. Len(ss) : sum[i] = sum[i - 1] \o ss[i]

(* The function by which FlattenSeq is defined exists.                     *)
LEMMA FlattenIsSum ==
    ASSUME NEW S, NEW ss \in Seq(Seq(S))
    PROVE  \E sum \in [0 .. Len(ss) -> Seq(S)] :
              PartialSums(ss, sum) /\ sum[Len(ss)] = FlattenSeq(ss)
<1> DEFINE N == Len(ss)
           rest(f, i) == IF i = 1 THEN ss[i] ELSE f[i - 1] \o ss[i]
           solves(f, n) == \A i \in 1 .. n : f[i] = rest(f, i)
           A == {n \in 0 .. N : \E f \in [1 .. n -> Seq(S)] : solves(f, n)}
<1>1. N \in Nat /\ \A i \in 1 .. N : ss[i] \in Seq(S)
  OBVIOUS
<1>2. 0 \in A
  <2> DEFINE f == [i \in 1 .. 0 |-> << >>]
  <2>1. f \in [1 .. 0 -> Seq(S)] /\ solves(f, 0) /\ 0 \in 0 .. N
    BY <1>1
  <2> HIDE DEF f, solves, N
  <2> QED BY <2>1
<1>3. ASSUME NEW n \in 0 .. N - 1, n \in A PROVE n + 1 \in A
  <2>1. PICK f \in [1 .. n -> Seq(S)] : solves(f, n)
    BY <1>3
  <2> DEFINE g == [i \in 1 .. n + 1 |-> IF i = n + 1 THEN rest(f, i) ELSE f[i]]
  <2>2. rest(f, n + 1) \in Seq(S)
    <3>1. ss[n + 1] \in Seq(S)
      BY <1>1
    <3>2. CASE n = 0
      BY <3>1, <3>2
    <3>3. CASE n # 0
      <4>1. f[n] \in Seq(S) /\ (n + 1) - 1 = n
        BY <3>3
      <4>2. f[n] \o ss[n + 1] \in Seq(S)
        BY <3>1, <4>1, ConcatProperties
      <4> QED BY <3>1, <4>1, <4>2
    <3> QED BY <3>2, <3>3
  <2>3. g \in [1 .. n + 1 -> Seq(S)]
    <3>1. ASSUME NEW i \in 1 .. n + 1, i # n + 1 PROVE f[i] \in Seq(S)
      BY <3>1
    <3> HIDE DEF rest
    <3> QED BY <2>2, <3>1
  <2>4. solves(g, n + 1)
    <3> SUFFICES ASSUME NEW i \in 1 .. n + 1 PROVE g[i] = rest(g, i)
      OBVIOUS
    <3>1. i # 1 => i - 1 \in 1 .. n + 1 /\ i - 1 # n + 1
      OBVIOUS
    <3>2. rest(g, i) = rest(f, i)
      BY <3>1
    <3>3. i # n + 1 => i \in 1 .. n
      OBVIOUS
    <3>4. g[i] = IF i = n + 1 THEN rest(f, i) ELSE f[i]
      OBVIOUS
    <3> HIDE DEF g, rest
    <3> QED BY <2>1, <3>2, <3>3, <3>4
  <2>5. n + 1 \in 0 .. N
    BY <1>1
  <2> HIDE DEF g, solves
  <2> QED BY <2>3, <2>4, <2>5
<1>4. N \in A
  <2>1. \A n \in 0 .. N : n \in A
    <3> HIDE DEF A, N
    <3> QED BY <1>1, <1>2, <1>3, UpTo, Zenon
  <2> HIDE DEF A, N
  <2> QED BY <1>1, <2>1
<1>5. PICK f \in [1 .. N -> Seq(S)] : solves(f, N)
  BY <1>4
<1>6. f = [i \in 1 .. N |-> rest(f, i)]
  BY <1>5
<1> DEFINE flatten == CHOOSE h : h = [i \in 1 .. N |-> rest(h, i)]
<1>7. flatten = [i \in 1 .. N |-> rest(flatten, i)]
  <2> HIDE DEF N, rest
  <2> QED BY <1>6
<1>8. FlattenSeq(ss) = IF N = 0 THEN ss ELSE flatten[N]
  BY DEF FlattenSeq
<1> HIDE DEF flatten
<1>unfolded. \A i \in 1 .. N : flatten[i] = rest(flatten, i)
  <2> HIDE DEF rest, N
  <2> QED BY <1>7, Zenon
<1> DEFINE B == {n \in 0 .. N : \A i \in 1 .. n : flatten[i] \in Seq(S)}
<1>9. 0 \in B
  BY <1>1
<1>10. ASSUME NEW n \in 0 .. N - 1, n \in B PROVE n + 1 \in B
  <2>1. n + 1 \in 1 .. N /\ ss[n + 1] \in Seq(S) /\ (n + 1) - 1 = n
    BY <1>1
  <2>2. flatten[n + 1] = IF n = 0 THEN ss[n + 1] ELSE flatten[n] \o ss[n + 1]
    BY <1>unfolded, <2>1
  <2>3. n # 0 => flatten[n] \in Seq(S)
    BY <1>10
  <2>4. flatten[n + 1] \in Seq(S)
    BY <2>1, <2>2, <2>3, ConcatProperties
  <2> QED BY <1>10, <2>1, <2>4
<1>11. \A n \in 0 .. N : n \in B
  <2> HIDE DEF B, N
  <2> QED BY <1>1, <1>9, <1>10, UpTo
<1>12. \A i \in 1 .. N : flatten[i] \in Seq(S)
  BY <1>1, <1>11
<1> DEFINE sum == [n \in 0 .. N |-> IF n = 0 THEN << >> ELSE flatten[n]]
<1>13. sum \in [0 .. N -> Seq(S)]
  <2>1. << >> \in Seq(S) /\ \A n \in 0 .. N : n # 0 => n \in 1 .. N
    OBVIOUS
  <2> HIDE DEF N
  <2> QED BY <1>12, <2>1
<1>14. PartialSums(ss, sum)
  <2>1. sum[0] = << >>
    BY <1>1
  <2>2. ASSUME NEW i \in 1 .. N PROVE sum[i] = sum[i - 1] \o ss[i]
    <3>1. sum[i] = IF i = 1 THEN ss[i] ELSE flatten[i - 1] \o ss[i]
      BY <1>unfolded
    <3>2. CASE i = 1
      <4>1. sum[i - 1] = << >> /\ ss[i] \in Seq(S)
        BY <1>1, <3>2
      <4> QED BY <3>1, <3>2, <4>1, ConcatEmptySeq
    <3>3. CASE i # 1
      <4>1. sum[i - 1] = flatten[i - 1]
        BY <3>3
      <4> QED BY <3>1, <3>3, <4>1
    <3> QED BY <3>2, <3>3
  <2> QED BY <2>1, <2>2 DEF PartialSums
<1>15. sum[N] = FlattenSeq(ss)
  <2>1. N = 0 => ss = << >>
    BY EmptySeq
  <2>2. sum[N] = IF N = 0 THEN << >> ELSE flatten[N]
    <3>1. N \in 0 .. N
      BY <1>1
    <3> HIDE DEF N
    <3> QED BY <3>1
  <2> QED BY <1>8, <2>1, <2>2
<1> HIDE DEF sum
<1> QED BY <1>13, <1>14, <1>15

(* Flattening sequences of elements of S gives one.                        *)
LEMMA FlattenType == ASSUME NEW S, NEW ss \in Seq(Seq(S)) PROVE FlattenSeq(ss) \in Seq(S)
<1>1. Len(ss) \in 0 .. Len(ss)
  OBVIOUS
<1> QED BY <1>1, FlattenIsSum

(* One more sequence at the end ...                                        *)
LEMMA FlattenAppend ==
    ASSUME NEW S, NEW ss \in Seq(Seq(S)), NEW x \in Seq(S)
    PROVE  FlattenSeq(Append(ss, x)) = FlattenSeq(ss) \o x
<1> DEFINE N == Len(ss)
           tt == Append(ss, x)
<1>1. /\ N \in Nat /\ tt \in Seq(Seq(S)) /\ Len(tt) = N + 1 /\ tt[N + 1] = x
      /\ \A i \in 1 .. N : tt[i] = ss[i]
  <2>1. x \in Seq(S)
    OBVIOUS
  <2> DEFINE T == Seq(S)
  <2> HIDE DEF T
  <2>2. ss \in Seq(T) /\ x \in T
    BY DEF T
  <2> QED BY <2>2, AppendProperties DEF T
<1>2. PICK f \in [0 .. N -> Seq(S)] : PartialSums(ss, f) /\ f[N] = FlattenSeq(ss)
  BY FlattenIsSum
<1>3. PICK g \in [0 .. N + 1 -> Seq(S)] : PartialSums(tt, g) /\ g[N + 1] = FlattenSeq(tt)
  <2> HIDE DEF N, tt
  <2> QED BY <1>1, FlattenIsSum
<1> HIDE DEF N, tt
<1> DEFINE A == {n \in 0 .. N : g[n] = f[n]}
<1>4. 0 \in A
  BY <1>1, <1>2, <1>3 DEF PartialSums
<1>5. ASSUME NEW n \in 0 .. N - 1, n \in A PROVE n + 1 \in A
  <2>1. n + 1 \in 1 .. N /\ n + 1 \in 1 .. N + 1 /\ (n + 1) - 1 = n /\ n + 1 \in 0 .. N
    BY <1>1
  <2>2. g[n + 1] = g[n] \o tt[n + 1] /\ f[n + 1] = f[n] \o ss[n + 1]
    BY <1>1, <1>2, <1>3, <2>1 DEF PartialSums, N
  <2> QED BY <1>1, <1>5, <2>1, <2>2
<1>6. \A n \in 0 .. N : n \in A
  <2> HIDE DEF A
  <2> QED BY <1>1, <1>4, <1>5, UpTo, Zenon
<1>7. g[N] = f[N]
  BY <1>1, <1>6
<1>8. g[N + 1] = g[N] \o x
  <2>1. N + 1 \in 1 .. N + 1 /\ (N + 1) - 1 = N
    BY <1>1
  <2> QED BY <1>1, <1>3, <2>1 DEF PartialSums
<1> QED BY <1>2, <1>3, <1>7, <1>8 DEF tt

(* ... and one more in front.                                              *)
LEMMA FlattenCons ==
    ASSUME NEW S, NEW ss \in Seq(Seq(S)), NEW x \in Seq(S)
    PROVE  FlattenSeq(<<x>> \o ss) = x \o FlattenSeq(ss)
<1> DEFINE N == Len(ss)
           tt == <<x>> \o ss
<1>1. /\ N \in Nat /\ tt \in Seq(Seq(S)) /\ Len(tt) = N + 1 /\ tt[1] = x
      /\ \A i \in 1 .. N : tt[i + 1] = ss[i] /\ ss[i] \in Seq(S)
  <2> DEFINE T == Seq(S)
  <2> HIDE DEF T
  <2>2. ss \in Seq(T) /\ x \in T
    BY DEF T
  <2> QED BY <2>2, ConsProps DEF T
<1>2. PICK f \in [0 .. N -> Seq(S)] : PartialSums(ss, f) /\ f[N] = FlattenSeq(ss)
  BY FlattenIsSum
<1>3. PICK g \in [0 .. N + 1 -> Seq(S)] : PartialSums(tt, g) /\ g[N + 1] = FlattenSeq(tt)
  <2> HIDE DEF N, tt
  <2> QED BY <1>1, FlattenIsSum
<1> DEFINE A == {n \in 0 .. N : g[n + 1] = x \o f[n]}
<1>4. 0 \in A
  <2>1. g[0] = << >> /\ f[0] = << >> /\ 1 \in 1 .. N + 1 /\ 0 \in 0 .. N /\ 1 - 1 = 0
    BY <1>1, <1>2, <1>3 DEF PartialSums
  <2>2. g[1] = << >> \o x
    <3> HIDE DEF tt, N
    <3>1. \A i \in 1 .. N + 1 : g[i] = g[i - 1] \o tt[i]
      BY <1>1, <1>3 DEF PartialSums
    <3>2. g[1] = g[1 - 1] \o tt[1]
      BY <2>1, <3>1, Zenon
    <3> QED BY <1>1, <2>1, <3>2
  <2>3. << >> \o x = x /\ x \o << >> = x
    BY ConcatEmptySeq
  <2> HIDE DEF tt, N
  <2>4. g[0 + 1] = x \o f[0]
    BY <2>1, <2>2, <2>3
  <2> QED BY <2>1, <2>4
<1> HIDE DEF N, tt
<1>5. ASSUME NEW n \in 0 .. N - 1, n \in A PROVE n + 1 \in A
  <2>1. /\ n + 1 \in 1 .. N /\ (n + 1) + 1 \in 1 .. N + 1 /\ (n + 1) - 1 = n /\ n \in 0 .. N
        /\ ((n + 1) + 1) - 1 = n + 1 /\ n + 1 \in 0 .. N
    BY <1>1
  <2>2. f[n + 1] = f[n] \o ss[n + 1]
    BY <1>2, <2>1 DEF PartialSums, N
  <2>3. g[(n + 1) + 1] = g[n + 1] \o ss[n + 1]
    BY <1>1, <1>3, <2>1 DEF PartialSums
  <2>4. (x \o f[n]) \o ss[n + 1] = x \o (f[n] \o ss[n + 1])
    <3>1. f[n] \in Seq(S) /\ ss[n + 1] \in Seq(S)
      BY <1>1, <1>2, <2>1
    <3>2. Regroups(x, f[n], ss[n + 1])
      BY <3>1, Regroup, Zenon
    <3> QED BY <3>2, Zenon DEF Regroups
  <2> QED BY <1>5, <2>1, <2>2, <2>3, <2>4
<1>6. \A n \in 0 .. N : n \in A
  <2> HIDE DEF A
  <2> QED BY <1>1, <1>4, <1>5, UpTo, Zenon
<1>7. g[N + 1] = x \o f[N]
  <2>1. N \in A
    <3>1. N \in 0 .. N
      BY <1>1
    <3> HIDE DEF A
    <3> QED BY <1>6, <3>1
  <2> QED BY <2>1, Zenon
<1> QED BY <1>2, <1>3, <1>7 DEF tt

(* If all but one of the sequences are empty, that one is the result ...    *)
LEMMA FlattenSingle ==
    ASSUME NEW S, NEW ss \in Seq(Seq(S)), NEW k \in 1 .. Len(ss),
           \A i \in 1 .. Len(ss) : i # k => ss[i] = << >>
    PROVE  FlattenSeq(ss) = ss[k]
<1> DEFINE N == Len(ss)
<1>1. N \in Nat /\ k \in 1 .. N /\ \A i \in 1 .. N : ss[i] \in Seq(S)
  OBVIOUS
<1>2. PICK f \in [0 .. N -> Seq(S)] : PartialSums(ss, f) /\ f[N] = FlattenSeq(ss)
  BY FlattenIsSum
<1> DEFINE A == {n \in 0 .. N : f[n] = IF n < k THEN << >> ELSE ss[k]}
<1>3. 0 \in A
  BY <1>1, <1>2 DEF PartialSums
<1>4. ASSUME NEW n \in 0 .. N - 1, n \in A PROVE n + 1 \in A
  <2>1. n + 1 \in 1 .. N /\ (n + 1) - 1 = n /\ n + 1 \in 0 .. N /\ n \in 0 .. N
    BY <1>1
  <2>2. f[n + 1] = f[n] \o ss[n + 1]
    BY <1>2, <2>1 DEF PartialSums
  <2>3. f[n] \in Seq(S) /\ ss[n + 1] \in Seq(S)
    <3> HIDE DEF N, A
    <3> QED BY <1>1, <2>1
  <2>4. CASE n + 1 = k
    <3>1. f[n] = << >>
      BY <1>1, <1>4, <2>4
    <3>2. f[n + 1] = ss[k]
      BY <2>2, <2>3, <2>4, <3>1, ConcatEmptySeq
    <3> QED BY <1>1, <2>1, <2>4, <3>2
  <2>5. CASE n + 1 # k
    <3>1. f[n + 1] = f[n]
      BY <2>1, <2>2, <2>3, <2>5, ConcatEmptySeq
    <3>2. n < k <=> n + 1 < k
      BY <1>1, <2>5
    <3> QED BY <1>4, <2>1, <3>1, <3>2
  <2> QED BY <2>4, <2>5
<1>5. \A n \in 0 .. N : n \in A
  <2> HIDE DEF A, N
  <2> QED BY <1>1, <1>3, <1>4, UpTo, Zenon
<1>6. N \in A /\ ~(N < k)
  BY <1>1, <1>5
<1> QED BY <1>2, <1>6

(* ... and if all are, it is empty.                                        *)
LEMMA FlattenNone ==
    ASSUME NEW S, NEW ss \in Seq(Seq(S)), \A i \in 1 .. Len(ss) : ss[i] = << >>
    PROVE  FlattenSeq(ss) = << >>
<1>1. CASE Len(ss) = 0
  <2>1. ss = << >>
    BY <1>1, EmptySeq
  <2> QED BY <2>1 DEF FlattenSeq
<1>2. CASE Len(ss) # 0
  <2>1. 1 \in 1 .. Len(ss)
    BY <1>2, LenProperties
  <2> QED BY <2>1, FlattenSingle
<1> QED BY <1>1, <1>2

(* What a function makes of each element of a sequence, all put together.  *)
Gathered(g, s) == FlattenSeq([n \in DOMAIN s |-> g[s[n]]])

GathersWell(g, s, m, S) ==
    /\ Gathered(g, << >>) = << >>
    /\ Gathered(g, s) \in Seq(S)
    /\ Gathered(g, Append(s, m)) = Gathered(g, s) \o g[m]
    /\ Gathered(g, <<m>> \o s) = g[m] \o Gathered(g, s)

LEMMA GatheredProps ==
    \A F, S : \A g \in [F -> Seq(S)] : \A s \in Seq(F), m \in F : GathersWell(g, s, m, S)
<1> SUFFICES ASSUME NEW F, NEW S, NEW g \in [F -> Seq(S)], NEW s \in Seq(F), NEW m \in F
             PROVE  GathersWell(g, s, m, S)
  OBVIOUS
<1> DEFINE T == Seq(S)
           image(q) == [n \in DOMAIN q |-> g[q[n]]]
<1>1. ASSUME NEW q \in Seq(F)
      PROVE  /\ image(q) \in Seq(T) /\ Len(image(q)) = Len(q)
             /\ \A i \in 1 .. Len(q) : image(q)[i] = g[q[i]]
  <2>1. Len(q) \in Nat /\ DOMAIN q = 1 .. Len(q) /\ \A i \in 1 .. Len(q) : q[i] \in F
    OBVIOUS
  <2>2. \A i \in 1 .. Len(q) : g[q[i]] \in T
    BY <2>1
  <2> HIDE DEF T
  <2>3. image(q) = [i \in 1 .. Len(q) |-> g[q[i]]]
    BY <2>1
  <2> QED BY <2>1, <2>2, <2>3
<1>2. g[m] \in T /\ Len(s) \in Nat
  OBVIOUS
<1>3. image(Append(s, m)) = Append(image(s), g[m])
  <2> DEFINE a == Append(s, m)
             b == Append(image(s), g[m])
  <2>1. /\ a \in Seq(F) /\ Len(a) = Len(s) + 1 /\ a[Len(s) + 1] = m
        /\ \A i \in 1 .. Len(s) : a[i] = s[i]
    BY AppendProperties
  <2> HIDE DEF a, T, image
  <2>2. /\ b \in Seq(T) /\ Len(b) = Len(s) + 1 /\ b[Len(s) + 1] = g[m]
        /\ \A i \in 1 .. Len(s) : b[i] = g[s[i]]
    BY <1>1, <1>2, AppendProperties
  <2> HIDE DEF b
  <2>3. \A i \in 1 .. Len(s) + 1 : image(a)[i] = b[i]
    <3> TAKE i \in 1 .. Len(s) + 1
    <3>1. i \in 1 .. Len(s) \/ i = Len(s) + 1
      BY <1>2
    <3>2. image(a)[i] = g[a[i]]
      BY <1>1, <2>1
    <3> QED BY <2>1, <2>2, <3>1, <3>2
  <2>4. image(a) \in Seq(T) /\ Len(image(a)) = Len(s) + 1
    BY <1>1, <2>1
  <2>5. image(a) = b
    BY <2>2, <2>3, <2>4, SeqEqual
  <2> QED BY <2>5 DEF a, b
<1>4. image(<<m>> \o s) = <<g[m]>> \o image(s)
  <2> DEFINE a == <<m>> \o s
             b == <<g[m]>> \o image(s)
  <2>1. /\ a \in Seq(F) /\ Len(a) = Len(s) + 1 /\ a[1] = m
        /\ \A i \in 1 .. Len(s) : a[i + 1] = s[i]
    BY ConsProps
  <2> HIDE DEF a, T, image
  <2>2. /\ b \in Seq(T) /\ Len(b) = Len(s) + 1 /\ b[1] = g[m]
        /\ \A i \in 1 .. Len(s) : b[i + 1] = g[s[i]]
    BY <1>1, <1>2, ConsProps
  <2> HIDE DEF b
  <2>3. \A i \in 1 .. Len(s) + 1 : image(a)[i] = b[i]
    <3> TAKE i \in 1 .. Len(s) + 1
    <3>1. i = 1 \/ (i - 1 \in 1 .. Len(s) /\ (i - 1) + 1 = i)
      BY <1>2
    <3>2. image(a)[i] = g[a[i]]
      BY <1>1, <2>1
    <3>3. i # 1 => a[i] = s[i - 1] /\ b[i] = g[s[i - 1]]
      BY <2>1, <2>2, <3>1
    <3> QED BY <2>1, <2>2, <3>2, <3>3
  <2>4. image(a) \in Seq(T) /\ Len(image(a)) = Len(s) + 1
    BY <1>1, <2>1
  <2>5. image(a) = b
    BY <2>2, <2>3, <2>4, SeqEqual
  <2> QED BY <2>5 DEF a, b
<1>5. Gathered(g, << >>) = << >>
  <2>1. image(<< >>) = << >>
    OBVIOUS
  <2>2. FlattenSeq(<< >>) = << >>
    BY DEF FlattenSeq
  <2> QED BY <2>1, <2>2 DEF Gathered
<1>6. Gathered(g, s) \in Seq(S)
  BY <1>1, FlattenType DEF Gathered
<1>7. Gathered(g, Append(s, m)) = Gathered(g, s) \o g[m]
  <2>1. FlattenSeq(Append(image(s), g[m])) = FlattenSeq(image(s)) \o g[m]
    <3>1. image(s) \in Seq(Seq(S)) /\ g[m] \in Seq(S)
      BY <1>1, <1>2
    <3> HIDE DEF image
    <3> QED BY <3>1, FlattenAppend
  <2> QED BY <1>3, <2>1 DEF Gathered
<1>8. Gathered(g, <<m>> \o s) = g[m] \o Gathered(g, s)
  <2>1. FlattenSeq(<<g[m]>> \o image(s)) = g[m] \o FlattenSeq(image(s))
    <3>1. image(s) \in Seq(Seq(S)) /\ g[m] \in Seq(S)
      BY <1>1, <1>2
    <3> HIDE DEF image
    <3> QED BY <3>1, FlattenCons
  <2> QED BY <1>4, <2>1 DEF Gathered
<1> QED BY <1>5, <1>6, <1>7, <1>8 DEF GathersWell

(* A piece of a sequence, position by position.                            *)
LEMMA PieceOf ==
    ASSUME NEW S, NEW s \in Seq(S), NEW m \in Nat, NEW n \in Nat, m <= n, n <= Len(s)
    PROVE  LET p == SubSeq(s, m + 1, n)
           IN  /\ p \in Seq(S) /\ Len(p) = n - m
               /\ \A i \in 1 .. n - m : p[i] = s[m + i]
<1> DEFINE p == SubSeq(s, m + 1, n)
<1>1. Len(s) \in Nat /\ \A i \in 1 .. Len(s) : s[i] \in S
  OBVIOUS
<1>2. /\ p \in Seq(S) /\ Len(p) = IF m + 1 <= n THEN n - (m + 1) + 1 ELSE 0
      /\ \A i \in 1 .. n - (m + 1) + 1 : p[i] = s[(m + 1) + i - 1]
  <2>1. \A i \in m + 1 .. n : s[i] \in S
    BY <1>1
  <2> QED BY <2>1, SubSeqProperties
<1> HIDE DEF p
<1>3. Len(p) = n - m /\ \A i \in 1 .. n - m : p[i] = s[m + i]
  BY <1>2
<1> QED BY <1>2, <1>3 DEF p

(* What is left of what is left.                                           *)
LEMMA RestOfRest ==
    ASSUME NEW S, NEW s \in Seq(S), NEW m \in Nat, NEW n \in Nat, m + n <= Len(s)
    PROVE  LET t == SubSeq(s, m + 1, Len(s))
           IN  Len(t) = Len(s) - m /\ SubSeq(t, n + 1, Len(t)) = SubSeq(s, m + n + 1, Len(s))
<1> DEFINE N == Len(s)
           t == SubSeq(s, m + 1, N)
<1>1. N \in Nat /\ m + n \in Nat /\ m <= N /\ m + n <= N /\ N <= N
  BY LenProperties
<1>2. t \in Seq(S) /\ Len(t) = N - m /\ \A i \in 1 .. N - m : t[i] = s[m + i]
  BY <1>1, PieceOf
<1>3. PICK k \in Nat : k = Len(t)
  BY <1>2, LenProperties
<1> HIDE DEF t
<1> DEFINE u == SubSeq(t, n + 1, k)
           v == SubSeq(s, (m + n) + 1, N)
<1>4. n <= k /\ k = N - m
  BY <1>1, <1>2, <1>3
<1>5. u \in Seq(S) /\ Len(u) = k - n /\ \A i \in 1 .. k - n : u[i] = t[n + i]
  <2>1. t \in Seq(S) /\ n <= k /\ k <= Len(t)
    BY <1>2, <1>3, <1>4
  <2> QED BY <2>1, PieceOf
<1>6. v \in Seq(S) /\ Len(v) = N - (m + n) /\ \A i \in 1 .. N - (m + n) : v[i] = s[(m + n) + i]
  BY <1>1, PieceOf
<1> HIDE DEF u, v, N
<1>7. Len(u) = Len(v)
  BY <1>1, <1>4, <1>5, <1>6
<1>8. ASSUME NEW i \in 1 .. Len(u) PROVE u[i] = v[i]
  <2>1. i \in 1 .. k - n /\ n + i \in 1 .. N - m /\ i \in 1 .. N - (m + n)
    BY <1>1, <1>4, <1>5, <1>8
  <2>2. m + (n + i) = (m + n) + i
    OBVIOUS
  <2> QED BY <1>2, <1>5, <1>6, <2>1, <2>2
<1>9. u = v
  BY <1>5, <1>6, <1>7, <1>8, SeqEqual
<1> QED BY <1>2, <1>3, <1>9 DEF t, u, v, N

(* What is left is a piece and what is left behind it.                     *)
LEMMA RestCut ==
    ASSUME NEW S, NEW s \in Seq(S), NEW m \in Nat, NEW n \in Nat, m <= n, n <= Len(s)
    PROVE  SubSeq(s, m + 1, Len(s)) = SubSeq(s, m + 1, n) \o SubSeq(s, n + 1, Len(s))
<1> DEFINE N == Len(s)
<1>1. /\ N \in Nat /\ \A i \in 1 .. N : s[i] \in S
      /\ m + 1 \in 1 .. N + 1 /\ n \in (m + 1) - 1 .. N /\ N \in n .. N
  BY LenProperties
<1> QED BY <1>1, ConcatAdjacentSubSeq, Zenon

=============================================================================
