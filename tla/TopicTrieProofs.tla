-------------------------- MODULE TopicTrieProofs --------------------------
(***************************************************************************)
(* Proofs about module TopicTrie, for every set of clients, patterns and   *)
(* topics.  The inductive invariant is TypeOK, TreeShape and BackRefs      *)
(* together: pruning decides by the subscriber lists, cleanup by the back  *)
(* references, so neither record is preserved without the other.           *)
(*                                                                         *)
(* The second half proves that the trie implements the table of            *)
(* subscriptions: collect, walking the nodes, finds the clients whose      *)
(* patterns match the topic, where matching is defined without the trie.   *)
(***************************************************************************)
EXTENDS TopicTrie, SequenceLemmas, TLAPS

-----------------------------------------------------------------------------
(* Paths and their ancestors *)

(* A path has the root and itself among its ancestors.                     *)
LEMMA AncestorsSelf ==
    ASSUME NEW n \in Seq(Segments)
    PROVE  n \in Ancestors(n) /\ Root \in Ancestors(n)
<1>1. n = SubSeq(n, 1, Len(n))
  BY SubSeqFull
<1>2. Root = SubSeq(n, 1, 0)
  BY SubSeqEmpty DEF Root
<1>3. Len(n) \in 0 .. Len(n) /\ 0 \in 0 .. Len(n)
  BY LenProperties
<1> QED BY <1>1, <1>2, <1>3 DEF Ancestors

(* The root is its only ancestor.                                          *)
LEMMA RootAlone == Root \in Seq(Segments) /\ Ancestors(Root) = {Root}
<1>1. Root \in Seq(Segments) /\ Len(Root) = 0
  BY EmptySeq DEF Root
<1>2. SubSeq(Root, 1, 0) = Root
  BY <1>1, SubSeqFull
<1>3. 0 .. 0 = {0}
  OBVIOUS
<1> QED BY <1>1, <1>2, <1>3 DEF Ancestors

(* A prefix of a path is a path, and as long as it was asked to be.        *)
LEMMA PrefixType ==
    ASSUME NEW n \in Seq(Segments), NEW k \in 0 .. Len(n)
    PROVE  SubSeq(n, 1, k) \in Seq(Segments) /\ Len(SubSeq(n, 1, k)) = k
<1>1. \A i \in 1 .. k : n[i] \in Segments
  OBVIOUS
<1> QED BY <1>1, SubSeqProperties

(* An ancestor of an ancestor is an ancestor.                              *)
LEMMA AncestorsTrans ==
    ASSUME NEW n \in Seq(Segments), NEW m \in Ancestors(n)
    PROVE  m \in Seq(Segments) /\ Ancestors(m) \subseteq Ancestors(n)
<1>1. PICK k \in 0 .. Len(n) : m = SubSeq(n, 1, k)
  BY DEF Ancestors
<1>2. m \in Seq(Segments) /\ Len(m) = k
  BY <1>1, PrefixType
<1>3. ASSUME NEW j \in 0 .. k PROVE SubSeq(m, 1, j) = SubSeq(n, 1, j)
  <2>1. SubSeq(m, 1, j) \in Seq(Segments) /\ Len(SubSeq(m, 1, j)) = j
    BY <1>2, PrefixType
  <2>2. SubSeq(n, 1, j) \in Seq(Segments) /\ Len(SubSeq(n, 1, j)) = j
    BY PrefixType
  <2>3. \A i \in 1 .. j : SubSeq(m, 1, j)[i] = SubSeq(n, 1, j)[i]
    BY <1>1, <1>2
  <2> QED BY <2>1, <2>2, <2>3, SeqEqual
<1> QED BY <1>2, <1>3 DEF Ancestors

(* The paths are sequences of segments, and with a path its ancestors.     *)
LEMMA PathsClosed ==
    /\ Paths \subseteq Seq(Segments)
    /\ Root \in Paths
    /\ Patterns \subseteq Paths
    /\ \A n \in Paths : Ancestors(n) \subseteq Paths
<1>1. Patterns \subseteq Seq(Segments)
  BY TrieAssumption
<1>2. Root \in Seq(Segments) /\ Ancestors(Root) = {Root}
  BY RootAlone
<1>3. \A p \in Patterns : p \in Ancestors(p)
  BY <1>1, AncestorsSelf
<1>4. \A p \in Patterns : \A n \in Ancestors(p) :
         n \in Seq(Segments) /\ Ancestors(n) \subseteq Ancestors(p)
  BY <1>1, AncestorsTrans
<1> QED BY <1>1, <1>2, <1>3, <1>4 DEF Paths

(* One segment more: the ancestors of the longer prefix are those of the   *)
(* shorter one and itself.                                                 *)
LEMMA NextPrefix ==
    ASSUME NEW p \in Seq(Segments), NEW k \in 0 .. Len(p) - 1
    PROVE  /\ Ancestors(SubSeq(p, 1, k + 1))
                = Ancestors(SubSeq(p, 1, k)) \cup {SubSeq(p, 1, k + 1)}
           /\ SubSeq(p, 1, k + 1) \notin Ancestors(SubSeq(p, 1, k))
<1> DEFINE m == SubSeq(p, 1, k)  b == SubSeq(p, 1, k + 1)
<1>1. k \in 0 .. Len(p) /\ k + 1 \in 0 .. Len(p) /\ k \in Nat
  BY LenProperties
<1>2. m \in Seq(Segments) /\ Len(m) = k /\ b \in Seq(Segments) /\ Len(b) = k + 1
  BY <1>1, PrefixType
<1>3. ASSUME NEW j \in 0 .. k PROVE SubSeq(b, 1, j) = SubSeq(m, 1, j)
  <2>1. SubSeq(b, 1, j) \in Seq(Segments) /\ Len(SubSeq(b, 1, j)) = j
    BY <1>1, <1>2, PrefixType
  <2>2. SubSeq(m, 1, j) \in Seq(Segments) /\ Len(SubSeq(m, 1, j)) = j
    BY <1>2, PrefixType
  <2>3. \A i \in 1 .. j : SubSeq(b, 1, j)[i] = SubSeq(m, 1, j)[i]
    BY <1>1, <1>2
  <2> QED BY <2>1, <2>2, <2>3, SeqEqual
<1>4. b = SubSeq(b, 1, k + 1)
  BY <1>2, SubSeqFull
<1>5. \A j \in 0 .. k : Len(SubSeq(m, 1, j)) = j
  BY <1>2, PrefixType
<1>6. 0 .. (k + 1) = (0 .. k) \cup {k + 1}
  BY <1>1
<1>7. Ancestors(b) = Ancestors(m) \cup {b}
  BY <1>2, <1>3, <1>4, <1>6 DEF Ancestors
<1>8. b \notin Ancestors(m)
  BY <1>1, <1>2, <1>5 DEF Ancestors
<1> QED BY <1>7, <1>8

-----------------------------------------------------------------------------
(* Pruning *)

(* Whatever was taken away, freeing the empty nodes keeps the tree: the    *)
(* root, the parents of what stays and the parents of broken links.        *)
LEMMA PrunedShape ==
    ASSUME NEW D, NEW S, TypeOK, TreeShape
    PROVE  LET left == nodes \ Pruned(D, S)
           IN  /\ Root \in left
               /\ \A n \in left : Ancestors(n) \subseteq left
               /\ \A b \in broken : Ancestors(b) \ left = {b}
<1> DEFINE left == nodes \ Pruned(D, S)
<1>1. Root \in left
  BY DEF TreeShape, Pruned
<1>2. ASSUME NEW n \in left, NEW m \in Ancestors(n) PROVE m \in left
  <2>1. n \in Seq(Segments) /\ m \in nodes
    BY <1>2, PathsClosed DEF TypeOK, TreeShape
  <2>2. SUFFICES ASSUME m \in Pruned(D, S) PROVE FALSE
    BY <2>1
  <2>3. n # Root
    <3>1. Ancestors(Root) = {Root}
      BY RootAlone
    <3> QED BY <1>2, <2>2, <3>1 DEF Pruned
  <2>4. ASSUME NEW r \in Paths, n \in Ancestors(r) PROVE m \in Ancestors(r)
    <3>1. r \in Seq(Segments)
      BY PathsClosed
    <3>2. Ancestors(n) \subseteq Ancestors(r)
      BY <2>4, <3>1, AncestorsTrans
    <3> QED BY <1>2, <3>2
  <2>5. n \in Pruned(D, S)
    BY <2>2, <2>3, <2>4 DEF Pruned, TypeOK
  <2> QED BY <2>5
<1>3. ASSUME NEW b \in broken PROVE Ancestors(b) \ left = {b}
  <2>1. Ancestors(b) \ nodes = {b}
    BY DEF TreeShape
  <2>2. Ancestors(b) \cap Pruned(D, S) = {}
    BY DEF Pruned
  <2> QED BY <2>1, <2>2
<1> QED BY <1>1, <1>2, <1>3

(* A node that is freed has no subscriber left.                            *)
LEMMA PrunedUnused ==
    ASSUME NEW D, NEW S, TypeOK,
           NEW q \in Pruned(D, S), NEW c \in Clients
    PROVE  S[q][c] = 0
<1>1. q \in Seq(Segments) /\ q \in nodes
  BY PathsClosed DEF TypeOK, Pruned
<1>2. q \in Ancestors(q)
  BY <1>1, AncestorsSelf
<1> QED BY <1>1, <1>2 DEF Pruned

-----------------------------------------------------------------------------
(* The inductive invariant *)

Records == TypeOK /\ TreeShape /\ BackRefs

(* A subscription that succeeds adds one entry to each record, at a node   *)
(* whose ancestors are all live.                                           *)
LEMMA SubscribedKeepsRecords ==
    ASSUME Records, NEW c \in Clients, NEW p \in Patterns, Subscribed(c, p),
           UNCHANGED <<scarce, destroyed, crashed>>, last' \in Outcomes
    PROVE  Records'
<1> USE DEF Records
<1>1. p \in Paths /\ p \in Seq(Segments) /\ Ancestors(p) \subseteq Paths
  BY PathsClosed
<1>2. p \in Ancestors(p)
  BY <1>1, AncestorsSelf
<1>3. TypeOK'
  BY <1>1 DEF TypeOK, Subscribed
<1>4. TreeShape'
  <2>1. \A n \in Ancestors(p) : Ancestors(n) \subseteq Ancestors(p)
    BY <1>1, AncestorsTrans
  <2>2. ASSUME NEW b \in broken' PROVE (Ancestors(b) \ nodes = {b})'
    <3>1. b \in broken /\ Ancestors(b) \ nodes = {b}
      BY DEF TreeShape, Subscribed
    <3>2. b \notin Ancestors(p)
      BY <3>1 DEF Subscribed, Walkable
    <3> QED BY <3>1, <3>2 DEF Subscribed
  <2> QED BY <2>1, <2>2 DEF TreeShape, Subscribed
<1>5. BackRefs'
  <2> SUFFICES ASSUME NEW n \in Paths, NEW d \in Clients
               PROVE  /\ subscribers'[n][d] = refs'[d][n]
                      /\ refs'[d][n] > 0 => n \in nodes'
    BY DEF BackRefs
  <2>1. CASE n = p /\ d = c
    BY <2>1, <1>1, <1>2 DEF BackRefs, TypeOK, Subscribed
  <2>2. CASE ~(n = p /\ d = c)
    BY <2>2, <1>1 DEF BackRefs, TypeOK, Subscribed
  <2> QED BY <2>1, <2>2
<1> QED BY <1>3, <1>4, <1>5

(* A subscription that fails halfway leaves nodes whose parents are live,  *)
(* and perhaps one more broken link, below a live node.                    *)
LEMMA RefusedKeepsRecords ==
    ASSUME Records, NEW c \in Clients, NEW p \in Patterns, RefusedHalfway(c, p),
           UNCHANGED <<scarce, destroyed, crashed>>, last' \in Outcomes
    PROVE  Records'
<1> USE DEF Records
<1>1. p \in Paths /\ p \in Seq(Segments) /\ Ancestors(p) \subseteq Paths
  BY PathsClosed
<1>2. PICK k \in 0 .. Len(p) :
          /\ nodes' = nodes \cup Ancestors(SubSeq(p, 1, k))
          /\ \/ k = Len(p) /\ broken' = broken
             \/ /\ k < Len(p)
                /\ SubSeq(p, 1, k + 1) \notin nodes
                /\ \/ broken' = broken
                   \/ broken' = broken \cup {SubSeq(p, 1, k + 1)}
  BY DEF RefusedHalfway
<1> DEFINE m == SubSeq(p, 1, k)
<1>3. m \in Ancestors(p) /\ m \in Seq(Segments) /\ Ancestors(m) \subseteq Ancestors(p)
  <2>1. m \in Ancestors(p)
    BY DEF Ancestors
  <2> QED BY <2>1, <1>1, AncestorsTrans
<1>4. nodes' = nodes \cup Ancestors(m)
  BY <1>2
<1>5. k < Len(p) => SubSeq(p, 1, k + 1) \in Paths
  <2>1. ASSUME k < Len(p) PROVE SubSeq(p, 1, k + 1) \in Ancestors(p)
    BY <2>1, <1>1 DEF Ancestors
  <2> QED BY <2>1, <1>1
<1>6. TypeOK'
  <2>1. nodes' \subseteq Paths
    BY <1>1, <1>3, <1>4 DEF TypeOK
  <2>2. broken' \subseteq Paths
    BY <1>2, <1>5 DEF TypeOK
  <2> QED BY <2>1, <2>2 DEF TypeOK, RefusedHalfway
<1>7. TreeShape'
  <2>1. \A n \in Ancestors(m) : Ancestors(n) \subseteq Ancestors(m)
    BY <1>3, AncestorsTrans
  <2>2. ASSUME NEW b \in broken PROVE Ancestors(b) \ nodes' = {b}
    <3>1. Ancestors(b) \ nodes = {b}
      BY DEF TreeShape
    <3>2. b \notin Ancestors(m)
      BY <1>3 DEF RefusedHalfway, Walkable
    <3> QED BY <3>1, <3>2, <1>4
  <2>3. ASSUME k < Len(p), SubSeq(p, 1, k + 1) \notin nodes
        PROVE  Ancestors(SubSeq(p, 1, k + 1)) \ nodes' = {SubSeq(p, 1, k + 1)}
    <3>1. k \in 0 .. Len(p) - 1
      BY <2>3, <1>1
    <3>2. /\ Ancestors(SubSeq(p, 1, k + 1)) = Ancestors(m) \cup {SubSeq(p, 1, k + 1)}
          /\ SubSeq(p, 1, k + 1) \notin Ancestors(m)
      BY <3>1, <1>1, NextPrefix
    <3> QED BY <3>2, <2>3, <1>4
  <2>4. \A b \in broken' : Ancestors(b) \ nodes' = {b}
    BY <1>2, <2>2, <2>3
  <2>5. Root \in nodes' /\ \A n \in nodes' : Ancestors(n) \subseteq nodes'
    BY <1>4, <2>1 DEF TreeShape
  <2> QED BY <2>4, <2>5 DEF TreeShape
<1>8. BackRefs'
  BY <1>4 DEF BackRefs, RefusedHalfway
<1> QED BY <1>6, <1>7, <1>8

(* An unsubscription takes one entry from each record, and frees no node   *)
(* that still has one.                                                     *)
LEMMA UnsubscribedKeepsRecords ==
    ASSUME Records, NEW c \in Clients, NEW p \in Patterns, Unsubscribed(c, p),
           UNCHANGED <<scarce, destroyed, crashed>>, last' \in Outcomes
    PROVE  Records'
<1> USE DEF Records
<1>1. p \in Paths
  BY PathsClosed
<1>2. TypeOK'
  BY <1>1 DEF TypeOK, Unsubscribed, Pruned
<1>3. TreeShape'
  BY PrunedShape DEF Unsubscribed, TreeShape
<1>4. BackRefs'
  <2> SUFFICES ASSUME NEW n \in Paths, NEW d \in Clients
               PROVE  /\ subscribers'[n][d] = refs'[d][n]
                      /\ refs'[d][n] > 0 => n \in nodes'
    BY DEF BackRefs
  <2>1. subscribers'[n][d] = refs'[d][n]
    <3>1. CASE n = p /\ d = c
      BY <3>1, <1>1 DEF BackRefs, TypeOK, Unsubscribed
    <3>2. CASE ~(n = p /\ d = c)
      BY <3>2, <1>1 DEF BackRefs, TypeOK, Unsubscribed
    <3> QED BY <3>1, <3>2
  <2>2. refs'[d][n] > 0 => n \in nodes
    BY <1>1 DEF BackRefs, TypeOK, Unsubscribed
  <2>3. refs'[d][n] > 0 => n \notin Pruned({p}, subscribers')
    BY <2>1, PrunedUnused
  <2> QED BY <2>1, <2>2, <2>3 DEF Unsubscribed
<1> QED BY <1>2, <1>3, <1>4

(* Cleanup takes every entry of one client out of both records.            *)
LEMMA CleanupKeepsRecords ==
    ASSUME Records, NEW c \in Clients, Cleanup(c)
    PROVE  Records' /\ \A n \in Paths : subscribers'[n][c] = 0 /\ refs'[c][n] = 0
<1> USE DEF Records
<1>1. \A n \in Paths, d \in Clients :
          /\ subscribers'[n][d] = IF d = c THEN 0 ELSE subscribers[n][d]
          /\ refs'[d][n] = IF d = c THEN 0 ELSE refs[d][n]
  BY DEF TypeOK, BackRefs, Cleanup
<1>2. TypeOK'
  <2>1. subscribers' \in [Paths -> [Clients -> Nat]]
    <3>1. \A n \in Paths : [subscribers[n] EXCEPT ![c] =
              IF @ > refs[c][n] THEN @ - refs[c][n] ELSE 0] \in [Clients -> Nat]
      BY DEF TypeOK
    <3> QED BY <3>1 DEF Cleanup
  <2>2. refs' \in [Clients -> [Paths -> Nat]]
    BY DEF TypeOK, Cleanup
  <2> QED BY <2>1, <2>2 DEF TypeOK, Cleanup, Pruned, Outcomes
<1>3. TreeShape'
  BY PrunedShape DEF Cleanup, TreeShape
<1>4. BackRefs'
  <2> SUFFICES ASSUME NEW n \in Paths, NEW d \in Clients
               PROVE  /\ subscribers'[n][d] = refs'[d][n]
                      /\ refs'[d][n] > 0 => n \in nodes'
    BY DEF BackRefs
  <2>1. subscribers'[n][d] = refs'[d][n]
    BY <1>1 DEF BackRefs
  <2>2. refs'[d][n] > 0 => n \in nodes
    BY <1>1 DEF BackRefs
  <2>3. refs'[d][n] > 0 => n \notin Pruned(Held(c), subscribers')
    BY <2>1, PrunedUnused
  <2> QED BY <2>1, <2>2, <2>3 DEF Cleanup
<1> QED BY <1>1, <1>2, <1>3, <1>4

(* The inductive invariant: what the records say, and who is gone.          *)
SafeInv == Records /\ NoDanglingClient

(* A trie of a root alone is safe.                                         *)
LEMMA InitSafe == Init => SafeInv
<1> SUFFICES ASSUME Init PROVE SafeInv
  OBVIOUS
<1>1. TypeOK
  BY PathsClosed DEF Init, TypeOK, Outcomes
<1>2. TreeShape
  BY RootAlone DEF Init, TreeShape
<1>3. BackRefs /\ NoDanglingClient
  BY DEF Init, BackRefs, NoDanglingClient
<1> QED BY <1>1, <1>2, <1>3 DEF SafeInv, Records

(* What subscribe and unsubscribe return is an outcome.                    *)
LEMMA OutcomeType ==
    ASSUME NEW op \in {"subscribe", "unsubscribe"}, NEW c \in Clients,
           NEW p \in Patterns, NEW ok \in BOOLEAN
    PROVE  Outcome(op, c, p, ok) \in Outcomes
<1>1. Outcome(op, c, p, ok) \in [op : {"subscribe", "unsubscribe"}, client : Clients,
                                pattern : Patterns, ok : BOOLEAN]
  BY Zenon DEF Outcome
<1> QED BY <1>1, Zenon DEF Outcomes

(* Every step, one operation at a time.                                    *)
LEMMA NextSafe == SafeInv /\ [Next]_vars => SafeInv'
<1> SUFFICES ASSUME SafeInv, [Next]_vars PROVE SafeInv'
  OBVIOUS
<1> USE DEF SafeInv
<1>1. ASSUME destroyed = {}, NEW c \in Clients, NEW p \in Patterns, Subscribe(c, p)
      PROVE  SafeInv'
  <2>1. UNCHANGED <<scarce, destroyed, crashed>> /\ last' \in Outcomes
    <3>1. \E ok \in BOOLEAN : last' = Outcome("subscribe", c, p, ok)
      BY <1>1 DEF Subscribe
    <3>2. last' \in Outcomes
      BY <3>1, OutcomeType
    <3> QED BY <1>1, <3>2 DEF Subscribe
  <2>2. NoDanglingClient'
    BY <1>1, <2>1 DEF NoDanglingClient
  <2>3. CASE Subscribed(c, p)
    BY <2>1, <2>2, <2>3, SubscribedKeepsRecords
  <2>4. CASE RefusedAtOnce(c, p)
    BY <2>1, <2>2, <2>4 DEF RefusedAtOnce, Records, TypeOK, TreeShape, BackRefs
  <2>5. CASE RefusedHalfway(c, p)
    BY <2>1, <2>2, <2>5, RefusedKeepsRecords
  <2> QED BY <1>1, <2>3, <2>4, <2>5 DEF Subscribe
<1>2. ASSUME destroyed = {}, NEW c \in Clients, NEW p \in Patterns, Unsubscribe(c, p)
      PROVE  SafeInv'
  <2>1. UNCHANGED <<scarce, destroyed, crashed>> /\ last' \in Outcomes
    <3>1. \E ok \in BOOLEAN : last' = Outcome("unsubscribe", c, p, ok)
      BY <1>2 DEF Unsubscribe
    <3>2. last' \in Outcomes
      BY <3>1, OutcomeType
    <3> QED BY <1>2, <3>2 DEF Unsubscribe
  <2>2. NoDanglingClient'
    BY <1>2, <2>1 DEF NoDanglingClient
  <2>3. CASE Unsubscribed(c, p)
    BY <2>1, <2>2, <2>3, UnsubscribedKeepsRecords
  <2>4. CASE NotUnsubscribed(c, p)
    BY <2>1, <2>2, <2>4 DEF NotUnsubscribed, Records, TypeOK, TreeShape, BackRefs
  <2> QED BY <1>2, <2>3, <2>4 DEF Unsubscribe
<1>3. ASSUME NEW t \in Topics, Publish(t) PROVE SafeInv'
  <2>1. last' \in Outcomes
    BY <1>3 DEF Publish, Outcomes
  <2> QED BY <1>3, <2>1
          DEF Publish, Records, TypeOK, TreeShape, BackRefs, NoDanglingClient
<1>4. ASSUME NEW c \in Clients, Cleanup(c) PROVE SafeInv'
  <2>1. Records' /\ \A n \in Paths : subscribers'[n][c] = 0 /\ refs'[c][n] = 0
    BY <1>4, CleanupKeepsRecords
  <2>2. ASSUME NEW d \in destroyed, d # c, NEW n \in Paths
        PROVE  subscribers'[n][d] = 0 /\ refs'[d][n] = 0
    BY <1>4, <2>2 DEF Cleanup, Records, TypeOK, NoDanglingClient
  <2> QED BY <1>4, <2>1, <2>2 DEF Cleanup, NoDanglingClient
<1>5. ASSUME NEW c \in Clients, CleanupCrashes(c) PROVE SafeInv'
  BY <1>5 DEF CleanupCrashes, Records, TypeOK, TreeShape, BackRefs, NoDanglingClient
<1>6. CASE MemoryPressure
  BY <1>6 DEF MemoryPressure, Records, TypeOK, TreeShape, BackRefs, NoDanglingClient
<1>7. CASE UNCHANGED vars
  BY <1>7 DEF vars, Records, TypeOK, TreeShape, BackRefs, NoDanglingClient
<1> QED BY <1>1, <1>2, <1>3, <1>4, <1>5, <1>6, <1>7 DEF Next

(* The trie keeps its shape, its two records of who is subscribed where    *)
(* agree and name live nodes only, and no freed client is left in it,      *)
(* whatever is subscribed, unsubscribed, published and refused, and        *)
(* whenever allocations fail.                                              *)
THEOREM Safety == Spec => []SafeInv
<1> QED BY InitSafe, NextSafe, PTL DEF Spec

(* The counters of entries are never taken below zero, and every path is   *)
(* one that subscribing to a pattern can make.                             *)
THEOREM TypeCorrect == Spec => []TypeOK
<1>1. SafeInv => TypeOK
  BY DEF SafeInv, Records
<1> QED BY <1>1, Safety, PTL

(* Subscriber lists and back references agree and point to live nodes.     *)
THEOREM BackRefsAgree == Spec => []BackRefs
<1>1. SafeInv => BackRefs
  BY DEF SafeInv, Records
<1> QED BY <1>1, Safety, PTL

(* Pruning never takes the root or the parent of a node that stays.        *)
THEOREM StaysATree == Spec => []TreeShape
<1>1. SafeInv => TreeShape
  BY DEF SafeInv, Records
<1> QED BY <1>1, Safety, PTL

(* No entry of a node outlives the client it points to.                    *)
THEOREM NoneDangles == Spec => []NoDanglingClient
<1>1. SafeInv => NoDanglingClient
  BY DEF SafeInv
<1> QED BY <1>1, Safety, PTL

-----------------------------------------------------------------------------
(* Pruning leaves nothing behind, as long as no allocation fails *)

Tidy == NoDeadBranches /\ broken = {} /\ ~scarce

(* Entries are taken from nodes of D only; what D's pruning leaves of a    *)
(* trie without dead branches has none.                                    *)
LEMMA PrunedTidy ==
    ASSUME Records, Tidy, NEW D,
           NEW S, S \in [Paths -> [Clients -> Nat]],
           \A n \in nodes \ D, c \in Clients : S[n][c] = subscribers[n][c]
    PROVE  LET left == nodes \ Pruned(D, S)
           IN  \A q \in left \ {Root} : \E n \in left, c \in Clients :
                   q \in Ancestors(n) /\ S[n][c] > 0
<1> USE DEF Records
<1> DEFINE left == nodes \ Pruned(D, S)
<1> SUFFICES ASSUME NEW q \in left, q # Root
             PROVE  \E n \in left, c \in Clients : q \in Ancestors(n) /\ S[n][c] > 0
  OBVIOUS
<1>1. nodes \subseteq Seq(Segments) /\ nodes \subseteq Paths
  BY PathsClosed DEF TypeOK
<1>2. ASSUME NEW n \in nodes, NEW c \in Clients, S[n][c] # 0
      PROVE  n \in left /\ S[n][c] > 0
  BY <1>1, <1>2, PrunedUnused
<1>3. PICK r \in nodes :
          /\ q \in Ancestors(r)
          /\ \/ \E c \in Clients : S[r][c] # 0
             \/ \A d \in D : r \notin Ancestors(d)
  BY DEF Pruned, Tidy
<1>4. CASE \E c \in Clients : S[r][c] # 0
  BY <1>2, <1>3, <1>4
<1>5. CASE \A d \in D : r \notin Ancestors(d)
  <2>1. r # Root
    BY <1>3, RootAlone
  <2>2. PICK n \in nodes, c \in Clients :
            r \in Ancestors(n) /\ subscribers[n][c] > 0
    BY <2>1 DEF Tidy, NoDeadBranches
  <2>3. n \notin D
    BY <1>5, <2>2
  <2>4. S[n][c] # 0
    BY <2>2, <2>3
  <2>5. q \in Ancestors(n)
    BY <1>1, <1>3, <2>2, AncestorsTrans
  <2> QED BY <1>2, <2>4, <2>5
<1> QED BY <1>3, <1>4, <1>5

(* While no allocation fails, no step leaves a branch without subscribers. *)
LEMMA NextTidy == ~MayFail /\ SafeInv /\ Tidy /\ [Next]_vars => Tidy'
<1> SUFFICES ASSUME ~MayFail, SafeInv, Tidy, [Next]_vars PROVE Tidy'
  OBVIOUS
<1>1. ASSUME NEW c \in Clients, NEW p \in Patterns, Subscribed(c, p), scarce' = scarce
      PROVE  Tidy'
  <2>1. p \in Paths /\ p \in Seq(Segments) /\ p \in Ancestors(p)
    BY PathsClosed, AncestorsSelf
  <2>2. subscribers'[p][c] > 0
    BY <1>1, <2>1 DEF Subscribed, SafeInv, Records, TypeOK
  <2>3. \A n \in nodes, d \in Clients : subscribers[n][d] > 0 => subscribers'[n][d] > 0
    BY <1>1, <2>1 DEF Subscribed, SafeInv, Records, TypeOK
  <2>4. ASSUME NEW q \in nodes' \ {Root}
        PROVE  \E n \in nodes', d \in Clients :
                   q \in Ancestors(n) /\ subscribers'[n][d] > 0
    <3>1. CASE q \in nodes
      BY <1>1, <2>3, <3>1 DEF Tidy, NoDeadBranches, Subscribed
    <3>2. CASE q \in Ancestors(p)
      BY <1>1, <2>1, <2>2, <3>2 DEF Subscribed
    <3> QED BY <1>1, <3>1, <3>2 DEF Subscribed
  <2> QED BY <1>1, <2>4 DEF Tidy, NoDeadBranches, Subscribed
<1>2. ASSUME NEW c \in Clients, NEW p \in Patterns, Unsubscribed(c, p),
             SafeInv', scarce' = scarce
      PROVE  Tidy'
  <2>1. p \in Paths
    BY PathsClosed
  <2>2. \A n \in nodes \ {p}, d \in Clients : subscribers'[n][d] = subscribers[n][d]
    BY <1>2, <2>1 DEF Unsubscribed, SafeInv, Records, TypeOK
  <2>3. subscribers' \in [Paths -> [Clients -> Nat]]
    BY <1>2 DEF SafeInv, Records, TypeOK
  <2>4. NoDeadBranches'
    <3>1. nodes' = nodes \ Pruned({p}, subscribers')
      BY <1>2 DEF Unsubscribed
    <3>2. \A q \in nodes' \ {Root} : \E n \in nodes', d \in Clients :
              q \in Ancestors(n) /\ subscribers'[n][d] > 0
      BY <2>2, <2>3, <3>1, PrunedTidy DEF SafeInv
    <3> QED BY <3>2 DEF NoDeadBranches
  <2> QED BY <1>2, <2>4 DEF Tidy, Unsubscribed
<1>3. ASSUME NEW c \in Clients, Cleanup(c), SafeInv' PROVE Tidy'
  <2>1. \A n \in nodes \ Held(c), d \in Clients : subscribers'[n][d] = subscribers[n][d]
    BY <1>3 DEF Cleanup, Held, SafeInv, Records, TypeOK, BackRefs
  <2>2. subscribers' \in [Paths -> [Clients -> Nat]]
    BY <1>3 DEF SafeInv, Records, TypeOK
  <2>3. NoDeadBranches'
    <3>1. nodes' = nodes \ Pruned(Held(c), subscribers')
      BY <1>3 DEF Cleanup
    <3>2. \A q \in nodes' \ {Root} : \E n \in nodes', d \in Clients :
              q \in Ancestors(n) /\ subscribers'[n][d] > 0
      BY <2>1, <2>2, <3>1, PrunedTidy DEF SafeInv
    <3> QED BY <3>2 DEF NoDeadBranches
  <2> QED BY <1>3, <2>3 DEF Tidy, Cleanup
<1>4. SafeInv'
  BY NextSafe
<1>5. CASE nodes' = nodes /\ subscribers' = subscribers /\ broken' = broken
           /\ scarce' = scarce
  BY <1>5 DEF Tidy, NoDeadBranches
<1>6. ASSUME NEW c \in Clients, NEW p \in Patterns, Subscribe(c, p) PROVE Tidy'
  <2>1. ~RefusedHalfway(c, p)
    BY DEF RefusedHalfway, Tidy
  <2> QED BY <1>1, <1>5, <1>6, <2>1 DEF Subscribe, RefusedAtOnce
<1>7. ASSUME NEW c \in Clients, NEW p \in Patterns, Unsubscribe(c, p) PROVE Tidy'
  BY <1>2, <1>4, <1>5, <1>7 DEF Unsubscribe, NotUnsubscribed
<1>8. ASSUME NEW t \in Topics, Publish(t) PROVE Tidy'
  BY <1>5, <1>8 DEF Publish
<1>9. ASSUME NEW c \in Clients, CleanupCrashes(c) PROVE Tidy'
  BY <1>5, <1>9 DEF CleanupCrashes
<1>10. CASE UNCHANGED vars
  BY <1>5, <1>10 DEF vars
<1> QED BY <1>3, <1>4, <1>6, <1>7, <1>8, <1>9, <1>10 DEF Next, MemoryPressure

(* While allocations succeed, pruning is complete: every node below the    *)
(* root leads to a subscriber.                                             *)
THEOREM BranchesPruned == ASSUME ~MayFail PROVE Spec => []NoDeadBranches
<1>1. Init => Tidy
  BY DEF Init, Tidy, NoDeadBranches
<1>2. SafeInv /\ Tidy /\ [Next]_vars => Tidy'
  BY NextTidy
<1>3. Tidy => NoDeadBranches
  BY DEF Tidy
<1> QED BY <1>1, <1>2, <1>3, Safety, PTL DEF Spec

-----------------------------------------------------------------------------
(* Ancestors and their next segment *)

(* An ancestor of p is p or ends at one of its segments, and the next one  *)
(* leads to the next ancestor.                                             *)
LEMMA NextAncestor ==
    ASSUME NEW p \in Seq(Segments), NEW n \in Ancestors(p), n # p
    PROVE  /\ n \in Seq(Segments)
           /\ Len(n) \in 0 .. Len(p) - 1
           /\ Append(n, p[Len(n) + 1]) \in Ancestors(p)
           /\ p[Len(n) + 1] \in Segments
<1>1. PICK k \in 0 .. Len(p) : n = SubSeq(p, 1, k)
  BY DEF Ancestors
<1>2. n \in Seq(Segments) /\ Len(n) = k
  BY <1>1, PrefixType
<1>3. k # Len(p)
  BY <1>1, SubSeqFull
<1>4. k \in 0 .. Len(p) - 1 /\ k + 1 \in 0 .. Len(p) /\ k + 1 \in 1 .. Len(p)
  BY <1>3, LenProperties
<1>5. p[k + 1] \in Segments
  BY <1>4
<1> DEFINE m == SubSeq(p, 1, k + 1)  a == Append(n, p[k + 1])
<1>6. m \in Seq(Segments) /\ Len(m) = k + 1 /\ m \in Ancestors(p)
  BY <1>4, PrefixType DEF Ancestors
<1>7. a \in Seq(Segments) /\ Len(a) = k + 1
  BY <1>2, <1>5, AppendProperties
<1>8. ASSUME NEW i \in 1 .. k + 1 PROVE a[i] = m[i]
  <2>1. m[i] = p[i]
    BY <1>4
  <2>2. CASE i = k + 1
    <3>1. a[i] = p[k + 1]
      BY <1>2, <1>5, <2>2, AppendProperties
    <3> QED BY <2>1, <2>2, <3>1
  <2>3. CASE i # k + 1
    <3>1. i \in 1 .. k
      BY <1>4, <2>3
    <3>2. a[i] = n[i]
      BY <1>2, <1>5, <3>1, AppendProperties
    <3>3. n[i] = p[i]
      BY <1>1, <3>1
    <3> QED BY <2>1, <3>2, <3>3
  <2> QED BY <2>2, <2>3
<1>9. a = m
  <2> HIDE DEF a, m
  <2> QED BY <1>6, <1>7, <1>8, SeqEqual
<1> QED BY <1>2, <1>4, <1>5, <1>6, <1>9

(* If a path with one segment more is an ancestor of p, then so is the     *)
(* path, and that segment is p's next.                                     *)
LEMMA AppendedAncestor ==
    ASSUME NEW p \in Seq(Segments), NEW n \in Seq(Segments), NEW s,
           Append(n, s) \in Ancestors(p)
    PROVE  /\ n \in Ancestors(p) /\ n # p
           /\ Len(n) \in 0 .. Len(p) - 1
           /\ p[Len(n) + 1] = s
           /\ s \in Segments
           /\ Append(n, s) \in Seq(Segments) /\ Len(Append(n, s)) = Len(n) + 1
<1> DEFINE k == Len(n)
<1>1. k \in Nat
  BY LenProperties
<1>2. Append(n, s) \in Seq(Segments)
  BY AncestorsTrans
<1>3. /\ Len(Append(n, s)) = k + 1
      /\ Append(n, s)[k + 1] = s
      /\ \A i \in 1 .. k : Append(n, s)[i] = n[i]
  <2>1. n \in Seq(Segments \cup {s}) /\ s \in Segments \cup {s}
    OBVIOUS
  <2> QED BY <2>1, AppendProperties
<1>4. PICK j \in 0 .. Len(p) : Append(n, s) = SubSeq(p, 1, j)
  BY DEF Ancestors
<1>5. j = k + 1
  BY <1>3, <1>4, PrefixType
<1>6. k \in 0 .. Len(p) - 1 /\ k \in 0 .. Len(p) /\ k + 1 \in 1 .. Len(p)
  BY <1>1, <1>5
<1>7. \A i \in 1 .. k + 1 : Append(n, s)[i] = p[i]
  BY <1>4, <1>5, <1>6
<1>8. p[k + 1] = s
  BY <1>1, <1>3, <1>7
<1>9. n = SubSeq(p, 1, k)
  <2>1. SubSeq(p, 1, k) \in Seq(Segments) /\ Len(SubSeq(p, 1, k)) = k
    BY <1>6, PrefixType
  <2>2. \A i \in 1 .. k : SubSeq(p, 1, k)[i] = n[i]
    <3> TAKE i \in 1 .. k
    <3>1. i \in 1 .. k + 1
      BY <1>1
    <3>2. SubSeq(p, 1, k)[i] = p[i]
      BY <1>6
    <3> QED BY <1>3, <1>7, <3>1, <3>2
  <2> QED BY <2>1, <2>2, SeqEqual
<1>10. n \in Ancestors(p)
  BY <1>6, <1>9 DEF Ancestors
<1>12. n # p
  BY <1>1, <1>6
<1>11. s \in Segments
  BY <1>6, <1>8
<1> QED BY <1>2, <1>3, <1>6, <1>8, <1>10, <1>11, <1>12

-----------------------------------------------------------------------------
(* Matching what is left of a pattern against what is left of a topic *)

(* One segment of p covers the piece of t up to cut[j].                    *)
Covers(p, t, cut, j) ==
    IF p[j] = Star THEN cut[j - 1] <= cut[j]
    ELSE /\ cut[j] = cut[j - 1] + 1
         /\ p[j] \in {Plus, t[cut[j]]}

(* The segments of p after the first k match those of t after the first i. *)
MatchFrom(p, t, k, i) ==
    \E cut \in [k .. Len(p) -> 0 .. Len(t)] :
        /\ cut[k] = i /\ cut[Len(p)] = Len(t)
        /\ \A j \in k + 1 .. Len(p) : Covers(p, t, cut, j)

LEMMA MatchesFromStart ==
    ASSUME NEW p \in Seq(Segments), NEW t \in Seq(Segments)
    PROVE  Matches(p, t) <=> MatchFrom(p, t, 0, 0)
  BY DEF Matches, MatchFrom, Covers

(* Nothing is left of the pattern: nothing may be left of the topic.       *)
LEMMA MatchEnd ==
    ASSUME NEW p \in Seq(Segments), NEW t \in Seq(Segments), NEW i \in 0 .. Len(t)
    PROVE  MatchFrom(p, t, Len(p), i) <=> i = Len(t)
<1> DEFINE k == Len(p)  N == Len(t)
<1>1. k \in Nat /\ N \in Nat
  BY LenProperties
<1>2. ASSUME MatchFrom(p, t, k, i) PROVE i = N
  BY <1>2 DEF MatchFrom
<1>3. ASSUME i = N PROVE MatchFrom(p, t, k, i)
  <2> DEFINE cut == [l \in k .. k |-> N]
  <2>1. cut \in [k .. k -> 0 .. N] /\ cut[k] = N
    BY <1>1
  <2>2. k + 1 .. k = {}
    BY <1>1
  <2> HIDE DEF cut
  <2> QED BY <1>3, <2>1, <2>2 DEF MatchFrom
<1> QED BY <1>2, <1>3

(* The segment of p after the first k takes t from after i to j.           *)
Takes(p, t, k, i, j) ==
    IF p[k + 1] = Star THEN i <= j ELSE j = i + 1 /\ p[k + 1] \in {Plus, t[j]}

(* A match of the rest after the next segment, and a piece for that        *)
(* segment, make a match.                                                  *)
LEMMA MatchExtends ==
    ASSUME NEW p \in Seq(Segments), NEW t \in Seq(Segments),
           NEW k \in 0 .. Len(p) - 1, NEW i \in 0 .. Len(t), NEW j \in 0 .. Len(t),
           MatchFrom(p, t, k + 1, j), Takes(p, t, k, i, j)
    PROVE  MatchFrom(p, t, k, i)
<1> DEFINE P == Len(p)  N == Len(t)
<1>1. P \in Nat /\ N \in Nat /\ k \in 0 .. P - 1
  BY LenProperties
<1>2. PICK rest \in [k + 1 .. P -> 0 .. N] :
          /\ rest[k + 1] = j /\ rest[P] = N
          /\ \A l \in k + 2 .. P : Covers(p, t, rest, l)
  <2>1. (k + 1) + 1 = k + 2
    BY <1>1
  <2> QED BY <2>1 DEF MatchFrom
<1> DEFINE cut == [l \in k .. P |-> IF l = k THEN i ELSE rest[l]]
<1>3. \A l \in k .. P : l # k => l \in k + 1 .. P
  BY <1>1
<1>4. /\ cut \in [k .. P -> 0 .. N]
      /\ cut[k] = i
      /\ \A l \in k + 1 .. P : cut[l] = rest[l]
  BY <1>1, <1>3
<1> HIDE DEF cut
<1>5. k + 1 \in k + 1 .. P /\ P \in k + 1 .. P
  BY <1>1
<1>6. cut[k + 1] = j /\ cut[P] = N
  BY <1>2, <1>4, <1>5
<1>7. ASSUME NEW l \in k + 1 .. P PROVE Covers(p, t, cut, l)
  <2>1. CASE l = k + 1
    <3>1. l - 1 = k
      BY <1>1, <2>1
    <3> QED BY <1>4, <1>6, <2>1, <3>1 DEF Covers, Takes
  <2>2. CASE l # k + 1
    <3>1. l \in k + 2 .. P /\ l - 1 \in k + 1 .. P
      BY <1>1, <2>2
    <3>2. cut[l] = rest[l] /\ cut[l - 1] = rest[l - 1]
      BY <1>4, <3>1
    <3> QED BY <1>2, <3>1, <3>2 DEF Covers
  <2> QED BY <2>1, <2>2
<1> QED BY <1>4, <1>6, <1>7 DEF MatchFrom

(* And a match of the rest begins with one of its next segment.            *)
LEMMA MatchStarts ==
    ASSUME NEW p \in Seq(Segments), NEW t \in Seq(Segments),
           NEW k \in 0 .. Len(p) - 1, NEW i \in 0 .. Len(t),
           MatchFrom(p, t, k, i)
    PROVE  \E j \in 0 .. Len(t) : MatchFrom(p, t, k + 1, j) /\ Takes(p, t, k, i, j)
<1> DEFINE P == Len(p)  N == Len(t)
<1>1. P \in Nat /\ N \in Nat /\ k \in 0 .. P - 1
  BY LenProperties
<1>2. PICK cut \in [k .. P -> 0 .. N] :
          /\ cut[k] = i /\ cut[P] = N
          /\ \A j \in k + 1 .. P : Covers(p, t, cut, j)
  BY DEF MatchFrom
<1> DEFINE rest == [l \in k + 1 .. P |-> cut[l]]
<1>3. \A l \in k + 1 .. P : l \in k .. P
  BY <1>1
<1>4. rest \in [k + 1 .. P -> 0 .. N] /\ \A l \in k + 1 .. P : rest[l] = cut[l]
  BY <1>3
<1> HIDE DEF rest
<1>5. k + 1 \in k + 1 .. P /\ P \in k + 1 .. P /\ (k + 1) - 1 = k /\ (k + 1) + 1 = k + 2
  BY <1>1
<1>6. rest[k + 1] = cut[k + 1] /\ rest[P] = N
  BY <1>2, <1>4, <1>5
<1>7. ASSUME NEW l \in k + 2 .. P PROVE Covers(p, t, rest, l)
  <2>1. l \in k + 1 .. P /\ l - 1 \in k + 1 .. P
    BY <1>1
  <2>2. rest[l] = cut[l] /\ rest[l - 1] = cut[l - 1]
    BY <1>4, <2>1
  <2> QED BY <1>2, <2>1, <2>2 DEF Covers
<1>8. MatchFrom(p, t, k + 1, cut[k + 1])
  BY <1>4, <1>5, <1>6, <1>7 DEF MatchFrom
<1>9. Covers(p, t, cut, k + 1) /\ cut[k + 1] \in 0 .. N
  BY <1>2, <1>3, <1>5
<1>10. Takes(p, t, k, i, cut[k + 1])
  BY <1>2, <1>5, <1>9 DEF Covers, Takes
<1> QED BY <1>8, <1>9, <1>10

(* A pattern in which no "*" follows another.                              *)
NoDoubleStar(p) == \A j \in 1 .. Len(p) - 1 : ~(p[j] = Star /\ p[j + 1] = Star)

(* When the topic is used up, only a "*" at the very end is left.          *)
LEMMA MatchNothing ==
    ASSUME NEW p \in Seq(Segments), NEW t \in Seq(Segments), NoDoubleStar(p),
           NEW k \in 1 .. Len(p), p[k] = Star, MatchFrom(p, t, k, Len(t))
    PROVE  k = Len(p)
<1>1. Len(t) \in Nat /\ Len(p) \in Nat
  BY LenProperties
<1>2. Len(t) \in 0 .. Len(t)
  BY <1>1
<1> SUFFICES ASSUME k # Len(p) PROVE FALSE
  OBVIOUS
<1>3. k \in 0 .. Len(p) - 1 /\ k \in 1 .. Len(p) - 1
  BY <1>1
<1>4. p[k + 1] # Star
  BY <1>3 DEF NoDoubleStar
<1>5. PICK j \in 0 .. Len(t) :
          MatchFrom(p, t, k + 1, j) /\ Takes(p, t, k, Len(t), j)
  BY <1>2, <1>3, MatchStarts
<1>6. j = Len(t) + 1
  BY <1>4, <1>5 DEF Takes
<1> QED BY <1>1, <1>6

-----------------------------------------------------------------------------
(* What collect computes *)

(* One call of collect, on the results f of the calls it makes.            *)
Below(f, n, s, j) == IF Append(n, s) \in nodes THEN f[Append(n, s)][j] ELSE {}

CollectAt(f, n, t, idx) ==
    (IF Append(n, Star) \in nodes THEN At(Append(n, Star)) ELSE {})
    \cup (UNION {Below(f, n, Star, j) : j \in idx .. Len(t) - 1})
    \cup
    (IF idx = Len(t) THEN At(n)
     ELSE Below(f, n, Plus, idx + 1)
          \cup (IF t[idx + 1] \in Names THEN Below(f, n, t[idx + 1], idx + 1)
                ELSE {}))

(* A client is found in one of five places.                                *)
LEMMA FoundBy ==
    ASSUME NEW f, NEW n, NEW t, NEW idx, NEW c
    PROVE  c \in CollectAt(f, n, t, idx) <=>
              \/ Append(n, Star) \in nodes /\ c \in At(Append(n, Star))
              \/ \E j \in idx .. Len(t) - 1 : c \in Below(f, n, Star, j)
              \/ idx = Len(t) /\ c \in At(n)
              \/ idx # Len(t) /\ c \in Below(f, n, Plus, idx + 1)
              \/ /\ idx # Len(t) /\ t[idx + 1] \in Names
                 /\ c \in Below(f, n, t[idx + 1], idx + 1)
<1> DEFINE star == UNION {Below(f, n, Star, j) : j \in idx .. Len(t) - 1}
           zero == IF Append(n, Star) \in nodes THEN At(Append(n, Star)) ELSE {}
           name == IF t[idx + 1] \in Names THEN Below(f, n, t[idx + 1], idx + 1) ELSE {}
           next == IF idx = Len(t) THEN At(n) ELSE Below(f, n, Plus, idx + 1) \cup name
<1>1. c \in star <=> \E j \in idx .. Len(t) - 1 : c \in Below(f, n, Star, j)
  BY Zenon
<1>2. c \in zero <=> Append(n, Star) \in nodes /\ c \in At(Append(n, Star))
  BY Zenon
<1>3. c \in name <=> t[idx + 1] \in Names /\ c \in Below(f, n, t[idx + 1], idx + 1)
  BY Zenon
<1>4. c \in next <=>
          \/ idx = Len(t) /\ c \in At(n)
          \/ idx # Len(t) /\ (c \in Below(f, n, Plus, idx + 1) \/ c \in name)
  <2> HIDE DEF name
  <2>1. CASE idx = Len(t)
    BY <2>1
  <2>2. CASE idx # Len(t)
    BY <2>2
  <2> QED BY <2>1, <2>2
<1>5. CollectAt(f, n, t, idx) = zero \cup star \cup next
  <2>1. CASE idx = Len(t)
    BY <2>1, Zenon DEF CollectAt
  <2>2. CASE idx # Len(t)
    BY <2>2, Zenon DEF CollectAt
  <2> QED BY <2>1, <2>2
<1> HIDE DEF star, zero, name, next
<1>6. c \in CollectAt(f, n, t, idx) <=> c \in zero \/ c \in star \/ c \in next
  BY <1>5
<1> QED BY <1>1, <1>2, <1>3, <1>4, <1>6, Zenon

CollectRow(f, n, t) == [idx \in 0 .. Len(t) |-> CollectAt(f, n, t, idx)]

Collects(f, t) == \A n \in Paths : f[n] = CollectRow(f, n, t)

(* The nodes are as deep as trie_subscribe allows.                         *)
Shallow == \A n \in nodes : Len(n) <= MaxSegments

(* A call depends on the calls at the children only, so that two functions *)
(* that collect are equal: at the deepest nodes first.                     *)
LEMMA CollectUnique ==
    ASSUME TypeOK, Shallow, NEW t \in Seq(Segments),
           NEW f, Collects(f, t), NEW g, Collects(g, t)
    PROVE  \A n \in Paths : f[n] = g[n]
<1>1. MaxSegments \in Nat
  BY TrieAssumption
<1>2. Paths \subseteq Seq(Segments) /\ nodes \subseteq Paths
  BY PathsClosed DEF TypeOK
<1>3. ASSUME NEW n \in Paths,
             \A s \in Segments : Append(n, s) \in nodes => f[Append(n, s)] = g[Append(n, s)]
      PROVE  f[n] = g[n]
  <2>1. \A s \in Segments : \A j : Below(f, n, s, j) = Below(g, n, s, j)
    BY <1>3 DEF Below
  <2>2. Plus \in Segments /\ Star \in Segments /\ Names \subseteq Segments
    BY DEF Segments
  <2>3. \A idx \in 0 .. Len(t) : CollectAt(f, n, t, idx) = CollectAt(g, n, t, idx)
    BY <2>1, <2>2 DEF CollectAt
  <2>4. CollectRow(f, n, t) = CollectRow(g, n, t)
    BY <2>3 DEF CollectRow
  <2> QED BY <2>4 DEF Collects
<1> DEFINE M == MaxSegments + 1
           A == {d \in 0 .. M : \A n \in Paths : Len(n) >= M - d => f[n] = g[n]}
<1>4. \A n \in Paths : Len(n) \in Nat
  BY <1>2, LenProperties
<1>5. \A n \in Paths, s \in Segments : Len(Append(n, s)) = Len(n) + 1
  BY <1>2, AppendProperties
<1>6. 0 \in A
  <2>1. ASSUME NEW n \in Paths, Len(n) >= M - 0, NEW s \in Segments
        PROVE  Append(n, s) \notin nodes
    <3>1. Len(Append(n, s)) = Len(n) + 1 /\ Len(n) \in Nat
      BY <1>4, <1>5
    <3>2. ~(Len(Append(n, s)) <= MaxSegments)
      BY <1>1, <2>1, <3>1
    <3> QED BY <3>2 DEF Shallow
  <2>2. 0 \in 0 .. M
    BY <1>1
  <2> QED BY <1>3, <2>1, <2>2
<1>7. ASSUME NEW d \in 0 .. M - 1, d \in A PROVE d + 1 \in A
  <2>1. d + 1 \in 0 .. M
    BY <1>1
  <2>2. ASSUME NEW n \in Paths, Len(n) >= M - (d + 1), NEW s \in Segments,
               Append(n, s) \in nodes
        PROVE  f[Append(n, s)] = g[Append(n, s)]
    <3>1. Len(Append(n, s)) = Len(n) + 1 /\ Len(n) \in Nat
      BY <1>4, <1>5
    <3>2. Len(Append(n, s)) >= M - d
      BY <1>1, <2>2, <3>1
    <3>3. Append(n, s) \in Paths
      BY <1>2, <2>2
    <3> QED BY <1>7, <3>2, <3>3
  <2> QED BY <1>3, <2>1, <2>2
<1>8. \A d \in 0 .. M : d \in A
  <2>1. M \in Nat
    BY <1>1
  <2> HIDE DEF A, M
  <2> QED BY <1>6, <1>7, <2>1, UpTo
<1>9. M \in A
  <2>1. M \in 0 .. M
    BY <1>1
  <2> HIDE DEF A, M
  <2> QED BY <1>8, <2>1
<1>10. \A n \in Paths : Len(n) >= M - M
  BY <1>1, <1>4
<1> QED BY <1>9, <1>10

(* Entries are at patterns that the server accepts.                        *)
AtPatterns ==
    \A n \in Paths, c \in Clients :
        subscribers[n][c] > 0 => n \in Patterns /\ ~TooLong(n)

(* The clients that collect is to find from node n on, when the first idx  *)
(* segments of the topic are used up.                                      *)
Due(n, t, idx) ==
    {c \in Clients : \E p \in Patterns :
        /\ subscribers[p][c] > 0
        /\ n \in Ancestors(p)
        /\ MatchFrom(p, t, Len(n), idx)}

DueFrom(t) == [n \in Paths |-> [idx \in 0 .. Len(t) |-> Due(n, t, idx)]]

(* What is due below a child.                                              *)
LEMMA DueBelow ==
    ASSUME Records, NEW t \in Seq(Segments), NEW n \in Paths, NEW s \in Segments,
           NEW j \in 0 .. Len(t), NEW c
    PROVE  c \in Below(DueFrom(t), n, s, j) <=>
               c \in Clients /\ \E p \in Patterns :
                  /\ subscribers[p][c] > 0
                  /\ n \in Ancestors(p) /\ n # p /\ p[Len(n) + 1] = s
                  /\ MatchFrom(p, t, Len(n) + 1, j)
<1> DEFINE m == Append(n, s)
<1>1. /\ n \in Seq(Segments) /\ nodes \subseteq Paths
      /\ \A p \in Patterns : p \in Paths /\ p \in Seq(Segments)
  BY PathsClosed DEF Records, TypeOK
<1>2. m \in Seq(Segments) /\ Len(m) = Len(n) + 1
  BY <1>1, AppendProperties
<1> HIDE DEF m
<1>3. ASSUME NEW p \in Patterns, c \in Clients, subscribers[p][c] > 0, m \in Ancestors(p)
      PROVE  m \in nodes
  <2>1. p \in nodes
    BY <1>1, <1>3 DEF Records, BackRefs
  <2> QED BY <1>3, <2>1 DEF Records, TreeShape
<1>4. ASSUME NEW p \in Patterns
      PROVE  m \in Ancestors(p) <=> n \in Ancestors(p) /\ n # p /\ p[Len(n) + 1] = s
  BY <1>1, NextAncestor, AppendedAncestor DEF m
<1>5. m \in nodes => DueFrom(t)[m][j] = Due(m, t, j)
  BY <1>1 DEF DueFrom
<1>6. c \in Below(DueFrom(t), n, s, j) <=> m \in nodes /\ c \in Due(m, t, j)
  BY <1>5 DEF Below, m
<1>7. c \in Due(m, t, j) <=>
          c \in Clients /\ \E p \in Patterns :
              /\ subscribers[p][c] > 0
              /\ m \in Ancestors(p)
              /\ MatchFrom(p, t, Len(n) + 1, j)
  BY <1>2 DEF Due
<1> QED BY <1>3, <1>4, <1>6, <1>7

(* Whoever is due is collected: the client's pattern ends at n, or goes on *)
(* through the child of its next segment.  A "*" that takes all that is    *)
(* left of the topic is only collected at the end of a pattern, which is   *)
(* why no "*" may follow it.                                               *)
LEMMA DueIsCollected ==
    ASSUME Records, \A p \in Patterns : NoDoubleStar(p),
           NEW t \in Seq(Segments), NEW n \in Paths, NEW idx \in 0 .. Len(t),
           NEW c \in Due(n, t, idx)
    PROVE  c \in CollectAt(DueFrom(t), n, t, idx)
<1> DEFINE N == Len(t)  k == Len(n)
<1>1. n \in Seq(Segments) /\ N \in Nat /\ k \in Nat
  BY PathsClosed, LenProperties
<1>2. PICK p \in Patterns :
          /\ c \in Clients /\ subscribers[p][c] > 0
          /\ n \in Ancestors(p)
          /\ MatchFrom(p, t, k, idx)
  BY DEF Due
<1>3. p \in Seq(Segments) /\ p \in Paths
  BY PathsClosed
<1>4. CASE n = p
  <2>1. idx = N
    BY <1>2, <1>3, <1>4, MatchEnd
  <2>2. c \in At(n)
    BY <1>2, <1>4 DEF At
  <2> QED BY <2>1, <2>2, FoundBy
<1>5. CASE n # p
  <2>1. /\ k \in 0 .. Len(p) - 1
        /\ Append(n, p[k + 1]) \in Ancestors(p)
        /\ p[k + 1] \in Segments
    BY <1>2, <1>3, <1>5, NextAncestor
  <2>2. PICK j \in 0 .. Len(t) :
            MatchFrom(p, t, k + 1, j) /\ Takes(p, t, k, idx, j)
    BY <1>2, <1>3, <2>1, MatchStarts
  <2>3. c \in Below(DueFrom(t), n, p[k + 1], j)
    BY <1>2, <1>5, <2>1, <2>2, DueBelow
  <2>4. CASE p[k + 1] = Star /\ j # N
    <3>1. j \in idx .. N - 1
      BY <1>1, <2>2, <2>4 DEF Takes
    <3> QED BY <2>3, <2>4, <3>1, FoundBy
  <2>5. CASE p[k + 1] = Star /\ j = N
    <3>1. k + 1 \in 1 .. Len(p)
      BY <2>1, LenProperties
    <3>2. k + 1 = Len(p)
      BY <1>3, <2>2, <2>5, <3>1, MatchNothing
    <3>3. Append(n, Star) = p
      <4> DEFINE m == Append(n, Star)
      <4>1. m \in Ancestors(p) /\ Len(m) = Len(p)
        <5>1. Star \in Segments
          BY DEF Segments
        <5>2. Len(Append(n, Star)) = k + 1
          BY <1>1, <5>1, AppendProperties
        <5> QED BY <2>1, <2>5, <3>2, <5>2
      <4> HIDE DEF m
      <4>2. PICK l \in 0 .. Len(p) : m = SubSeq(p, 1, l)
        BY <4>1 DEF Ancestors
      <4>3. l = Len(p)
        BY <1>3, <4>1, <4>2, PrefixType
      <4>4. m = p
        BY <1>3, <4>2, <4>3, SubSeqFull
      <4> QED BY <4>4 DEF m
    <3>4. p \in nodes
      BY <1>2, <1>3 DEF Records, BackRefs
    <3>5. c \in At(p)
      BY <1>2 DEF At
    <3> QED BY <3>3, <3>4, <3>5, FoundBy
  <2>6. CASE p[k + 1] # Star
    <3>1. j = idx + 1 /\ idx # N
      BY <1>1, <2>2, <2>6 DEF Takes
    <3>2. CASE p[k + 1] = Plus
      BY <2>3, <3>1, <3>2, FoundBy
    <3>3. CASE p[k + 1] # Plus
      <4>1. p[k + 1] = t[idx + 1] /\ t[idx + 1] \in Names
        BY <2>1, <2>2, <2>6, <3>1, <3>3 DEF Segments, Takes
      <4> QED BY <2>3, <3>1, <4>1, FoundBy
    <3> QED BY <3>2, <3>3
  <2> QED BY <2>4, <2>5, <2>6
<1> QED BY <1>4, <1>5

(* And nobody else is collected.                                           *)
LEMMA CollectedIsDue ==
    ASSUME Records, AtPatterns,
           NEW t \in Seq(Segments), NEW n \in Paths, NEW idx \in 0 .. Len(t),
           NEW c \in CollectAt(DueFrom(t), n, t, idx)
    PROVE  c \in Due(n, t, idx)
<1> DEFINE N == Len(t)  k == Len(n)
<1>1. n \in Seq(Segments) /\ N \in Nat /\ k \in Nat /\ N \in 0 .. N
  BY PathsClosed, LenProperties
<1>2. Plus \in Segments /\ Star \in Segments /\ Names \subseteq Segments
      /\ Star # Plus /\ Star \notin Names
  BY TrieAssumption DEF Segments
<1>3. ASSUME NEW s \in Segments, NEW j \in 0 .. N,
             c \in Below(DueFrom(t), n, s, j),
             IF s = Star THEN idx <= j ELSE j = idx + 1 /\ s \in {Plus, t[j]}
      PROVE  c \in Due(n, t, idx)
  <2>1. PICK p \in Patterns :
            /\ c \in Clients
            /\ subscribers[p][c] > 0
            /\ n \in Ancestors(p) /\ n # p /\ p[k + 1] = s
            /\ MatchFrom(p, t, k + 1, j)
    BY <1>3, DueBelow
  <2>2. p \in Seq(Segments)
    BY PathsClosed
  <2>3. k \in 0 .. Len(p) - 1
    BY <2>1, <2>2, NextAncestor
  <2>4. Takes(p, t, k, idx, j)
    BY <1>3, <2>1 DEF Takes
  <2>5. MatchFrom(p, t, k, idx)
    BY <2>1, <2>2, <2>3, <2>4, MatchExtends
  <2> QED BY <2>1, <2>5 DEF Due
<1>4. ASSUME Append(n, Star) \in nodes, c \in At(Append(n, Star))
      PROVE  c \in Due(n, t, idx)
  <2> DEFINE p == Append(n, Star)
  <2>1. c \in Clients /\ subscribers[p][c] > 0
    BY <1>4 DEF At
  <2>2. p \in Patterns
    BY <1>4, <2>1 DEF AtPatterns, Records, TypeOK
  <2>3. p \in Seq(Segments) /\ p \in Ancestors(p)
    BY <2>2, PathsClosed, AncestorsSelf
  <2>4. n \in Ancestors(p) /\ k \in 0 .. Len(p) - 1 /\ p[k + 1] = Star /\ Len(p) = k + 1
    BY <1>1, <2>3, AppendedAncestor
  <2> HIDE DEF p
  <2>5. MatchFrom(p, t, k + 1, N)
    BY <1>1, <2>3, <2>4, MatchEnd
  <2>6. MatchFrom(p, t, k, idx)
    <3>1. Takes(p, t, k, idx, N)
      BY <1>1, <2>4 DEF Takes
    <3> QED BY <1>1, <2>3, <2>4, <2>5, <3>1, MatchExtends
  <2> QED BY <2>1, <2>2, <2>4, <2>6 DEF Due
<1>5. ASSUME NEW j \in idx .. N - 1, c \in Below(DueFrom(t), n, Star, j)
      PROVE  c \in Due(n, t, idx)
  <2>1. j \in 0 .. N /\ idx <= j
    BY <1>1
  <2> QED BY <1>2, <1>3, <1>5, <2>1
<1>6. ASSUME idx = N, c \in At(n) PROVE c \in Due(n, t, idx)
  <2>1. c \in Clients /\ subscribers[n][c] > 0
    BY <1>6 DEF At
  <2>2. n \in Patterns /\ n \in Ancestors(n)
    BY <1>1, <2>1, AncestorsSelf DEF AtPatterns
  <2>3. MatchFrom(n, t, k, idx)
    BY <1>1, <1>6, MatchEnd
  <2> QED BY <2>1, <2>2, <2>3 DEF Due
<1>7. ASSUME idx # N, NEW s \in Names \cup {Plus}, s \in {Plus, t[idx + 1]},
             c \in Below(DueFrom(t), n, s, idx + 1)
      PROVE  c \in Due(n, t, idx)
  <2>1. idx + 1 \in 0 .. N
    BY <1>1, <1>7
  <2>2. s \in Segments /\ s # Star
    BY <1>2
  <2> QED BY <1>3, <1>7, <2>1, <2>2
<1>8. CASE \/ Append(n, Star) \in nodes /\ c \in At(Append(n, Star))
           \/ \E j \in idx .. N - 1 : c \in Below(DueFrom(t), n, Star, j)
  BY <1>4, <1>5, <1>8
<1>9. CASE /\ idx # N
           /\ \/ c \in Below(DueFrom(t), n, Plus, idx + 1)
              \/ t[idx + 1] \in Names /\ c \in Below(DueFrom(t), n, t[idx + 1], idx + 1)
  BY <1>7, <1>9
<1> QED BY <1>6, <1>8, <1>9, FoundBy

(* The clients trie_publish collects are those that hold a pattern which   *)
(* matches the topic.                                                      *)
LEMMA CollectIsMatching ==
    ASSUME Records, AtPatterns, Shallow, \A p \in Patterns : NoDoubleStar(p),
           NEW t \in Seq(Segments)
    PROVE  Collect(t) = {c \in Clients : \E p \in Patterns :
                             subscribers[p][c] > 0 /\ Matches(p, t)}
<1> DEFINE due == DueFrom(t)
<1>1. Root \in Paths /\ Len(Root) = 0 /\ 0 \in 0 .. Len(t)
  BY PathsClosed, EmptySeq, LenProperties DEF Root
<1>2. \A n \in Paths, idx \in 0 .. Len(t) : Due(n, t, idx) = CollectAt(due, n, t, idx)
  BY DueIsCollected, CollectedIsDue
<1>3. \A n \in Paths : [idx \in 0 .. Len(t) |-> Due(n, t, idx)] = CollectRow(due, n, t)
  <2> HIDE DEF due
  <2> QED BY <1>2 DEF CollectRow
<1>4. due = [n \in Paths |-> CollectRow(due, n, t)]
  <2>1. due = [n \in Paths |-> [idx \in 0 .. Len(t) |-> Due(n, t, idx)]]
    BY DEF DueFrom
  <2> HIDE DEF due
  <2> QED BY <1>3, <2>1
<1> DEFINE collect == CHOOSE f : f = [n \in Paths |-> CollectRow(f, n, t)]
<1>5. Collect(t) = collect[Root][0]
  BY DEF Collect, CollectRow, CollectAt, Below
<1>6. collect = [n \in Paths |-> CollectRow(collect, n, t)]
  <2> HIDE DEF due
  <2> QED BY <1>4
<1> HIDE DEF collect, due
<1>7. Collects(collect, t) /\ Collects(due, t)
  BY <1>4, <1>6 DEF Collects
<1>8. collect[Root] = due[Root]
  BY <1>1, <1>7, CollectUnique DEF Records
<1>9. due[Root][0] = Due(Root, t, 0)
  BY <1>1 DEF due, DueFrom
<1>10. \A p \in Patterns : p \in Seq(Segments) /\ Root \in Ancestors(p)
  BY PathsClosed, AncestorsSelf
<1>11. \A p \in Patterns : MatchFrom(p, t, 0, 0) <=> Matches(p, t)
  BY <1>10, MatchesFromStart
<1> QED BY <1>1, <1>5, <1>8, <1>9, <1>10, <1>11 DEF Due

-----------------------------------------------------------------------------
(* The trie implements the table of subscriptions *)

(* Refusals other than of patterns that are too long need an allocation    *)
(* that failed, now or at an earlier subscription.                         *)
RefusedForMemory == scarce \/ broken # {} => MayFail

(* What the table's promise rests on besides the records.                  *)
TableInv == SafeInv /\ AtPatterns /\ Shallow /\ RefusedForMemory

LEMMA InitTableInv == Init => TableInv
<1> SUFFICES ASSUME Init PROVE TableInv
  OBVIOUS
<1>1. SafeInv
  BY InitSafe
<1>2. Len(Root) <= MaxSegments
  <2>1. Len(Root) = 0
    BY EmptySeq DEF Root
  <2> QED BY <2>1, TrieAssumption
<1>3. AtPatterns /\ Shallow /\ RefusedForMemory
  BY <1>2 DEF Init, AtPatterns, Shallow, RefusedForMemory
<1> QED BY <1>1, <1>3 DEF TableInv

(* The nodes a subscription makes lead to its pattern.                     *)
LEMMA AncestorsShallow ==
    ASSUME NEW p \in Seq(Segments), ~TooLong(p), NEW n \in Ancestors(p)
    PROVE  Len(n) <= MaxSegments
<1>1. PICK k \in 0 .. Len(p) : n = SubSeq(p, 1, k)
  BY DEF Ancestors
<1>2. Len(n) = k
  BY <1>1, PrefixType
<1>3. Len(p) \in Nat /\ MaxSegments \in Nat
  BY LenProperties, TrieAssumption
<1> QED BY <1>2, <1>3 DEF TooLong

LEMMA NextTableInv == TableInv /\ [Next]_vars => TableInv'
<1> SUFFICES ASSUME TableInv, [Next]_vars PROVE TableInv'
  OBVIOUS
<1>1. SafeInv'
  BY NextSafe DEF TableInv
<1>2. SafeInv /\ AtPatterns /\ Shallow /\ RefusedForMemory /\ Records /\ TypeOK
  BY DEF TableInv, SafeInv, Records
<1>3. ASSUME NEW c \in Clients, NEW p \in Patterns, Subscribed(c, p), scarce' = scarce
      PROVE  (AtPatterns /\ Shallow /\ RefusedForMemory)'
  <2>1. p \in Paths /\ p \in Seq(Segments)
    BY PathsClosed
  <2>2. AtPatterns'
    BY <1>2, <1>3, <2>1 DEF AtPatterns, Subscribed, TypeOK
  <2>3. Shallow'
    BY <1>2, <1>3, <2>1, AncestorsShallow DEF Shallow, Subscribed
  <2> QED BY <1>2, <1>3, <2>2, <2>3 DEF RefusedForMemory, Subscribed
<1>4. ASSUME NEW c \in Clients, NEW p \in Patterns, RefusedHalfway(c, p), scarce' = scarce
      PROVE  (AtPatterns /\ Shallow /\ RefusedForMemory)'
  <2>1. p \in Seq(Segments)
    BY PathsClosed
  <2>2. PICK k \in 0 .. Len(p) : nodes' = nodes \cup Ancestors(SubSeq(p, 1, k))
    BY <1>4 DEF RefusedHalfway
  <2>3. Ancestors(SubSeq(p, 1, k)) \subseteq Ancestors(p)
    <3>1. SubSeq(p, 1, k) \in Ancestors(p)
      BY DEF Ancestors
    <3> QED BY <2>1, <3>1, AncestorsTrans
  <2>4. Shallow'
    BY <1>2, <1>4, <2>1, <2>2, <2>3, AncestorsShallow DEF Shallow, RefusedHalfway
  <2>5. AtPatterns' /\ RefusedForMemory'
    BY <1>2, <1>4 DEF AtPatterns, RefusedForMemory, RefusedHalfway
  <2> QED BY <2>4, <2>5
<1>5. ASSUME NEW c \in Clients, NEW p \in Patterns, Unsubscribed(c, p), scarce' = scarce
      PROVE  (AtPatterns /\ Shallow /\ RefusedForMemory)'
  <2>1. p \in Paths
    BY PathsClosed
  <2>2. \A n \in Paths, d \in Clients : subscribers'[n][d] > 0 => subscribers[n][d] > 0
    BY <1>2, <1>5, <2>1 DEF Unsubscribed, TypeOK
  <2> QED BY <1>2, <1>5, <2>2 DEF AtPatterns, Shallow, RefusedForMemory, Unsubscribed
<1>6. ASSUME NEW c \in Clients, Cleanup(c)
      PROVE  (AtPatterns /\ Shallow /\ RefusedForMemory)'
  <2>1. \A n \in Paths, d \in Clients : subscribers'[n][d] > 0 => subscribers[n][d] > 0
    BY <1>2, <1>6 DEF Cleanup, TypeOK
  <2> QED BY <1>2, <1>6, <2>1 DEF AtPatterns, Shallow, RefusedForMemory, Cleanup
<1>7. ASSUME UNCHANGED <<nodes, subscribers, broken, scarce>>
      PROVE  (AtPatterns /\ Shallow /\ RefusedForMemory)'
  BY <1>2, <1>7 DEF AtPatterns, Shallow, RefusedForMemory
<1>8. ASSUME MemoryPressure
      PROVE  (AtPatterns /\ Shallow /\ RefusedForMemory)'
  BY <1>2, <1>8 DEF MemoryPressure, AtPatterns, Shallow, RefusedForMemory
<1>9. (AtPatterns /\ Shallow /\ RefusedForMemory)'
  BY <1>3, <1>4, <1>5, <1>6, <1>7, <1>8
     DEF Next, Subscribe, RefusedAtOnce, Unsubscribe, NotUnsubscribed, Publish,
         CleanupCrashes, vars
<1> QED BY <1>1, <1>9 DEF TableInv

(* What each operation does to the table.                                  *)
LEMMA TableStep ==
    ASSUME TableInv, \A p \in Patterns : NoDoubleStar(p), [Next]_vars
    PROVE  [Table!Next]_(Table!tableVars)
<1> DEFINE tbl == [c \in Clients |-> [p \in Patterns |-> subscribers[p][c]]]
<1>1. /\ Records /\ AtPatterns /\ Shallow /\ RefusedForMemory
      /\ TypeOK /\ BackRefs /\ Patterns \subseteq Paths
  BY PathsClosed DEF TableInv, SafeInv, Records
<1>2. \A c \in Clients, p \in Patterns : tbl[c][p] = subscribers[p][c]
  OBVIOUS
<1>3. tbl \in [Clients -> [Patterns -> Nat]] /\ tbl' \in [Clients -> [Patterns -> Nat]]
  <2>1. TypeOK'
    BY NextSafe DEF TableInv, SafeInv, Records
  <2> QED BY <1>1, <2>1 DEF TypeOK
<1>4. subscribers' = subscribers => tbl' = tbl
  OBVIOUS
<1>5. ASSUME destroyed = {}, NEW c \in Clients, NEW p \in Patterns, Subscribe(c, p)
      PROVE  Table!Next
  <2>1. CASE Subscribed(c, p) /\ last' = Outcome("subscribe", c, p, TRUE)
    <3>1. \A d \in Clients, q \in Patterns :
              tbl'[d][q] = IF d = c /\ q = p THEN tbl[d][q] + 1 ELSE tbl[d][q]
      BY <1>1, <2>1 DEF Subscribed, TypeOK
    <3> HIDE DEF tbl
    <3>2. tbl' = [tbl EXCEPT ![c][p] = @ + 1]
      BY <1>3, <3>1
    <3>3. Table!Accept(c, p)
      BY <2>1, <3>2 DEF Table!Accept, Table!Outcome, Outcome, Subscribed, tbl
    <3> QED BY <1>5, <3>3 DEF Table!Next, Table!Running, Subscribe
  <2>2. CASE /\ RefusedAtOnce(c, p) \/ RefusedHalfway(c, p)
             /\ last' = Outcome("subscribe", c, p, FALSE)
    <3>1. TooLong(p) \/ MayFail
      BY <1>1, <2>2 DEF RefusedAtOnce, RefusedHalfway, Walkable, RefusedForMemory
    <3>2. tbl' = tbl
      BY <1>4, <2>2 DEF RefusedAtOnce, RefusedHalfway
    <3>3. Table!Refuse(c, p)
      BY <2>2, <3>1, <3>2 DEF Table!Refuse, Table!Outcome, Outcome
    <3> QED BY <1>5, <3>3 DEF Table!Next, Table!Running, Subscribe
  <2> QED BY <1>5, <2>1, <2>2 DEF Subscribe
<1>6. ASSUME destroyed = {}, NEW c \in Clients, NEW p \in Patterns, Unsubscribe(c, p)
      PROVE  Table!Next
  <2>1. CASE Unsubscribed(c, p) /\ last' = Outcome("unsubscribe", c, p, TRUE)
    <3>1. \A d \in Clients, q \in Patterns :
              tbl'[d][q] = IF d = c /\ q = p THEN tbl[d][q] - 1 ELSE tbl[d][q]
      BY <1>1, <2>1 DEF Unsubscribed, TypeOK
    <3>2. tbl[c][p] > 0
      BY <2>1 DEF Unsubscribed
    <3> HIDE DEF tbl
    <3>3. tbl' = [tbl EXCEPT ![c][p] = @ - 1]
      BY <1>3, <3>1
    <3>4. Table!Drop(c, p)
      BY <2>1, <3>2, <3>3 DEF Table!Drop, Table!Outcome, Outcome, tbl
    <3> QED BY <1>6, <3>4 DEF Table!Next, Table!Running, Unsubscribe
  <2>2. CASE NotUnsubscribed(c, p) /\ last' = Outcome("unsubscribe", c, p, FALSE)
    <3>1. tbl[c][p] = 0 \/ MayFail
      <4>1. CASE TooLong(p) \/ p \notin nodes
        <5>1. ~(subscribers[p][c] > 0) /\ subscribers[p][c] \in Nat
          BY <1>1, <4>1 DEF AtPatterns, BackRefs, TypeOK
        <5> QED BY <5>1
      <4>2. CASE subscribers[p][c] = 0 \/ scarce
        BY <1>1, <4>2 DEF RefusedForMemory
      <4> QED BY <2>2, <4>1, <4>2 DEF NotUnsubscribed
    <3>2. tbl' = tbl
      BY <1>4, <2>2 DEF NotUnsubscribed
    <3>3. Table!NothingToDrop(c, p)
      BY <2>2, <3>1, <3>2 DEF Table!NothingToDrop, Table!Outcome, Outcome
    <3> QED BY <1>6, <3>3 DEF Table!Next, Table!Running, Unsubscribe
  <2> QED BY <1>6, <2>1, <2>2 DEF Unsubscribe
<1>7. ASSUME destroyed = {}, NEW t \in Topics, Publish(t) PROVE Table!Next
  <2>1. t \in Seq(Segments)
    BY TrieAssumption
  <2>2. Collect(t) = Table!Receivers(t)
    <3>1. Collect(t) = {c \in Clients : \E p \in Patterns :
                             subscribers[p][c] > 0 /\ Matches(p, t)}
      BY <1>1, <2>1, CollectIsMatching
    <3> QED BY <1>2, <3>1 DEF Table!Receivers
  <2>3. tbl' = tbl
    BY <1>4, <1>7 DEF Publish
  <2>4. PICK to \in SUBSET Clients :
            /\ to \subseteq Collect(t)
            /\ to = Collect(t) \/ Cardinality(to) = MaxSeen
            /\ last' = [op |-> "publish", topic |-> t, to |-> to]
    BY <1>7 DEF Publish
  <2>5. Cardinality(to) = Table!Cardinality(to)
    BY Zenon DEF Cardinality, Table!Cardinality
  <2>6. Table!Publish(t)
    BY <2>2, <2>3, <2>4, <2>5 DEF Table!Publish
  <2> QED BY <1>7, <2>6 DEF Table!Next, Table!Running, Publish
<1>8. ASSUME NEW c \in Clients, Cleanup(c) PROVE Table!Next
  <2>1. \A n \in Paths : subscribers'[n][c] = 0
    BY <1>1, <1>8, CleanupKeepsRecords
  <2>2. \A d \in Clients, q \in Patterns :
            tbl'[d][q] = IF d = c THEN 0 ELSE tbl[d][q]
    BY <1>1, <1>8, <2>1 DEF Cleanup, TypeOK
  <2> HIDE DEF tbl
  <2>3. tbl' = [tbl EXCEPT ![c] = [q \in Patterns |-> 0]]
    BY <1>3, <2>2
  <2>4. Table!Cleanup(c) /\ c \notin destroyed
    BY <1>8, <2>3 DEF Table!Cleanup, Cleanup, tbl
  <2> QED BY <2>4 DEF Table!Next
<1>9. CASE MemoryPressure
  BY <1>4, <1>9 DEF MemoryPressure, Table!tableVars
<1>10. ASSUME NEW c \in Clients, CleanupCrashes(c) PROVE UNCHANGED Table!tableVars
  BY <1>4, <1>10 DEF CleanupCrashes, Table!tableVars
<1>11. CASE UNCHANGED vars
  BY <1>4, <1>11 DEF vars, Table!tableVars
<1> QED BY <1>5, <1>6, <1>7, <1>8, <1>9, <1>10, <1>11 DEF Next

(* When no pattern has a "*" after a "*", the trie implements the table.   *)
THEOREM ImplementsTable ==
    ASSUME \A p \in Patterns : NoDoubleStar(p)
    PROVE  Spec => Refines
<1>1. Init => Table!Init
  BY PathsClosed DEF Init, Table!Init
<1>2. TableInv /\ [Next]_vars => [Table!Next]_(Table!tableVars)
  BY TableStep
<1> QED BY <1>1, <1>2, InitTableInv, NextTableInv, PTL DEF Spec, Refines, Table!Spec

=============================================================================
