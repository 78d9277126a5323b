----------------------------- MODULE TopicTrie -----------------------------
(***************************************************************************)
(* src/src/topic_trie.c: the trie of subscription patterns.                *)
(*                                                                         *)
(* A topic_node_t is named by its path from the root, the sequence of      *)
(* segments that strtok(pattern, "/") yields; plus_child and star_child    *)
(* are the children reached by the segments Plus and Star.  A list of      *)
(* client_list_t (or of sub_ref_t) is a bag: only how often a client (a    *)
(* node) occurs in it matters to the code.  The functions run to their end *)
(* without being interrupted, so each is one action.                       *)
(*                                                                         *)
(* Operators named ...Bug are a plausible slip in the function they stand  *)
(* before; nothing here uses them.  They show that the properties at the   *)
(* end depend on the code.                                                 *)
(***************************************************************************)
EXTENDS Naturals, Sequences, FiniteSets, Functions

CONSTANTS Clients,      \* the client_t objects
          Names,        \* segments that are neither "+" nor "*"
          Plus, Star,   \* the wildcard segments
          Patterns,     \* the patterns clients ask for, as segments
          Topics,       \* the topics messages are published to
          MaxSegments,  \* parts[64], T[64]
          MaxSeen,      \* seen[1024] in trie_publish
          MaxEntries,   \* bound: entries a client holds at once
          MayFail       \* can memory run out?

Segments == Names \cup {Plus, Star}

Root == << >>

Ancestors(n) == {SubSeq(n, 1, k) : k \in 0 .. Len(n)}

Paths == {Root} \cup UNION {Ancestors(p) : p \in Patterns}

(* A topic is cut to MAX_TOPIC_LEN = 50 bytes by extract_topic, which is   *)
(* at most 25 segments: the silent cut of T at 64 is never reached.        *)
ASSUME TrieAssumption ==
    /\ Plus \notin Names /\ Star \notin Names /\ Plus # Star
    /\ MaxSegments \in Nat /\ MaxSeen \in Nat /\ MaxEntries \in Nat
    /\ MayFail \in BOOLEAN
    /\ \A p \in Patterns : p \in Seq(Segments)
    /\ \A t \in Topics : t \in Seq(Segments) /\ Len(t) <= MaxSegments

VARIABLES nodes,        \* the live nodes, the root among them
          subscribers,  \* subscribers[n][c]: entries of c in n->subscribers
          refs,         \* refs[c][n]: entries of n in c->subscriptions
          broken,       \* struct child links whose node is NULL
          scarce,       \* can an allocation fail right now?
          destroyed,    \* the clients client_destroy has freed
          crashed,      \* did the process die in client_destroy?
          last          \* the last operation and what it returned

vars == <<nodes, subscribers, refs, broken, scarce, destroyed, crashed, last>>

Outcome(op, c, p, ok) == [op |-> op, client |-> c, pattern |-> p, ok |-> ok]

Outcomes ==
    {[op |-> "none"]}
    \cup [op : {"subscribe", "unsubscribe"}, client : Clients,
          pattern : Patterns, ok : BOOLEAN]
    \cup [op : {"publish"}, topic : Topics, to : SUBSET Clients]
    \cup [op : {"cleanup"}, client : Clients]

(* Nodes are paths, and the entries of both records are counted by path.   *)
TypeOK == /\ nodes \subseteq Paths
          /\ subscribers \in [Paths -> [Clients -> Nat]]
          /\ refs \in [Clients -> [Paths -> Nat]]
          /\ broken \subseteq Paths
          /\ scarce \in BOOLEAN
          /\ destroyed \subseteq Clients
          /\ crashed \in BOOLEAN
          /\ last \in Outcomes

Init == /\ nodes = {Root}
        /\ subscribers = [n \in Paths |-> [c \in Clients |-> 0]]
        /\ refs = [c \in Clients |-> [n \in Paths |-> 0]]
        /\ broken = {}
        /\ scarce = FALSE
        /\ destroyed = {}
        /\ crashed = FALSE
        /\ last = [op |-> "none"]

-----------------------------------------------------------------------------
(* trie_subscribe *)

TooLong(p) == Len(p) > MaxSegments

(* Walking to or creating every node of p meets no child without a node.   *)
Walkable(p) == Ancestors(p) \cap broken = {}

Subscribed(c, p) ==
    /\ ~TooLong(p)
    /\ Walkable(p)
    /\ SumFunction(refs[c]) < MaxEntries
    /\ nodes' = nodes \cup Ancestors(p)
    /\ subscribers' = [subscribers EXCEPT ![p][c] = @ + 1]
    /\ refs' = [refs EXCEPT ![c][p] = @ + 1]
    /\ UNCHANGED broken

(* The ways to return -1 before anything was changed: too many segments,   *)
(* strdup fails, or get_or_create_child finds a child without a node.      *)
RefusedAtOnce(c, p) ==
    /\ TooLong(p) \/ ~Walkable(p) \/ scarce
    /\ UNCHANGED <<nodes, subscribers, refs, broken>>

NoRollbackBug(c, p) ==
    /\ scarce /\ ~TooLong(p) /\ Walkable(p)
    /\ nodes' = nodes \cup Ancestors(p)
    /\ subscribers' = [subscribers EXCEPT ![p][c] = @ + 1]
    /\ UNCHANGED <<refs, broken>>

(* An allocation fails after k segments: the nodes made so far stay, and   *)
(* when it is the node of a named child that fails, the child stays linked *)
(* with node == NULL.  After the last segment it is node_add_subscriber    *)
(* that fails, and takes back the entry it made.                           *)
RefusedHalfway(c, p) ==
    /\ scarce
    /\ ~TooLong(p)
    /\ Walkable(p)
    /\ \E k \in 0 .. Len(p) :
          /\ nodes' = nodes \cup Ancestors(SubSeq(p, 1, k))
          /\ \/ k = Len(p) /\ UNCHANGED broken
             \/ /\ k < Len(p)
                /\ SubSeq(p, 1, k + 1) \notin nodes
                /\ \/ UNCHANGED broken
                   \/ /\ p[k + 1] \in Names
                      /\ broken' = broken \cup {SubSeq(p, 1, k + 1)}
    /\ UNCHANGED <<subscribers, refs>>

Subscribe(c, p) ==
    /\ \/ Subscribed(c, p) /\ last' = Outcome("subscribe", c, p, TRUE)
       \/ /\ RefusedAtOnce(c, p) \/ RefusedHalfway(c, p)
          /\ last' = Outcome("subscribe", c, p, FALSE)
    /\ UNCHANGED <<scarce, destroyed, crashed>>

-----------------------------------------------------------------------------
(* remove_subscriber_from_node, node_remove_if_empty, trie_unsubscribe *)

OnlyItselfBug(D, S) ==
    {q \in (D \cap nodes) \ {Root} :
        /\ \A r \in nodes : q \in Ancestors(r) => r = q
        /\ \A c \in Clients : S[q][c] = 0
        /\ \A b \in broken : q \notin Ancestors(b)}

NotItsChildrenBug(D, S) ==
    {q \in (D \cap nodes) \ {Root} : \A c \in Clients : S[q][c] = 0}

BrokenLinkBug(D, S) ==
    {q \in nodes \ {Root} :
        \A r \in nodes : q \in Ancestors(r) =>
            /\ \A c \in Clients : S[r][c] = 0
            /\ \E d \in D : r \in Ancestors(d)}

(* The nodes freed once the entries S are what is left, when entries were  *)
(* taken from the nodes D: each node of D is freed if it is empty, then    *)
(* its parent if that became empty, and so on below the root.  A child     *)
(* link without a node keeps its parent non-empty.                         *)
Pruned(D, S) ==
    {q \in nodes \ {Root} :
        /\ \A r \in nodes : q \in Ancestors(r) =>
              /\ \A c \in Clients : S[r][c] = 0
              /\ \E d \in D : r \in Ancestors(d)
        /\ \A b \in broken : q \notin Ancestors(b)}

NotSubscribedBug(c, p) ==
    /\ ~TooLong(p) /\ p \in nodes
    /\ subscribers' = [subscribers EXCEPT ![p][c] = @ - 1]
    /\ nodes' = nodes \ Pruned({p}, subscribers')
    /\ refs' = [refs EXCEPT ![c][p] = IF @ > 0 THEN @ - 1 ELSE 0]
    /\ UNCHANGED broken

RefKeptBug(c, p) ==
    /\ ~TooLong(p) /\ p \in nodes /\ subscribers[p][c] > 0
    /\ subscribers' = [subscribers EXCEPT ![p][c] = @ - 1]
    /\ nodes' = nodes \ Pruned({p}, subscribers')
    /\ UNCHANGED <<refs, broken>>

AllEntriesBug(c, p) ==
    /\ ~TooLong(p) /\ p \in nodes /\ subscribers[p][c] > 0
    /\ subscribers' = [subscribers EXCEPT ![p][c] = 0]
    /\ nodes' = nodes \ Pruned({p}, subscribers')
    /\ refs' = [refs EXCEPT ![c][p] = 0]
    /\ UNCHANGED broken

Unsubscribed(c, p) ==
    /\ ~TooLong(p)
    /\ p \in nodes
    /\ subscribers[p][c] > 0
    /\ subscribers' = [subscribers EXCEPT ![p][c] = @ - 1]
    /\ nodes' = nodes \ Pruned({p}, subscribers')
    /\ refs' = [refs EXCEPT ![c][p] = IF @ > 0 THEN @ - 1 ELSE 0]
    /\ UNCHANGED broken

NotUnsubscribed(c, p) ==
    /\ \/ TooLong(p)
       \/ p \notin nodes
       \/ subscribers[p][c] = 0
       \/ scarce
    /\ UNCHANGED <<nodes, subscribers, refs, broken>>

Unsubscribe(c, p) ==
    /\ \/ Unsubscribed(c, p) /\ last' = Outcome("unsubscribe", c, p, TRUE)
       \/ NotUnsubscribed(c, p) /\ last' = Outcome("unsubscribe", c, p, FALSE)
    /\ UNCHANGED <<scarce, destroyed, crashed>>

-----------------------------------------------------------------------------
(* collect, trie_publish *)

At(n) == {c \in Clients : subscribers[n][c] > 0}

NotZeroLevelsBug(t) ==
    LET N == Len(t)
        collect[n \in Paths] ==
            LET below(s, j) == LET m == Append(n, s)
                               IN IF m \in nodes THEN collect[m][j] ELSE {}
            IN  [idx \in 0 .. N |->
                   (UNION {below(Star, j) : j \in idx + 1 .. N})
                   \cup
                   (IF idx = N THEN At(n)
                    ELSE below(Plus, idx + 1)
                         \cup (IF t[idx + 1] \in Names THEN below(t[idx + 1], idx + 1)
                               ELSE {}))]
    IN  collect[Root][0]

(* collect(n, T, N, idx) for the topic t: the clients in *out, by node and *)
(* then by index.                                                          *)
Collect(t) ==
    LET N == Len(t)
        collect[n \in Paths] ==
            LET below(s, j) == LET m == Append(n, s)
                               IN IF m \in nodes THEN collect[m][j] ELSE {}
            IN  [idx \in 0 .. N |->
                   (IF Append(n, Star) \in nodes THEN At(Append(n, Star)) ELSE {})
                   \cup (UNION {below(Star, j) : j \in idx .. N - 1})
                   \cup
                   (IF idx = N THEN At(n)
                    ELSE below(Plus, idx + 1)
                         \cup (IF t[idx + 1] \in Names THEN below(t[idx + 1], idx + 1)
                               ELSE {}))]
    IN  collect[Root][0]

(* seen[] holds MaxSeen clients; the list order, which decides who is left *)
(* out, is not modelled.                                                   *)
Publish(t) ==
    \E to \in SUBSET Clients :
        /\ to \subseteq Collect(t)
        /\ \/ to = Collect(t) /\ Cardinality(to) <= MaxSeen
           \/ to # Collect(t) /\ Cardinality(to) = MaxSeen
        /\ last' = [op |-> "publish", topic |-> t, to |-> to]
        /\ UNCHANGED <<nodes, subscribers, refs, broken, scarce, destroyed, crashed>>

-----------------------------------------------------------------------------
(* cleanup_client_subscriptions; the client is freed right after *)

Held(c) == {n \in Paths : refs[c][n] > 0}

OneEntryBug(c) ==
    /\ c \notin destroyed
    /\ subscribers' = [n \in Paths |->
          [subscribers[n] EXCEPT ![c] = IF @ > 0 THEN @ - 1 ELSE 0]]
    /\ nodes' = nodes \ Pruned(Held(c), subscribers')
    /\ refs' = [refs EXCEPT ![c] = [n \in Paths |-> 0]]
    /\ destroyed' = destroyed \cup {c}
    /\ last' = [op |-> "cleanup", client |-> c]
    /\ UNCHANGED <<broken, scarce, crashed>>

Cleanup(c) ==
    /\ c \notin destroyed
    /\ subscribers' = [n \in Paths |->
          [subscribers[n] EXCEPT ![c] = IF @ > refs[c][n] THEN @ - refs[c][n] ELSE 0]]
    /\ nodes' = nodes \ Pruned(Held(c), subscribers')
    /\ refs' = [refs EXCEPT ![c] = [n \in Paths |-> 0]]
    /\ destroyed' = destroyed \cup {c}
    /\ last' = [op |-> "cleanup", client |-> c]
    /\ UNCHANGED <<broken, scarce, crashed>>

(* client_create never sets `subscriptions`.  Each reference made later is *)
(* put in front of what malloc left there: the cleanup above takes it to be*)
(* NULL; otherwise r goes on into memory that is no sub_ref_t, and the     *)
(* process dies of a wild read or a wild free.                             *)
CleanupCrashes(c) ==
    /\ c \notin destroyed
    /\ crashed' = TRUE
    /\ UNCHANGED <<nodes, subscribers, refs, broken, scarce, destroyed, last>>

(* The environment: memory runs out and becomes available again.           *)
MemoryPressure ==
    /\ MayFail
    /\ destroyed = {}
    /\ scarce' = ~scarce
    /\ UNCHANGED <<nodes, subscribers, refs, broken, destroyed, crashed, last>>

(* client_destroy is called only after the server's loop has ended.        *)
Next == /\ ~crashed
        /\ \/ /\ destroyed = {}
              /\ \/ \E c \in Clients, p \in Patterns : Subscribe(c, p)
                 \/ \E c \in Clients, p \in Patterns : Unsubscribe(c, p)
                 \/ \E t \in Topics : Publish(t)
           \/ \E c \in Clients : Cleanup(c) \/ CleanupCrashes(c)
           \/ MemoryPressure

Spec == Init /\ [][Next]_vars

-----------------------------------------------------------------------------
(* Properties *)

(* topic_trie.h: "to let a client quickly unsubscribe/disconnect".  The    *)
(* subscriber lists of the nodes and the back references of the clients    *)
(* are two records of the same fact, kept by different functions.  They    *)
(* agree, and neither mentions a node that node_remove_if_empty has freed. *)
BackRefs ==
    \A n \in Paths, c \in Clients :
        /\ subscribers[n][c] = refs[c][n]
        /\ refs[c][n] > 0 => n \in nodes

(* Pruning and failed subscriptions leave a tree: the root stays, every    *)
(* node has its parent, and a child link without a node hangs off a live   *)
(* node and hides no node.                                                 *)
TreeShape ==
    /\ Root \in nodes
    /\ \A n \in nodes : Ancestors(n) \subseteq nodes
    /\ \A b \in broken : Ancestors(b) \ nodes = {b}

(* No entry of a node points to a client_t that client_destroy has freed,  *)
(* however often and wherever the client was subscribed.                   *)
NoDanglingClient ==
    \A c \in destroyed, n \in Paths : subscribers[n][c] = 0 /\ refs[c][n] = 0

(* README.md: "Unused branches are automatically removed when              *)
(* subscriptions are deleted".  Below the root, every node leads to a      *)
(* subscriber.                                                             *)
NoDeadBranches ==
    \A q \in nodes \ {Root} : \E n \in nodes, c \in Clients :
        q \in Ancestors(n) /\ subscribers[n][c] > 0

(* What a pattern means, stated without the trie: the topic can be cut     *)
(* into consecutive pieces, one per segment of the pattern, of any length  *)
(* for "*" ("zero or more segments", README.md), of length one for "+" and *)
(* equal to the segment otherwise.                                         *)
Matches(p, t) ==
    \E cut \in [0 .. Len(p) -> 0 .. Len(t)] :
        /\ cut[0] = 0 /\ cut[Len(p)] = Len(t)
        /\ \A i \in 1 .. Len(p) :
              IF p[i] = Star THEN cut[i - 1] <= cut[i]
              ELSE /\ cut[i] = cut[i - 1] + 1
                   /\ p[i] \in {Plus, t[cut[i]]}

Holders(t) ==
    {c \in Clients : \E p \in Patterns \cap nodes :
        subscribers[p][c] > 0 /\ Matches(p, t)}

(* README.md: "*" matches "zero or more segments", and trie_publish        *)
(* "invokes send_message for each unique client" that matches.             *)
EveryMatchServed == last.op = "publish" => Holders(last.topic) \subseteq last.to

Table == INSTANCE SubscriptionTable
         WITH table <- [c \in Clients |-> [p \in Patterns |-> subscribers[p][c]]]

(* The trie implements the table of subscriptions: what each operation     *)
(* returns, and whom each publication reaches, is what the table says.     *)
Refines == Table!Spec
=============================================================================
