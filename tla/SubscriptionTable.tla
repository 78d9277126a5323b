------------------------- MODULE SubscriptionTable -------------------------
(***************************************************************************)
(* What the topic trie promises to the rest of the server: a table of how  *)
(* many times each client holds each pattern, and publications that reach  *)
(* every client holding a matching pattern, or MaxSeen of them.  Nodes,    *)
(* child lists and back references do not appear; module TopicTrie         *)
(* implements this specification.                                          *)
(***************************************************************************)
EXTENDS Naturals, FiniteSets

CONSTANTS Clients,        \* the client_t objects
          Patterns,       \* the patterns clients ask for
          Topics,         \* the topics messages are published to
          Matches(_, _),  \* does a pattern match a topic?
          TooLong(_),     \* has a pattern more segments than the server takes?
          MaxSeen,        \* how many clients a publication can reach
          MayFail         \* can an allocation fail?

VARIABLES table,          \* table[c][p]: how many times c holds p
          destroyed,      \* the clients torn down at shutdown
          last            \* the last operation and what it returned

tableVars == <<table, destroyed, last>>

Receivers(t) ==
    {c \in Clients : \E p \in Patterns : table[c][p] > 0 /\ Matches(p, t)}

Outcome(op, c, p, ok) == [op |-> op, client |-> c, pattern |-> p, ok |-> ok]

-----------------------------------------------------------------------------
Init == /\ table = [c \in Clients |-> [p \in Patterns |-> 0]]
        /\ destroyed = {}
        /\ last = [op |-> "none"]

Accept(c, p) == /\ ~TooLong(p)
                /\ table' = [table EXCEPT ![c][p] = @ + 1]
                /\ last' = Outcome("subscribe", c, p, TRUE)

Refuse(c, p) == /\ TooLong(p) \/ MayFail
                /\ last' = Outcome("subscribe", c, p, FALSE)
                /\ UNCHANGED table

Drop(c, p) == /\ table[c][p] > 0
              /\ table' = [table EXCEPT ![c][p] = @ - 1]
              /\ last' = Outcome("unsubscribe", c, p, TRUE)

NothingToDrop(c, p) == /\ table[c][p] = 0 \/ MayFail
                       /\ last' = Outcome("unsubscribe", c, p, FALSE)
                       /\ UNCHANGED table

(* All receivers, or as many of them as can be reached.                    *)
Publish(t) == \E to \in SUBSET Receivers(t) :
                 /\ to = Receivers(t) \/ Cardinality(to) = MaxSeen
                 /\ last' = [op |-> "publish", topic |-> t, to |-> to]
                 /\ UNCHANGED table

Cleanup(c) == /\ table' = [table EXCEPT ![c] = [p \in Patterns |-> 0]]
              /\ destroyed' = destroyed \cup {c}
              /\ last' = [op |-> "cleanup", client |-> c]

Running == \/ \E c \in Clients, p \in Patterns :
                  \/ Accept(c, p)
                  \/ Refuse(c, p)
                  \/ Drop(c, p)
                  \/ NothingToDrop(c, p)
           \/ \E t \in Topics : Publish(t)

Next == \/ destroyed = {} /\ Running /\ UNCHANGED destroyed
        \/ \E c \in Clients \ destroyed : Cleanup(c)

Spec == Init /\ [][Next]_tableVars

=============================================================================
