----------------------------- MODULE Sessions ------------------------------
(***************************************************************************)
(* What the server promises its users: a session per client id, which      *)
(* outlives the connections.  A client goes online and offline; what it    *)
(* holds changes only while it is online, by its own commands, and is      *)
(* still there when it returns.  Module Server implements this with        *)
(* sockets, a poll loop and two lists of clients.                          *)
(***************************************************************************)
EXTENDS Naturals

CONSTANTS Ids,       \* client ids
          Patterns   \* subscription patterns

VARIABLES online,    \* the ids that are connected
          held,      \* held[c][p]: how often c is subscribed to p
          up         \* does the server still run its loop?

sessionVars == <<online, held, up>>

Init == /\ online = {}
        /\ held = [c \in Ids |-> [p \in Patterns |-> 0]]
        /\ up = TRUE

GoOnline(c) == c \notin online /\ online' = online \cup {c} /\ UNCHANGED held

GoOffline(c) == c \in online /\ online' = online \ {c} /\ UNCHANGED held

(* A command may be the last one of its connection: when it cannot be      *)
(* acknowledged the client goes offline, and keeps what it subscribed to.  *)
Subscribe(c, p) == /\ c \in online
                   /\ held' = [held EXCEPT ![c][p] = @ + 1]
                   /\ online' \in {online, online \ {c}}

Unsubscribe(c, p) == /\ c \in online
                     /\ held[c][p] > 0
                     /\ held' = [held EXCEPT ![c][p] = @ - 1]
                     /\ online' \in {online, online \ {c}}

Serve == \/ \E c \in Ids :
               \/ GoOnline(c)
               \/ GoOffline(c)
               \/ \E p \in Patterns : Subscribe(c, p) \/ Unsubscribe(c, p)
         \/ UNCHANGED <<online, held>>

(* After the loop has ended the sessions are thrown away.                  *)
Discard(c) == /\ online' = online \ {c}
              /\ held' = [held EXCEPT ![c] = [p \in Patterns |-> 0]]

Next == \/ up /\ up' \in BOOLEAN /\ Serve
        \/ ~up /\ UNCHANGED up /\ \E c \in Ids : Discard(c)

Spec == Init /\ [][Next]_sessionVars
=============================================================================
