------------------------------ MODULE History ------------------------------
(***************************************************************************)
(* What the broker promises all its subscribers together.  There is one    *)
(* history: commands, publications and ends of connections, in one order.  *)
(* Every subscriber is shown its part of it, and in that order: its own    *)
(* commands, and what is published while it is subscribed.  So no          *)
(* publication comes before the subscription it is due to or after the end *)
(* of it, and two subscribers never disagree about an order.  Module Broker*)
(* implements this.                                                        *)
(***************************************************************************)
EXTENDS Naturals, Sequences, FiniteSets, SequencesExt

CONSTANT Subs        \* subscribers

VARIABLES log,       \* the history
          seen       \* seen[c]: what subscriber c was shown

historyVars == <<log, seen>>

(* How often c is subscribed when event n happens.                         *)
Count(c, kind, n) ==
    Cardinality({i \in 1 .. n - 1 : log[i].kind = kind /\ log[i].client = c})

Subscribed(c, n) == Count(c, "sub", n) > Count(c, "unsub", n)

Concerns(c, n) == /\ Count(c, "end", n) = 0
                  /\ \/ log[n].kind \in {"sub", "unsub"} /\ log[n].client = c
                     \/ log[n].kind = "pub" /\ Subscribed(c, n)

View(c) == FlattenSeq([n \in 1 .. Len(log) |->
                          IF Concerns(c, n) THEN <<log[n]>> ELSE << >>])

Init == log = << >> /\ seen = [c \in Subs |-> << >>]

Happen == /\ Len(log') = Len(log) + 1
          /\ SubSeq(log', 1, Len(log)) = log
          /\ UNCHANGED seen

See(c) == /\ Len(seen[c]) < Len(View(c))
          /\ seen' = [seen EXCEPT ![c] = Append(@, View(c)[Len(@) + 1])]
          /\ UNCHANGED log

Next == Happen \/ \E c \in Subs : See(c)

Spec == Init /\ [][Next]_historyVars
=============================================================================
