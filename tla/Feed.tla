-------------------------------- MODULE Feed -------------------------------
(***************************************************************************)
(* What publishing promises: of the messages posted a reader is shown      *)
(* lines, each the line of a message it asked for, in the order they were  *)
(* posted, no message twice.  Some may be missing.  Module Publication     *)
(* implements this with datagrams, packets and frames.                     *)
(***************************************************************************)
EXTENDS Naturals, Sequences

CONSTANT Line(_)     \* the line of a message the reader wants, as a sequence
                     \* that is empty if it does not want it

VARIABLES posted,    \* the messages, in the order they were posted
          shown      \* what the reader was shown: which message, and the line

feedVars == <<posted, shown>>

Init == posted = << >> /\ shown = << >>

Post == /\ UNCHANGED shown
        /\ Len(posted') = Len(posted) + 1
        /\ SubSeq(posted', 1, Len(posted)) = posted

Later(i) == shown = << >> \/ i > shown[Len(shown)].from

Show(i) == /\ Later(i)
           /\ Line(posted[i]) # << >>
           /\ shown' = Append(shown, [from |-> i, line |-> Line(posted[i])[1]])
           /\ UNCHANGED posted

Next == Post \/ \E i \in 1 .. Len(posted) : Show(i)

Spec == Init /\ [][Next]_feedVars
=============================================================================
