--------------------------- MODULE FrameChannel ----------------------------
(***************************************************************************)
(* What the framing of protocol.c and client_handle_data promises: the     *)
(* frames one side sends on a connection come out at the other side whole, *)
(* in order, each once, whatever TCP does to the bytes; frames of unknown  *)
(* type are left out.  Module ReadBuffer implements this.                  *)
(***************************************************************************)
EXTENDS Naturals, Sequences, SequencesExt

CONSTANTS Frames,      \* what can be sent
          Known        \* those of them the receiver acts on

VARIABLES sent, handled

channelVars == <<sent, handled>>

Init == sent = << >> /\ handled = << >>

Send(m) == sent' = Append(sent, m) /\ UNCHANGED handled

(* The known ones among the frames s.                                      *)
Selected(s) == FlattenSeq([n \in DOMAIN s |-> IF s[n] \in Known THEN <<s[n]>> ELSE << >>])

(* The next known frame is what follows some prefix of those sent.         *)
Handle == /\ \E n \in 1 .. Len(sent) :
                /\ sent[n] \in Known
                /\ handled = Selected(SubSeq(sent, 1, n - 1))
                /\ handled' = Append(handled, sent[n])
          /\ UNCHANGED sent

(* The connection ends and another one takes its place.                    *)
Reset == sent' = << >> /\ handled' = << >>

Next == (\E m \in Frames : Send(m)) \/ Handle \/ Reset

Spec == Init /\ [][Next]_channelVars
=============================================================================
