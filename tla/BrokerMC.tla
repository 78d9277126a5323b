------------------------------ MODULE BrokerMC -----------------------------
(***************************************************************************)
(* Instances of Broker for TLC: one subscriber whose stdin is closed, or   *)
(* that makes mistakes, and one that behaves, over connections that hold   *)
(* one frame.                                                              *)
(***************************************************************************)
EXTENDS Broker

CONSTANTS wild, tame

Type1(w, t) == [c \in {wild, tame} |-> IF c = wild THEN w ELSE t]

Typed == {Type1(<<"sub", "eof">>, <<"sub">>),
          Type1(<<"sub", "unsub", "eof">>, <<"sub">>),
          Type1(<<"short">>, <<"sub", "exit">>),
          Type1(<<"other", "other", "unsub">>, <<"sub", "unsub">>)}
=============================================================================
