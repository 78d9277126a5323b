----------------------------- MODULE ServerMC ------------------------------
(***************************************************************************)
(* Instances of Server for TLC: two ids on two connections at a time, so   *)
(* that a client can return, find its id taken, or be accepted while       *)
(* another one is being served.                                            *)
(***************************************************************************)
EXTENDS Server, TLC

CONSTANTS p, q, t

SwapIds == Permutations(Ids)

OneMatch == {<<p, t>>}
ExitOnly == <<"exit">>
Silence == << >>
=============================================================================
