---------------------------- MODULE ReadBufferMC ---------------------------
(***************************************************************************)
(* ReadBuffer for TLC.  With a buffer of 7 bytes a frame can be empty, can *)
(* fill the buffer exactly, and can be one byte too long; payloads hold    *)
(* bytes that look like headers.                                           *)
(***************************************************************************)
EXTENDS ReadBuffer

FrameSet == {[type |-> 1, body |-> << >>],
             [type |-> 1, body |-> <<0, 2>>],
             [type |-> 2, body |-> <<1, 0, 1, 7>>],
             [type |-> 9, body |-> <<0>>],
             [type |-> 1, body |-> <<0, 1, 0, 0, 1>>]}
=============================================================================
