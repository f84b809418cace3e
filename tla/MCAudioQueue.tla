---------------------------- MODULE MCAudioQueue ----------------------------
(***************************************************************************)
(* Two chunks of different lengths, so that their order shows in the queue *)
(* and the longer one takes two writes.                                    *)
(***************************************************************************)
EXTENDS AudioQueue

TwoChunks == {[data |-> "a", len |-> 1], [data |-> "b", len |-> 2]}
=============================================================================
