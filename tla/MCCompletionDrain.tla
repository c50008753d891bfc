-------------------------- MODULE MCCompletionDrain --------------------------
(***************************************************************************)
(* The completion drain on three item ids and a PAIR pipe of one frame, so *)
(* that the send blocks as soon as the producer lags one frame behind.     *)
(***************************************************************************)
EXTENDS CompletionDrain

MCIds == {0, 1, 2}
=============================================================================
