---------------------------- MODULE MCOrderQueue ----------------------------
(***************************************************************************)
(* OrderQueue on small instances.  Two codes are enough for every branch   *)
(* of a refusal: "in" is on the connection's whitelist (instant cannot be  *)
(* used) and final, "later" is one the engine calls retryable; "in" about  *)
(* a normal message is an ordinary final refusal.                          *)
(***************************************************************************)
EXTENDS OrderQueue, TLC

CONSTANTS w1, w2

WorkerSymmetry == Permutations(Workers)

=============================================================================
