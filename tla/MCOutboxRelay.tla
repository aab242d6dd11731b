--------------------------- MODULE MCOutboxRelay ---------------------------
(***************************************************************************)
(* Three rows of the order service: the first command of an order, the     *)
(* compensation that results from it and a row of another order.  Two      *)
(* batches overlap, and a batch holds two rows at most.                    *)
(***************************************************************************)
EXTENDS OutboxRelay, TLC

CONSTANTS reserve, release, other, b1, b2

MCCause == release :> reserve

Sym == Permutations(Batches)

=============================================================================
