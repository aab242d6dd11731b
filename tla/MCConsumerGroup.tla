-------------------------- MODULE MCConsumerGroup --------------------------
(***************************************************************************)
(* Two members that overlap, and messages of which some are for another    *)
(* service.  Three faults let one member fail, lose the partition to the   *)
(* other and get it back.                                                  *)
(***************************************************************************)
EXTENDS ConsumerGroup

CONSTANTS m1, m2

=============================================================================
