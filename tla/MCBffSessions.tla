--------------------------- MODULE MCBffSessions ---------------------------
(***************************************************************************)
(* One request logs in; three more overlap in the session, enough for two  *)
(* refreshes of one token and a logout at the same time.  Sessions share   *)
(* nothing, so one of them is enough.                                      *)
(***************************************************************************)
EXTENDS BffSessions, TLC

CONSTANTS s1, r1, r2, r3, r4

Sym == Permutations(Requests)

=============================================================================
