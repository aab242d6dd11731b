--------------------------- MODULE MCOrderIntake ---------------------------
(***************************************************************************)
(* Three requests of two users under two keys: enough for two concurrent   *)
(* first attempts and a later retry, for a reused key with another         *)
(* payload, and for one key used by two users.  A cent is two units: the   *)
(* amounts 1 and 2 are stored as the same cent, and are not the same       *)
(* payload.                                                                *)
(***************************************************************************)
EXTENDS OrderService, TLC

CONSTANTS r1, r2, r3, u1, u2, k1, k2

MCUpper == [c \in Currencies |-> "USD"]

Ask(amount, currency) ==
    [sku |-> "stocked", quantity |-> 1, amount |-> amount, currency |-> currency]

MCBodies == {Ask(1, "usd"), Ask(1, "USD"), Ask(2, "USD")}

Sym == Permutations(OrderIds) \cup Permutations(Users) \cup Permutations(Keys)

=============================================================================
