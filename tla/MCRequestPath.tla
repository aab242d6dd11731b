--------------------------- MODULE MCRequestPath ---------------------------
(***************************************************************************)
(* Two clients want the same order under one key, spelt differently, the   *)
(* way a double click or a retry in another tab does.  Their user is made  *)
(* administrator by the seed script meanwhile, and may then assign itself  *)
(* to a group, or to none by a misspelt code.                              *)
(***************************************************************************)
EXTENDS RequestPath

CONSTANTS u1, k1, r1, r2, r3, r4, r5, id1, a1, a2

MCUpper == [c \in Currencies |-> "USD"]

MCUpperCode == [c \in Codes |-> "ADMIN"]

Order(currency) == [sku |-> "stocked", quantity |-> 1, amount |-> 1, currency |-> currency]

MCBodies == {Order("usd"), Order("USD")}
MCIntents == [user : {u1}, key : {k1}, body : MCBodies]

=============================================================================
