---------------------------- MODULE MCOrderSaga ----------------------------
(***************************************************************************)
(* Two requests with keys of their own.  The bodies give every path of the *)
(* saga: approved, declined with stock to give back, and unknown item; two *)
(* orders for the two pieces in stock also compete.  A cent is four units  *)
(* and the limit two cents: amounts of 7, 8 and 9 units are all stored as  *)
(* the limit, and the last one is declined.                                *)
(***************************************************************************)
EXTENDS OrderSagaInv, TLC

CONSTANTS o1, o2, u1, k1, k2

MCSkus == {"stocked", "unknown"}
MCUpper == [c \in Currencies |-> "USD"]
MCInitialStock == [s \in {"stocked"} |-> 2]

Ask(sku, quantity, amount) ==
    [sku |-> sku, quantity |-> quantity, amount |-> amount, currency |-> "usd"]

MCBodies == {Ask("stocked", 1, 7), Ask("stocked", 2, 8), Ask("stocked", 1, 9),
             Ask("stocked", 2, 12), Ask("unknown", 1, 1)}

SymOrders == Permutations(OrderIds) \cup Permutations(Keys)

=============================================================================
