--------------------------- MODULE MCSagaDelivery ---------------------------
(***************************************************************************)
(* Two orders that compete for the two pieces in stock: one is within the  *)
(* limit, one asks for all the stock and is declined, and either may be    *)
(* for an unknown item.  One service at a time may have no producer, and   *)
(* one event may be passed by.                                             *)
(***************************************************************************)
EXTENDS SagaDelivery, TLC

CONSTANTS o1, o2, u1, k1, k2

MCSkus == {"stocked", "unknown"}
MCUpper == [c \in Currencies |-> "USD"]
MCInitialStock == [s \in {"stocked"} |-> 2]

Ask(sku, quantity, amount) ==
    [sku |-> sku, quantity |-> quantity, amount |-> amount, currency |-> "USD"]

MCBodies == {Ask("stocked", 1, 8), Ask("stocked", 2, 12), Ask("unknown", 1, 1)}

=============================================================================
