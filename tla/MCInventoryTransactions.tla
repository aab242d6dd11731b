---------------------- MODULE MCInventoryTransactions ----------------------
(***************************************************************************)
(* Three orders want the three pieces of one item, 2, 1 and 2; one of them *)
(* is released.  A fourth wants an item nobody knows.  Two consumers       *)
(* overlap, as many as a deadlock needs.                                   *)
(***************************************************************************)
EXTENDS InventoryTransactions, TLC

CONSTANTS o1, o2, o3, o4, sku1, unknown, usd, w1, w2

Stock == sku1 :> 3
Identity == usd :> usd

Wants(n, o, sku, quantity) ==
    [id |-> <<"orders", n>>, type |-> "ReserveInventoryRequested", order |-> o,
     body |-> [sku |-> sku, quantity |-> quantity, amount |-> 1, currency |-> usd]]
LetsGo(n, o) == [id |-> <<"orders", n>>, type |-> "ReleaseInventory", order |-> o]

MCCommands ==
    {Wants(1, o1, sku1, 2), Wants(2, o2, sku1, 1), Wants(3, o3, sku1, 2),
     LetsGo(4, o1), Wants(5, o4, unknown, 1)}

=============================================================================
