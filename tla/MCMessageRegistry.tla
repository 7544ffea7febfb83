-------------------------- MODULE MCMessageRegistry --------------------------
(* Instances of MessageRegistry for TLC.                                   *)
EXTENDS MessageRegistry

CONSTANTS CreateOrder, OrderCreated, OrderFault

(* Unique ids; one type, OrderFault, is asked for under two of them, so    *)
(* that RegisterMessage has something to refuse.                           *)
UniqueContract ==
  {<<CreateOrder, 1>>, <<OrderCreated, 2>>, <<OrderFault, 3>>,
   <<OrderFault, 4>>}
=============================================================================
