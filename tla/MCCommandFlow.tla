---------------------------- MODULE MCCommandFlow ----------------------------
(* Instances of CommandFlow for TLC.                                       *)
EXTENDS CommandFlow, TLC

CONSTANTS c1, c2, k1, k2

OwnClient == (c1 :> k1) @@ (c2 :> k2)
SharedClient == (c1 :> k1) @@ (c2 :> k1)
OneCaller == c1 :> k1

Ok == [kind |-> "ok", code |-> 0]
(* FaultException's default error code is 0.                               *)
Fault0 == [kind |-> "fault", code |-> 0]
Fault500 == [kind |-> "fault", code |-> 500]
Typed500 == [kind |-> "typed", code |-> 500]
Throw == [kind |-> "throw", code |-> 0]

OkOrFault == {Ok, Fault500}
OkOrTyped == {Ok, Typed500}
EveryEnd == {Ok, Fault0, Throw}
=============================================================================
